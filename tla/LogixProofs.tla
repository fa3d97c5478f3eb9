----------------------------- MODULE LogixProofs -----------------------------
(***************************************************************************)
(* The state of the Logix5000 layer stays of its types, listTags yields its *)
(* scope's symbols in order, all of them when it ends by itself, and a      *)
(* template in the cache is its whole definition: for any controller, any   *)
(* calls at once, any pages, chunks and refusals.                           *)
(*                                                                          *)
(* One invariant holds all three.  Each frame of a stack is one of its      *)
(* function's; a reply that is there is an answer to the request of the     *)
(* innermost frame, because a function that calls another gets a value,     *)
(* never a reply; a lookup is the only function that getSymbolInfo and      *)
(* readSymbolAttributeList call, and it returns an id or none; the data a   *)
(* read of a template has gathered is the definition up to its offset; and  *)
(* what a list has yielded, followed by what its next page is asked from,   *)
(* is the whole list.                                                       *)
(***************************************************************************)
EXTENDS LogixTags, SequenceTheorems, FiniteSetTheorems, TLAPS

-----------------------------------------------------------------------------
(* Order.  A set of numbers has a least, and a finite one a greatest.        *)
LEMMA LeastElement ==
  ASSUME NEW T, T \subseteq Nat, T # {}
  PROVE  \E x \in T : \A y \in T : x <= y
<1>. DEFINE Less == {p \in Nat \X Nat : p[1] < p[2]}
<1>1. IsWellFoundedOn(Less, Nat)
  BY NatLessThanWellFounded DEF OpToRel
<1>2. \A x, y \in T : ~ (<<y, x>> \in Less) => x <= y
  OBVIOUS
<1>. HIDE DEF Less
<1>3. \E x \in T : \A y \in T : ~ (<<y, x>> \in Less)
  BY <1>1, WFMin
<1>. QED
  BY <1>2, <1>3

(* The elements of a set in increasing order.                                *)
Increases(s) == \A i, j \in 1 .. Len(s) : i < j => s[i] < s[j]

Enumerates(s, S) ==
  /\ s \in Seq(S) /\ Increases(s)
  /\ \A x \in S : \E i \in 1 .. Len(s) : s[i] = x

(* It has as many elements as the set, ...                                   *)
LEMMA EnumerationLength ==
  ASSUME NEW S, S \subseteq Nat, NEW s, Enumerates(s, S)
  PROVE  IsFiniteSet(S) /\ Len(s) = Cardinality(S)
<1>. DEFINE n == Len(s)
<1>1. n \in Nat /\ s \in [1 .. n -> S]
  BY LenProperties DEF Enumerates
<1>2. \A i, j \in 1 .. n : i < j => s[i] < s[j]
  BY DEF Enumerates, Increases
<1>3. \A x \in S : \E i \in 1 .. n : s[i] = x
  BY DEF Enumerates
<1>. HIDE DEF n
<1>4. \A i \in 1 .. n : s[i] \in Nat
  BY <1>1
<1>5. ASSUME NEW i \in 1 .. n, NEW j \in 1 .. n, s[i] = s[j] PROVE i = j
  <2>1. CASE i < j
    BY <1>2, <1>4, <1>5, <2>1
  <2>2. CASE j < i
    BY <1>2, <1>4, <1>5, <2>2
  <2>. QED
    BY <1>1, <2>1, <2>2
<1>6. s \in Bijection(1 .. n, S)
  BY <1>1, <1>3, <1>5 DEF Bijection, Injection, Surjection, IsInjective
<1>7. ExistsBijection(1 .. n, S)
  BY <1>6 DEF ExistsBijection
<1>8. IsFiniteSet(S)
  BY <1>1, <1>7, FS_NatBijection
<1>9. Cardinality(S) = n
  BY <1>1, <1>7, FS_CountingElements
<1>. QED
  BY <1>8, <1>9 DEF n

(* ... and there is only one.                                                *)
LEMMA EnumerationUnique ==
  ASSUME NEW S, S \subseteq Nat, NEW s, Enumerates(s, S), NEW t, Enumerates(t, S)
  PROVE  s = t
<1>. DEFINE n == Cardinality(S)
<1>1. n \in Nat /\ Len(s) = n /\ Len(t) = n
  BY EnumerationLength, FS_CardinalityType
<1>2. s \in [1 .. n -> S] /\ t \in [1 .. n -> S] /\ s \in Seq(S) /\ t \in Seq(S)
  BY <1>1, LenProperties DEF Enumerates
<1>3. /\ \A i, j \in 1 .. n : i < j => s[i] < s[j]
      /\ \A i, j \in 1 .. n : i < j => t[i] < t[j]
  BY <1>1 DEF Enumerates, Increases
<1>4. /\ \A x \in S : \E i \in 1 .. n : s[i] = x
      /\ \A x \in S : \E i \in 1 .. n : t[i] = x
  BY <1>1 DEF Enumerates
<1>. HIDE DEF n
<1>5. \A i \in 1 .. n : s[i] \in Nat /\ t[i] \in Nat /\ s[i] \in S /\ t[i] \in S
  BY <1>2
<1>. DEFINE D == {i \in 1 .. n : s[i] # t[i]}
<1>6. ASSUME D # {} PROVE FALSE
  <2>1. D \subseteq Nat
    OBVIOUS
  <2>2. PICK k \in D : \A y \in D : k <= y
    <3>. HIDE DEF D
    <3>. QED
      BY <1>6, <2>1, LeastElement
  <2>3. k \in 1 .. n /\ s[k] # t[k] /\ \A j \in 1 .. n : j < k => s[j] = t[j]
    BY <2>2
  <2>4. PICK i \in 1 .. n : t[i] = s[k]
    BY <1>4, <1>5, <2>3
  <2>5. PICK j \in 1 .. n : s[j] = t[k]
    BY <1>4, <1>5, <2>3
  <2>6. CASE i < k
    <3>1. s[i] = s[k]
      BY <2>3, <2>4, <2>6
    <3>. QED
      BY <1>3, <1>5, <2>3, <2>6, <3>1
  <2>7. CASE j < k
    <3>1. t[j] = t[k]
      BY <2>3, <2>5, <2>7
    <3>. QED
      BY <1>3, <1>5, <2>3, <2>7, <3>1
  <2>8. CASE ~(i < k) /\ ~(j < k)
    <3>1. i # k /\ j # k
      BY <2>3, <2>4, <2>5
    <3>2. k < i /\ k < j
      BY <2>3, <2>8, <3>1
    <3>3. t[k] < s[k] /\ s[k] < t[k]
      BY <1>3, <2>3, <2>4, <2>5, <3>2
    <3>. QED
      BY <1>5, <2>3, <3>3
  <2>. QED
    BY <2>6, <2>7, <2>8
<1>7. \A i \in 1 .. n : s[i] = t[i]
  BY <1>6
<1>. QED
  BY <1>1, <1>2, <1>7, SeqEqual

(* Induction, as membership in a set.                                        *)
LEMMA SetInduction ==
  ASSUME NEW S, 0 \in S, \A n \in Nat : n \in S => n + 1 \in S
  PROVE  Nat \subseteq S
<1>. DEFINE T == Nat \ S
<1>. SUFFICES ASSUME T # {} PROVE FALSE
  OBVIOUS
<1>1. PICK x \in T : \A y \in T : x <= y
  BY LeastElement
<1>2. x \in Nat /\ x # 0 /\ x - 1 \in Nat /\ (x - 1) + 1 = x
  BY <1>1
<1>3. x - 1 \in T
  BY <1>1, <1>2
<1>. QED
  BY <1>1, <1>2, <1>3

(* The greatest of a finite set.                                             *)
LEMMA GreatestElement ==
  ASSUME NEW S, S \subseteq Nat, IsFiniteSet(S), S # {}
  PROVE  \E x \in S : \A y \in S : y <= x
<1>. DEFINE Good == {n \in Nat : \A T \in SUBSET Nat :
                       IsFiniteSet(T) /\ Cardinality(T) = n /\ T # {} =>
                         \E x \in T : \A y \in T : y <= x}
<1>1. 0 \in Good
  BY FS_EmptySet
<1>2. ASSUME NEW n \in Nat, n \in Good PROVE n + 1 \in Good
  <2>1. ASSUME NEW T \in SUBSET Nat, IsFiniteSet(T), Cardinality(T) = n + 1, T # {}
        PROVE  \E x \in T : \A y \in T : y <= x
    <3>1. PICK a \in T : TRUE
      BY <2>1
    <3>. DEFINE U == T \ {a}
    <3>2. IsFiniteSet(U) /\ Cardinality(U) = n
      <4>1. IsFiniteSet(U) /\ Cardinality(U) = (n + 1) - 1
        BY ONLY <2>1, <3>1, FS_RemoveElement
      <4>. QED
        BY <4>1
    <3>3. CASE U = {}
      BY <2>1, <3>1, <3>3
    <3>4. CASE U # {}
      <4>1. U \in SUBSET Nat
        OBVIOUS
      <4>2. PICK x \in U : \A y \in U : y <= x
        <5>. HIDE DEF U
        <5>. QED
          BY <1>2, <3>2, <3>4, <4>1
      <4>. QED
        BY <2>1, <3>1, <4>1, <4>2
    <3>. QED
      BY <3>3, <3>4
  <2>. QED
    BY <2>1
<1>. HIDE DEF Good
<1>3. Nat \subseteq Good
  BY <1>1, <1>2, SetInduction
<1>4. Cardinality(S) \in Good
  BY <1>3, FS_CardinalityType
<1>. QED
  BY <1>4 DEF Good

(* A greater element goes to the end.                                        *)
LEMMA EnumerationExtended ==
  ASSUME NEW S, S \subseteq Nat, NEW m \in S, \A x \in S : x <= m,
         NEW s, Enumerates(s, S \ {m})
  PROVE  Enumerates(Append(s, m), S)
<1>. DEFINE t == Append(s, m)
            n == Len(s)
<1>1. s \in Seq(S \ {m})
  BY DEF Enumerates
<1>1a. s \in Seq(S)
  BY <1>1, SeqMonotonic
<1>2. n \in Nat /\ t \in Seq(S) /\ Len(t) = n + 1 /\ \A i \in 1 .. n : s[i] \in S \ {m}
  BY <1>1, <1>1a, AppendProperties, LenProperties, ElementOfSeq
<1>3. t[n + 1] = m /\ \A i \in 1 .. n : t[i] = s[i]
  BY <1>1a, AppendProperties
<1>4. \A i, j \in 1 .. n : i < j => s[i] < s[j]
  BY DEF Enumerates, Increases
<1>5. \A x \in S \ {m} : \E i \in 1 .. n : s[i] = x
  BY DEF Enumerates
<1>. HIDE DEF n, t
<1>6. \A i \in 1 .. n : s[i] < m
  <2>1. \A x \in S \ {m} : x < m
    OBVIOUS
  <2>. QED
    BY <1>2, <2>1
<1>7. Increases(t)
  <2>1. ASSUME NEW i \in 1 .. n + 1, NEW j \in 1 .. n + 1, i < j PROVE t[i] < t[j]
    <3>1. i \in 1 .. n
      BY <1>2, <2>1
    <3>2. CASE j = n + 1
      BY <1>3, <1>6, <3>1, <3>2
    <3>3. CASE j # n + 1
      <4>1. j \in 1 .. n
        BY <1>2, <3>3
      <4>. QED
        BY <1>3, <1>4, <2>1, <3>1, <4>1
    <3>. QED
      BY <3>2, <3>3
  <2>. QED
    BY <1>2, <2>1 DEF Increases
<1>8. ASSUME NEW x \in S PROVE \E i \in 1 .. n + 1 : t[i] = x
  <2>1. CASE x = m
    BY <1>2, <1>3, <2>1
  <2>2. CASE x # m
    <3>1. PICK i \in 1 .. n : s[i] = x
      BY <1>5, <2>2
    <3>2. i \in 1 .. n + 1
      BY <1>2
    <3>. QED
      BY <1>3, <3>1, <3>2
  <2>. QED
    BY <2>1, <2>2
<1>. QED
  BY <1>2, <1>7, <1>8 DEF Enumerates, t

(* Every finite set has one.                                                 *)
LEMMA EnumerationExists ==
  ASSUME NEW S, S \subseteq Nat, IsFiniteSet(S)
  PROVE  \E s : Enumerates(s, S)
<1>. DEFINE Good == {n \in Nat : \A T \in SUBSET Nat :
                       IsFiniteSet(T) /\ Cardinality(T) = n => \E s : Enumerates(s, T)}
<1>1. 0 \in Good
  <2>1. ASSUME NEW T \in SUBSET Nat, IsFiniteSet(T), Cardinality(T) = 0
        PROVE  Enumerates(<<>>, T)
    <3>1. T = {}
      BY <2>1, FS_EmptySet
    <3>2. <<>> \in Seq(T) /\ Len(<<>>) = 0
      BY EmptySeq
    <3>. QED
      BY <3>1, <3>2 DEF Enumerates, Increases
  <2>. QED
    BY <2>1
<1>2. ASSUME NEW n \in Nat, n \in Good PROVE n + 1 \in Good
  <2>1. ASSUME NEW T \in SUBSET Nat, IsFiniteSet(T), Cardinality(T) = n + 1
        PROVE  \E s : Enumerates(s, T)
    <3>1. T # {}
      BY <2>1, FS_EmptySet
    <3>2. PICK m \in T : \A y \in T : y <= m
      BY <2>1, <3>1, GreatestElement
    <3>3. IsFiniteSet(T \ {m}) /\ Cardinality(T \ {m}) = n
      <4>1. IsFiniteSet(T \ {m}) /\ Cardinality(T \ {m}) = (n + 1) - 1
        BY ONLY <2>1, <3>2, FS_RemoveElement
      <4>. QED
        BY <4>1
    <3>4. PICK s : Enumerates(s, T \ {m})
      BY <1>2, <3>3
    <3>5. Enumerates(Append(s, m), T)
      BY <2>1, <3>2, <3>4, EnumerationExtended
    <3>. QED
      BY <3>5
  <2>. QED
    BY <2>1
<1>. HIDE DEF Good
<1>3. Nat \subseteq Good
  BY <1>1, <1>2, SetInduction
<1>4. Cardinality(S) \in Good
  BY <1>3, FS_CardinalityType
<1>. QED
  BY <1>4 DEF Good

(* So InOrder is it.                                                         *)
LEMMA InOrderFacts ==
  ASSUME NEW S, S \subseteq Nat, IsFiniteSet(S)
  PROVE  /\ Enumerates(InOrder(S), S)
         /\ \A t : Enumerates(t, S) => InOrder(S) = t
<1>. DEFINE n == Cardinality(S)
            P(s) == \A i, j \in 1 .. n : i < j => s[i] < s[j]
            o == InOrder(S)
<1>1. n \in Nat
  BY FS_CardinalityType
<1>2. \E s \in [1 .. n -> S] : P(s)
  <2>1. PICK s : Enumerates(s, S)
    BY EnumerationExists
  <2>2. Len(s) = n
    BY <2>1, EnumerationLength
  <2>3. s \in [1 .. n -> S] /\ P(s)
    BY <2>1, <2>2, LenProperties DEF Enumerates, Increases
  <2>. QED
    BY <2>3
<1>3. o \in [1 .. n -> S] /\ P(o)
  BY <1>2 DEF InOrder
<1>. HIDE DEF o, n
<1>4. o \in Seq(S) /\ Len(o) = n
  BY <1>1, <1>3, IsASeq, LenProperties
<1>5. \A i \in 1 .. n : o[i] \in Nat
  BY <1>3
<1>6. ASSUME NEW i \in 1 .. n, NEW j \in 1 .. n, o[i] = o[j] PROVE i = j
  <2>1. CASE i < j
    BY <1>3, <1>5, <1>6, <2>1
  <2>2. CASE j < i
    BY <1>3, <1>5, <1>6, <2>2
  <2>. QED
    BY <1>1, <2>1, <2>2
<1>7. o \in Injection(1 .. n, S)
  BY <1>3, <1>6 DEF Injection, IsInjective
<1>8. IsFiniteSet(1 .. n) /\ Cardinality(1 .. n) = n
  BY <1>1, FS_Interval
<1>9. o \in Surjection(1 .. n, S)
  BY <1>7, <1>8, FS_Injection DEF n
<1>10. \A x \in S : \E i \in 1 .. n : o[i] = x
  BY <1>9 DEF Surjection
<1>11. Enumerates(o, S)
  BY <1>3, <1>4, <1>10 DEF Enumerates, Increases
<1>12. \A t : Enumerates(t, S) => o = t
  BY <1>11, EnumerationUnique
<1>. QED
  BY <1>11, <1>12 DEF o

(* What follows an id in a scope, in order, ...                              *)
LEMMA FollowingFacts ==
  ASSUME NEW scope \in Scopes, NEW from \in Nat
  PROVE  Enumerates(Following(scope, from), {i \in Ids[scope] : i >= from})
         /\ {i \in Ids[scope] : i >= from} \subseteq Nat
         /\ Following(scope, from) \in Seq(Nat)
<1>. DEFINE S == {i \in Ids[scope] : i >= from}
<1>1. S \subseteq Nat /\ IsFiniteSet(S)
  BY LogixAssumption, FS_Subset
<1>. HIDE DEF S
<1>2. Enumerates(Following(scope, from), S)
  BY <1>1, InOrderFacts DEF Following, S
<1>3. Following(scope, from) \in Seq(Nat)
  BY <1>1, <1>2, SeqMonotonic DEF Enumerates
<1>. QED
  BY <1>1, <1>2, <1>3 DEF S

(* ... and what follows an element of that is the rest of it.                *)
LEMMA FollowingRest ==
  ASSUME NEW scope \in Scopes, NEW from \in Nat, NEW n \in 1 .. Len(Following(scope, from))
  PROVE  /\ Following(scope, from)[n] \in Nat
         /\ Following(scope, Following(scope, from)[n] + 1)
              = SubSeq(Following(scope, from), n + 1, Len(Following(scope, from)))
<1>. DEFINE r == Following(scope, from)
            m == Len(r)
            S == {i \in Ids[scope] : i >= from}
            last == r[n]
            T == {i \in Ids[scope] : i >= last + 1}
            t == SubSeq(r, n + 1, m)
<1>1. Enumerates(r, S) /\ S \subseteq Nat /\ r \in Seq(Nat) /\ r \in Seq(S)
  BY FollowingFacts DEF Enumerates
<1>2. m \in Nat /\ \A i \in 1 .. m : r[i] \in S /\ r[i] \in Nat
  BY <1>1, LenProperties, ElementOfSeq
<1>3. /\ \A i, j \in 1 .. m : i < j => r[i] < r[j]
      /\ \A x \in S : \E i \in 1 .. m : r[i] = x
  BY <1>1 DEF Enumerates, Increases
<1>. HIDE DEF r, m
<1>3a. n \in 1 .. m
  BY DEF m, r
<1>4. last \in Nat /\ last \in S /\ last >= from
  BY <1>2, <1>3a
<1>5. Enumerates(Following(scope, last + 1), T) /\ T \subseteq Nat
  BY <1>4, FollowingFacts
<1>6. /\ t \in Seq(S) /\ Len(t) = m - n
      /\ \A i \in 1 .. m - n : t[i] = r[n + i]
  <2>1. n + 1 \in 1 .. m + 1 /\ m - (n + 1) + 1 = m - n
    BY <1>2, <1>3a
  <2>2. CASE n = m
    <3>1. t = <<>>
      BY <1>1, <1>2, <2>2, SubSeqEmpty
    <3>. QED
      BY <1>2, <2>2, <3>1, EmptySeq
  <2>3. CASE n # m
    <3>1. n + 1 \in 1 .. m + 1 /\ m \in n .. m /\ n + 1 <= m
      BY <1>2, <1>3a, <2>3
    <3>2. /\ t \in Seq(S) /\ Len(t) = m - n
          /\ \A i \in 1 .. m - n : t[i] = r[(n + 1) + i - 1]
      <4>. HIDE DEF t, last, T, S
      <4>1. /\ SubSeq(r, n + 1, m) \in Seq(S) 
            /\ Len(SubSeq(r, n + 1, m)) = m - (n + 1) + 1
            /\ \A i \in 1 .. m - (n + 1) + 1 : SubSeq(r, n + 1, m)[i] = r[(n + 1) + i - 1]
        BY <1>1, <1>2, <3>1, SubSeqProperties DEF m
      <4>. QED
        BY <2>1, <4>1 DEF t
    <3>3. \A i \in 1 .. m - n : (n + 1) + i - 1 = n + i
      BY <1>2, <1>3a
    <3>. QED
      BY <3>2, <3>3
  <2>. QED
    BY <2>2, <2>3
<1>. HIDE DEF t, last
<1>7. \A i \in 1 .. m - n : n + i \in 1 .. m /\ n < n + i
  BY <1>2, <1>3a
<1>8. Increases(t)
  <2>1. ASSUME NEW i \in 1 .. m - n, NEW j \in 1 .. m - n, i < j PROVE t[i] < t[j]
    <3>1. n + i \in 1 .. m /\ n + j \in 1 .. m /\ n + i < n + j
      BY <1>2, <1>3a, <2>1
    <3>. QED
      BY <1>3, <1>6, <3>1
  <2>. QED
    BY <1>6, <2>1 DEF Increases
<1>9. \A i \in 1 .. m - n : t[i] \in T
  <2>. SUFFICES ASSUME NEW i \in 1 .. m - n PROVE t[i] \in T
    OBVIOUS
  <2>1. t[i] = r[n + i] /\ r[n] < r[n + i] /\ r[n + i] \in S /\ r[n + i] \in Nat
    BY <1>2, <1>3, <1>3a, <1>6, <1>7
  <2>2. r[n + i] >= last + 1
    BY <1>4, <2>1 DEF last
  <2>. QED
    BY <2>1, <2>2
<1>10. t \in Seq(T)
  <2>1. t \in [1 .. m - n -> T] /\ m - n \in Nat
    BY <1>2, <1>3a, <1>6, <1>9, LenProperties
  <2>. QED
    BY <2>1, IsASeq
<1>11. ASSUME NEW x \in T PROVE \E i \in 1 .. m - n : t[i] = x
  <2>1. x \in S /\ x \in Nat /\ last < x
    BY <1>4, <1>5
  <2>2. PICK j \in 1 .. m : r[j] = x
    BY <1>3, <2>1
  <2>3. n < j
    <3>1. CASE j = n
      BY <1>4, <2>1, <2>2, <3>1 DEF last
    <3>2. CASE j < n
      <4>1. r[j] < r[n]
        BY <1>3, <1>3a, <3>2
      <4>. QED
        BY <1>4, <2>1, <2>2, <4>1 DEF last
    <3>. QED
      BY <1>2, <1>3a, <3>1, <3>2
  <2>4. j - n \in 1 .. m - n /\ n + (j - n) = j
    BY <1>2, <1>3a, <2>3
  <2>. QED
    BY <1>6, <2>2, <2>4
<1>12. Enumerates(t, T)
  BY <1>6, <1>8, <1>10, <1>11 DEF Enumerates
<1>13. Following(scope, last + 1) = t
  <2>. HIDE DEF T
  <2>. QED
    BY <1>5, <1>12, EnumerationUnique
<1>. QED
  BY <1>4, <1>13 DEF last, t, m, r
-----------------------------------------------------------------------------
(* The frames of each function.                                              *)
Retries == 0 .. MaxRetry
InstanceIds == Nat \cup {None}

LookupFrame ==
  [fn : {"lookup"}, at : {"start", "page"}, scope : Names, tag : Tags, number : BOOLEAN,
   from : Nat, retry : Retries]
InfoFrame ==
  [fn : {"info"}, at : {"start", "page"}, scope : Names, tag : Tags, number : BOOLEAN,
   id : InstanceIds, from : Nat, retry : Retries]
AttributesFrame ==
  [fn : {"attributes"}, at : {"start", "request"}, scope : Names, tag : Tags, number : BOOLEAN,
   id : InstanceIds]
SizeFrame ==
  [fn : {"size"}, at : {"start", "attributes", "info", "template"}, scope : Names, tag : Tags,
   part : Nat, template : Templates \cup {NoType}]
TemplateFrame ==
  [fn : {"template"}, at : {"start", "chunk"}, template : Templates, offset : Nat, data : Seq(Nat)]
TemplateAttributesFrame ==
  [fn : {"template attributes"}, at : {"start", "request"}, template : Templates]
ReadFrame ==
  [fn : {"read"}, at : {"start", "size", "request", "fragment", "info", "page", "name"},
   scope : Names, tag : Tags, number : BOOLEAN, elements : {"none", "given", "invalid"},
   offset : Nat, names : Seq(Nat), more : BOOLEAN, from : Nat, retry : Retries]
WriteFrame == [fn : {"write"}, at : {"start", "request"}, tag : Tags, number : BOOLEAN]
ListFrame ==
  [fn : {"list"}, at : {"start", "page"}, scope : Names, from : Nat, retry : Retries]
SingleFrame == [fn : {"modify", "controller", "class"}, at : {"start", "request"}]

Frame ==
  LookupFrame \cup InfoFrame \cup AttributesFrame \cup SizeFrame \cup TemplateFrame
    \cup TemplateAttributesFrame \cup ReadFrame \cup WriteFrame \cup ListFrame \cup SingleFrame

(* What the variables of a frame say: a template's data is its definition up *)
(* to the offset, and a tag whose first part is looked up has others.        *)
FrameOK(f) ==
  /\ f \in Frame
  /\ f.fn = "template" => f.offset <= Bytes[f.template] /\ f.data = Piece(0, f.offset)
  /\ f.fn = "size" /\ f.at = "info" => Len(f.tag) # 1

FramesOK == {f \in Frame : FrameOK(f)}

(* Functions that others never call.                                         *)
Outermost == {"write", "class"}

(* g may be a function that f has called.                                    *)
Called(g, f) ==
  /\ g.fn \notin Outermost /\ f.fn # "list"
  /\ f.fn \in {"info", "attributes"} => g.fn = "lookup"

(* What a function awaits, or goes on with: a reply is an answer to its      *)
(* request, and what the lookup of a name returns is an id or none.          *)
Awaits(f, v) ==
  /\ v.is \in {"started", "waiting", "thrown", "error", "returned", "reply"}
  /\ v.is = "reply" => v \in Answers(f)
  /\ v.is = "returned" /\ f.fn \in {"info", "attributes"} => v.value \in InstanceIds
  /\ v.is \in {"waiting", "reply"} /\ f.fn = "template" => f.at = "chunk"

(* The functions of a call, the innermost with what it awaits.               *)
StackOK(s, v) ==
  /\ s \in Seq(FramesOK)
  /\ \A i \in 1 .. Len(s) - 1 : Called(s[i], s[i + 1])
  /\ s # <<>> => Awaits(Head(s), v)
  /\ s = <<>> => v.is = "waiting"

Outcomes == {"idle", "pending", "resolved", "rejected", "lost"}

CallOK(s, v, how) ==
  /\ StackOK(s, v) /\ how \in Outcomes
  /\ s = <<>> => how # "pending"
  /\ how = "idle" => s = <<>>

CallsOK ==
  /\ stack = [c \in Calls |-> stack[c]] /\ value = [c \in Calls |-> value[c]]
  /\ outcome \in [Calls -> Outcomes]
  /\ \A c \in Calls : CallOK(stack[c], value[c], outcome[c])

CachesOK ==
  /\ symbolId \in [Scopes -> InstanceIds] /\ highest \in [Scopes -> InstanceIds]
  /\ tags \in [Scopes -> Types \cup {NoType}] /\ attributes \subseteq Templates
  /\ templates \in [Templates -> Seq(Nat)] /\ TemplateIsWhole

(* What a call of listTags has yielded is what comes before its next page.   *)
Listing(f, l) ==
  /\ l.ended = "no"
  /\ f.at = "start" => l.ids = <<>> /\ f.from = 0
  /\ f.at = "page" =>
       /\ l.scope = f.scope
       /\ f.scope \in Scopes => l.ids \o Following(f.scope, f.from) = Following(f.scope, 0)
       /\ f.scope \notin Scopes => l.ids = <<>>

Complete(l) ==
  l.ids # <<>> \/ l.ended = "done" =>
    LET all == Following(l.scope, 0)
    IN  IsPrefix(l.ids, all) /\ (l.ended = "done" => l.ids = all)

Listed == [scope : Names, ids : Seq(Nat), ended : {"no", "done", "stopped", "gave up"}]

ListOK(s, l, how) ==
  /\ l \in Listed /\ Complete(l)
  /\ how = "idle" => l.ids = <<>> /\ l.ended = "no"
  /\ s # <<>> /\ Head(s).fn = "list" => Listing(Head(s), l)

ListsOK ==
  listed \in [Calls -> Listed] /\ \A c \in Calls : ListOK(stack[c], listed[c], outcome[c])

IInv == CallsOK /\ CachesOK /\ ListsOK
-----------------------------------------------------------------------------
(* A frame is one of its function's.                                         *)
LEMMA FrameFacts ==
  ASSUME NEW f, FrameOK(f)
  PROVE  /\ f \in FramesOK /\ f.fn \in Functions
         /\ f.fn = "lookup" => f \in LookupFrame
         /\ f.fn = "info" => f \in InfoFrame
         /\ f.fn = "attributes" => f \in AttributesFrame
         /\ f.fn = "size" => f \in SizeFrame
         /\ f.fn = "template" => f \in TemplateFrame
         /\ f.fn = "template attributes" => f \in TemplateAttributesFrame
         /\ f.fn = "read" => f \in ReadFrame
         /\ f.fn = "write" => f \in WriteFrame
         /\ f.fn = "list" => f \in ListFrame
         /\ f.fn \in {"modify", "controller", "class"} => f \in SingleFrame
<1>1. f \in Frame /\ f \in FramesOK
  BY DEF FrameOK, FramesOK
<1>2. /\ f \in LookupFrame => f.fn = "lookup"
      /\ f \in InfoFrame => f.fn = "info"
      /\ f \in AttributesFrame => f.fn = "attributes"
      /\ f \in SizeFrame => f.fn = "size"
      /\ f \in TemplateFrame => f.fn = "template"
      /\ f \in TemplateAttributesFrame => f.fn = "template attributes"
      /\ f \in ReadFrame => f.fn = "read"
      /\ f \in WriteFrame => f.fn = "write"
      /\ f \in ListFrame => f.fn = "list"
      /\ f \in SingleFrame => f.fn \in {"modify", "controller", "class"}
  BY DEF LookupFrame, InfoFrame, AttributesFrame, SizeFrame, TemplateFrame,
         TemplateAttributesFrame, ReadFrame, WriteFrame, ListFrame, SingleFrame
<1>3. \/ f \in LookupFrame \/ f \in InfoFrame \/ f \in AttributesFrame \/ f \in SizeFrame
      \/ f \in TemplateFrame \/ f \in TemplateAttributesFrame \/ f \in ReadFrame
      \/ f \in WriteFrame \/ f \in ListFrame \/ f \in SingleFrame
  BY <1>1 DEF Frame
<1>. QED
  BY <1>1, <1>2, <1>3 DEF Functions

(* Frames of the functions that say nothing but what they hold.              *)
LEMMA PlainFrame ==
  ASSUME NEW f,
         \/ f \in LookupFrame \/ f \in InfoFrame \/ f \in AttributesFrame
         \/ f \in TemplateAttributesFrame \/ f \in ReadFrame \/ f \in WriteFrame
         \/ f \in ListFrame \/ f \in SingleFrame
  PROVE  FrameOK(f)
<1>1. f \in Frame
  BY DEF Frame
<1>2. f.fn # "template" /\ f.fn # "size"
  BY DEF LookupFrame, InfoFrame, AttributesFrame,
         TemplateAttributesFrame, ReadFrame, WriteFrame, ListFrame, SingleFrame
<1>. QED
  BY <1>1, <1>2 DEF FrameOK

(* The innermost function of a stack, and those that wait for it.            *)
LEMMA HeadFacts ==
  ASSUME NEW s, NEW v, StackOK(s, v), s # <<>>
  PROVE  /\ Len(s) \in Nat \ {0} /\ Head(s) = s[1] /\ FrameOK(Head(s)) /\ Awaits(Head(s), v)
         /\ Head(s).fn \in Outermost => Len(s) = 1
         /\ s \in Seq(FramesOK) /\ Tail(s) \in Seq(FramesOK) /\ Len(Tail(s)) = Len(s) - 1
         /\ \A i \in 1 .. Len(s) - 1 : Tail(s)[i] = s[i + 1]
         /\ \A i \in 1 .. Len(s) - 1 : Called(s[i], s[i + 1])
<1>1. s \in Seq(FramesOK) /\ Awaits(Head(s), v) /\ \A i \in 1 .. Len(s) - 1 : Called(s[i], s[i + 1])
  BY DEF StackOK
<1>2. Len(s) \in Nat \ {0} /\ Head(s) = s[1] /\ s[1] \in FramesOK
  BY <1>1, EmptySeq, LenProperties
<1>3. Tail(s) \in Seq(FramesOK) /\ Len(Tail(s)) = Len(s) - 1
      /\ \A i \in 1 .. Len(Tail(s)) : Tail(s)[i] = s[i + 1]
  BY <1>1, HeadTailProperties
<1>4. FrameOK(s[1])
  BY <1>2 DEF FramesOK
<1>5. s[1].fn \in Outermost => Len(s) = 1
  <2>. DEFINE n == Len(s)
  <2>1. n \in Nat \ {0} /\ \A i \in 1 .. n - 1 : Called(s[i], s[i + 1])
    BY <1>1, <1>2
  <2>. HIDE DEF n
  <2>2. n # 1 => 1 \in 1 .. n - 1
    BY <2>1
  <2>3. n # 1 => s[1].fn \notin Outermost
    BY <2>1, <2>2 DEF Called
  <2>. QED
    BY <2>3 DEF n
<1>. QED
  BY <1>1, <1>2, <1>3, <1>4, <1>5

(* It is replaced: it went on to wait, or another was called in its place.   *)
LEMMA Replaced ==
  ASSUME NEW s, NEW v, StackOK(s, v), s # <<>>,
         NEW f, FrameOK(f), f.fn = Head(s).fn, NEW w, Awaits(f, w)
  PROVE  /\ StackOK(<<f>> \o Tail(s), w)
         /\ <<f>> \o Tail(s) # <<>> /\ Head(<<f>> \o Tail(s)) = f
<1>. DEFINE t == <<f>> \o Tail(s)
            n == Len(s)
<1>1. /\ n \in Nat \ {0} /\ Head(s) = s[1] /\ Tail(s) \in Seq(FramesOK) /\ Len(Tail(s)) = n - 1
      /\ \A i \in 1 .. n - 1 : Tail(s)[i] = s[i + 1]
      /\ \A i \in 1 .. n - 1 : Called(s[i], s[i + 1])
  BY HeadFacts
<1>2. f \in FramesOK /\ <<f>> \in Seq(FramesOK)
  <2>1. f \in FramesOK
    BY FrameFacts
  <2>. QED
    BY <2>1
<1>. HIDE DEF n
<1>3. t \in Seq(FramesOK) /\ Len(t) = n /\ \A i \in 1 .. n : t[i] = IF i = 1 THEN f ELSE s[i]
  <2>1. t \in Seq(FramesOK) /\ Len(t) = n
        /\ \A i \in 1 .. n : t[i] = IF i <= 1 THEN <<f>>[i] ELSE Tail(s)[i - 1]
    BY <1>1, <1>2, ConcatProperties
  <2>. QED
    BY <1>1, <2>1
<1>. HIDE DEF t
<1>4. t # <<>> /\ Head(t) = f
  BY <1>1, <1>3, EmptySeq
<1>5. ASSUME NEW i \in 1 .. n - 1 PROVE Called(t[i], t[i + 1])
  <2>1. i \in 1 .. n /\ i + 1 \in 1 .. n /\ i + 1 # 1 /\ Called(s[i], s[i + 1])
    BY <1>1
  <2>2. t[i].fn = s[i].fn /\ t[i + 1] = s[i + 1]
    BY <1>1, <1>3, <2>1
  <2>. QED
    BY <2>1, <2>2 DEF Called
<1>. QED
  BY <1>3, <1>4, <1>5 DEF StackOK, t

(* It calls another.                                                         *)
LEMMA Entered ==
  ASSUME NEW s, NEW v, StackOK(s, v), s # <<>>,
         NEW f, FrameOK(f), f.fn = Head(s).fn,
         NEW g, FrameOK(g), Called(g, f), NEW w, Awaits(g, w)
  PROVE  /\ StackOK(<<g, f>> \o Tail(s), w)
         /\ <<g, f>> \o Tail(s) # <<>> /\ Head(<<g, f>> \o Tail(s)) = g
<1>. DEFINE t == <<g, f>> \o Tail(s)
            n == Len(s)
<1>1. /\ n \in Nat \ {0} /\ Head(s) = s[1] /\ Tail(s) \in Seq(FramesOK) /\ Len(Tail(s)) = n - 1
      /\ \A i \in 1 .. n - 1 : Tail(s)[i] = s[i + 1]
      /\ \A i \in 1 .. n - 1 : Called(s[i], s[i + 1])
  BY HeadFacts
<1>2. f \in FramesOK /\ g \in FramesOK /\ <<g, f>> \in Seq(FramesOK)
  <2>1. f \in FramesOK /\ g \in FramesOK
    BY FrameFacts
  <2>. QED
    BY <2>1
<1>. HIDE DEF n
<1>3. t \in Seq(FramesOK) /\ Len(t) = n + 1
      /\ t[1] = g /\ t[2] = f /\ \A i \in 3 .. n + 1 : t[i] = s[i - 1]
  <2>1. t \in Seq(FramesOK) /\ Len(t) = n + 1
        /\ \A i \in 1 .. n + 1 : t[i] = IF i <= 2 THEN <<g, f>>[i] ELSE Tail(s)[i - 2]
    BY <1>1, <1>2, ConcatProperties
  <2>. QED
    BY <1>1, <2>1
<1>. HIDE DEF t
<1>4. t # <<>> /\ Head(t) = g
  BY <1>1, <1>3, EmptySeq
<1>5. ASSUME NEW i \in 1 .. n PROVE Called(t[i], t[i + 1])
  <2>1. CASE i = 1
    BY <1>3, <2>1
  <2>2. CASE i # 1
    <3>1. i - 1 \in 1 .. n - 1 /\ i + 1 \in 3 .. n + 1 /\ (i + 1) - 1 = i
          /\ (i - 1) + 1 = i
      BY <1>1, <2>2
    <3>2. Called(s[i - 1], s[i]) /\ t[i + 1] = s[i]
      BY <1>1, <1>3, <3>1
    <3>3. t[i].fn = s[i - 1].fn
      <4>1. CASE i = 2
        BY <1>1, <1>3, <4>1
      <4>2. CASE i # 2
        <5>1. i \in 3 .. n + 1
          BY <1>1, <2>2, <4>2
        <5>. QED
          BY <1>3, <5>1
      <4>. QED
        BY <4>1, <4>2
    <3>. QED
      BY <3>2, <3>3 DEF Called
  <2>. QED
    BY <2>1, <2>2
<1>6. \A i \in 1 .. Len(t) - 1 : Called(t[i], t[i + 1])
  BY <1>1, <1>3, <1>5
<1>. QED
  BY <1>3, <1>4, <1>6 DEF StackOK, t

(* It ends, and the one that called it goes on with a value.                 *)
LEMMA Ended ==
  ASSUME NEW s, NEW v, StackOK(s, v), s # <<>>, NEW w,
         Len(s) = 1 => w.is = "waiting",
         Len(s) # 1 => /\ w.is \in {"thrown", "returned"}
                       /\ w.is = "returned" /\ Head(s).fn = "lookup" => w.value \in InstanceIds
  PROVE  /\ StackOK(Tail(s), w) /\ (Tail(s) = <<>> <=> Len(s) = 1)
         /\ Tail(s) # <<>> => Head(Tail(s)).fn # "list"
<1>. DEFINE t == Tail(s)
            n == Len(s)
<1>1. /\ n \in Nat \ {0} /\ Head(s) = s[1] /\ t \in Seq(FramesOK) /\ Len(t) = n - 1
      /\ \A i \in 1 .. n - 1 : t[i] = s[i + 1]
      /\ \A i \in 1 .. n - 1 : Called(s[i], s[i + 1])
  BY HeadFacts
<1>2. n = 1 => w.is = "waiting"
  OBVIOUS
<1>3. n # 1 => /\ w.is \in {"thrown", "returned"}
               /\ w.is = "returned" /\ s[1].fn = "lookup" => w.value \in InstanceIds
  BY <1>1
<1>. HIDE DEF n, t
<1>4. t = <<>> <=> n = 1
  BY <1>1, EmptySeq
<1>5. ASSUME NEW i \in 1 .. n - 2 PROVE Called(t[i], t[i + 1])
  <2>1. i \in 1 .. n - 1 /\ i + 1 \in 1 .. n - 1
    BY <1>1
  <2>2. t[i] = s[i + 1] /\ t[i + 1] = s[(i + 1) + 1]
    BY <1>1, <2>1
  <2>. QED
    BY <1>1, <2>1, <2>2
<1>6. ASSUME n # 1 PROVE Awaits(Head(t), w) /\ Head(t).fn # "list"
  <2>1. 1 \in 1 .. n - 1
    BY <1>1, <1>6
  <2>2. Head(t) = s[2] /\ Called(s[1], s[2])
    BY <1>1, <1>4, <1>6, <2>1
  <2>. QED
    BY <1>3, <1>6, <2>2 DEF Awaits, Called
<1>7. \A i \in 1 .. Len(t) - 1 : Called(t[i], t[i + 1])
  BY <1>1, <1>5
<1>8. StackOK(t, w)
  BY <1>1, <1>2, <1>4, <1>6, <1>7 DEF StackOK
<1>. QED
  BY <1>4, <1>6, <1>8 DEF t, n

-----------------------------------------------------------------------------
(* What a step of call c keeps: every call as it should be, the other calls  *)
(* as they were, and no list where there was none.                           *)
Kept(c) ==
  /\ CallsOK'
  /\ \A d \in Calls \ {c} : stack'[d] = stack[d] /\ outcome'[d] = outcome[d]
  /\ outcome'[c] # "idle"
  /\ Top(c).fn # "list" /\ stack'[c] # <<>> => Head(stack'[c]).fn # "list"

(* One call changes, ...                                                     *)
LEMMA OneChanges ==
  ASSUME CallsOK, NEW c \in Calls, NEW s, NEW v, NEW how, CallOK(s, v, how),
         stack' = [stack EXCEPT ![c] = s], value' = [value EXCEPT ![c] = v],
         outcome' = [outcome EXCEPT ![c] = how]
  PROVE  /\ CallsOK' /\ stack'[c] = s /\ outcome'[c] = how
         /\ \A d \in Calls \ {c} : stack'[d] = stack[d] /\ outcome'[d] = outcome[d]
<1>1. outcome' \in [Calls -> Outcomes] /\ outcome'[c] = how
      /\ \A d \in Calls \ {c} : outcome'[d] = outcome[d]
  BY DEF CallsOK, CallOK
<1>2. stack' = [d \in Calls |-> stack'[d]] /\ stack'[c] = s
      /\ \A d \in Calls \ {c} : stack'[d] = stack[d]
  BY DEF CallsOK
<1>3. value' = [d \in Calls |-> value'[d]] /\ value'[c] = v
      /\ \A d \in Calls \ {c} : value'[d] = value[d]
  BY DEF CallsOK
<1>4. ASSUME NEW d \in Calls PROVE CallOK(stack'[d], value'[d], outcome'[d])
  <2>1. CASE d = c
    BY <1>1, <1>2, <1>3, <2>1
  <2>2. CASE d # c
    BY <1>1, <1>2, <1>3, <2>2 DEF CallsOK
  <2>. QED
    BY <2>1, <2>2
<1>. QED
  BY <1>1, <1>2, <1>3, <1>4 DEF CallsOK

(* ... awaits a request, ...                                                 *)
LEMMA SendKeeps ==
  ASSUME IInv, NEW c \in Calls, stack[c] # <<>>,
         NEW f, FrameOK(f), f.fn = Top(c).fn, f.fn = "template" => f.at = "chunk",
         Send(c, f)
  PROVE  Kept(c) /\ stack'[c] # <<>> /\ Head(stack'[c]) = f /\ outcome' = outcome
<1>. DEFINE s == <<f>> \o Tail(stack[c])
<1>1. CallOK(stack[c], value[c], outcome[c]) /\ StackOK(stack[c], value[c])
  BY DEF IInv, CallsOK, CallOK
<1>2. Awaits(f, Waiting)
  BY DEF Awaits, Waiting
<1>3. StackOK(s, Waiting) /\ s # <<>> /\ Head(s) = f
  BY <1>1, <1>2, Replaced DEF Top
<1>4. outcome[c] # "idle" /\ outcome[c] \in Outcomes
  BY <1>1 DEF CallOK
<1>. HIDE DEF s
<1>5. CallOK(s, Waiting, outcome[c])
  BY <1>3, <1>4 DEF CallOK
<1>6. stack' = [stack EXCEPT ![c] = s] /\ value' = [value EXCEPT ![c] = Waiting]
      /\ outcome' = outcome /\ outcome' = [outcome EXCEPT ![c] = outcome[c]]
  BY DEF Send, s, IInv, CallsOK
<1>7. /\ CallsOK' /\ stack'[c] = s
      /\ \A d \in Calls \ {c} : stack'[d] = stack[d] /\ outcome'[d] = outcome[d]
  BY <1>5, <1>6, OneChanges DEF IInv
<1>. QED
  BY <1>3, <1>4, <1>6, <1>7 DEF Kept

(* ... goes on as another of its kind, ...                                   *)
LEMMA BecomeKeeps ==
  ASSUME IInv, NEW c \in Calls, stack[c] # <<>>,
         NEW f, FrameOK(f), f.fn = Top(c).fn, Become(c, f)
  PROVE  Kept(c)
<1>. DEFINE s == <<f>> \o Tail(stack[c])
<1>1. CallOK(stack[c], value[c], outcome[c]) /\ StackOK(stack[c], value[c])
  BY DEF IInv, CallsOK, CallOK
<1>2. Awaits(f, Started)
  BY DEF Awaits, Started
<1>3. StackOK(s, Started) /\ s # <<>> /\ Head(s) = f
  BY <1>1, <1>2, Replaced DEF Top
<1>4. outcome[c] # "idle" /\ outcome[c] \in Outcomes
  BY <1>1 DEF CallOK
<1>. HIDE DEF s
<1>5. CallOK(s, Started, outcome[c])
  BY <1>3, <1>4 DEF CallOK
<1>6. stack' = [stack EXCEPT ![c] = s] /\ value' = [value EXCEPT ![c] = Started]
      /\ outcome' = outcome /\ outcome' = [outcome EXCEPT ![c] = outcome[c]]
  BY DEF Become, s, IInv, CallsOK
<1>7. /\ CallsOK' /\ stack'[c] = s
      /\ \A d \in Calls \ {c} : stack'[d] = stack[d] /\ outcome'[d] = outcome[d]
  BY <1>5, <1>6, OneChanges DEF IInv
<1>. QED
  BY <1>3, <1>4, <1>6, <1>7 DEF Kept

(* ... calls another, ...                                                    *)
LEMMA EnterKeeps ==
  ASSUME IInv, NEW c \in Calls, stack[c] # <<>>,
         NEW f, FrameOK(f), f.fn = Top(c).fn,
         NEW g, FrameOK(g), Called(g, f), g.fn # "list",
         Enter(c, f, g)
  PROVE  Kept(c)
<1>. DEFINE s == <<g, f>> \o Tail(stack[c])
<1>1. CallOK(stack[c], value[c], outcome[c]) /\ StackOK(stack[c], value[c])
  BY DEF IInv, CallsOK, CallOK
<1>2. Awaits(g, Started)
  BY DEF Awaits, Started
<1>3. StackOK(s, Started) /\ s # <<>> /\ Head(s) = g
  BY <1>1, <1>2, Entered DEF Top
<1>4. outcome[c] # "idle" /\ outcome[c] \in Outcomes
  BY <1>1 DEF CallOK
<1>. HIDE DEF s
<1>5. CallOK(s, Started, outcome[c])
  BY <1>3, <1>4 DEF CallOK
<1>6. stack' = [stack EXCEPT ![c] = s] /\ value' = [value EXCEPT ![c] = Started]
      /\ outcome' = outcome /\ outcome' = [outcome EXCEPT ![c] = outcome[c]]
  BY DEF Enter, s, IInv, CallsOK
<1>7. /\ CallsOK' /\ stack'[c] = s
      /\ \A d \in Calls \ {c} : stack'[d] = stack[d] /\ outcome'[d] = outcome[d]
  BY <1>5, <1>6, OneChanges DEF IInv
<1>. QED
  BY <1>3, <1>4, <1>6, <1>7 DEF Kept

(* ... or ends.                                                              *)
LEMMA EndKeeps ==
  ASSUME IInv, NEW c \in Calls, stack[c] # <<>>,
         NEW v, NEW how, how \in Outcomes \ {"idle", "pending"},
         Len(stack[c]) # 1 =>
           /\ v.is \in {"thrown", "returned"}
           /\ v.is = "returned" /\ Top(c).fn = "lookup" => v.value \in InstanceIds,
         End(c, v, how)
  PROVE  Kept(c) /\ (stack'[c] # <<>> => Head(stack'[c]).fn # "list")
<1>. DEFINE s == Tail(stack[c])
            w == IF Len(stack[c]) = 1 THEN Waiting ELSE v
            o == IF Len(stack[c]) = 1 THEN how ELSE outcome[c]
<1>1. CallOK(stack[c], value[c], outcome[c]) /\ StackOK(stack[c], value[c])
  BY DEF IInv, CallsOK, CallOK
<1>2. outcome[c] # "idle" /\ outcome[c] \in Outcomes
  BY <1>1 DEF CallOK
<1>3. /\ Len(stack[c]) = 1 => w.is = "waiting"
      /\ Len(stack[c]) # 1 => /\ w.is \in {"thrown", "returned"}
                              /\ w.is = "returned" /\ Head(stack[c]).fn = "lookup" =>
                                   w.value \in InstanceIds
  BY DEF Waiting, Top
<1>4. stack' = [stack EXCEPT ![c] = s] /\ value' = [value EXCEPT ![c] = w]
      /\ outcome' = [outcome EXCEPT ![c] = o]
  BY DEF End, IInv, CallsOK
<1>5. o \in Outcomes /\ o # "idle" /\ (Len(stack[c]) = 1 => o # "pending")
  BY <1>2
<1>. HIDE DEF w, o
<1>6. StackOK(s, w) /\ (s = <<>> <=> Len(stack[c]) = 1) /\ (s # <<>> => Head(s).fn # "list")
  BY <1>1, <1>3, Ended
<1>. HIDE DEF s
<1>7. CallOK(s, w, o)
  BY <1>5, <1>6 DEF CallOK
<1>8. /\ CallsOK' /\ stack'[c] = s /\ outcome'[c] = o
      /\ \A d \in Calls \ {c} : stack'[d] = stack[d] /\ outcome'[d] = outcome[d]
  BY <1>4, <1>7, OneChanges DEF IInv
<1>. QED
  BY <1>5, <1>6, <1>8 DEF Kept

(* It returns: to the function that called it, or to the program.            *)
LEMMA ReturnKeeps ==
  ASSUME IInv, NEW c \in Calls, stack[c] # <<>>, NEW x, Return(c, x),
         Top(c).fn = "lookup" => x \in InstanceIds
  PROVE  Kept(c) /\ (stack'[c] # <<>> => Head(stack'[c]).fn # "list")
<1>1. "resolved" \in Outcomes \ {"idle", "pending"}
  BY DEF Outcomes
<1>2. Returned(x).is = "returned" /\ Returned(x).value = x
  BY DEF Returned
<1>3. End(c, Returned(x), "resolved")
  BY DEF Return
<1>. QED
  BY <1>1, <1>2, <1>3, EndKeeps

(* It throws.                                                                *)
LEMMA ThrowKeeps ==
  ASSUME IInv, NEW c \in Calls, stack[c] # <<>>, Throw(c)
  PROVE  Kept(c)
<1>1. "rejected" \in Outcomes \ {"idle", "pending"}
  BY DEF Outcomes
<1>2. Thrown.is = "thrown"
  BY DEF Thrown
<1>3. End(c, Thrown, "rejected")
  BY DEF Throw
<1>. QED
  BY <1>1, <1>2, <1>3, EndKeeps

(* An exception escapes only from a function that no other called.           *)
LEMMA LoseKeeps ==
  ASSUME IInv, NEW c \in Calls, stack[c] # <<>>, Top(c).fn \in Outermost, Lose(c)
  PROVE  Kept(c)
<1>1. StackOK(stack[c], value[c])
  BY DEF IInv, CallsOK, CallOK
<1>2. Len(stack[c]) = 1
  BY <1>1, HeadFacts DEF Top
<1>3. "lost" \in Outcomes \ {"idle", "pending"}
  BY DEF Outcomes
<1>4. End(c, Waiting, "lost")
  BY DEF Lose
<1>. QED
  BY <1>2, <1>3, <1>4, EndKeeps

-----------------------------------------------------------------------------
(* Two sequences in a row, element by element.                               *)
LEMMA Joined ==
  ASSUME NEW a \in Seq(Nat), NEW b \in Seq(Nat), NEW w \in Seq(Nat),
         Len(w) = Len(a) + Len(b),
         \A i \in 1 .. Len(a) : a[i] = w[i],
         \A i \in 1 .. Len(b) : b[i] = w[Len(a) + i]
  PROVE  a \o b = w
<1>. DEFINE t == a \o b
<1>1. t \in Seq(Nat) /\ Len(t) = Len(w)
      /\ \A i \in 1 .. Len(w) : t[i] = IF i <= Len(a) THEN a[i] ELSE b[i - Len(a)]
  BY ConcatProperties
<1>. HIDE DEF t
<1>2. ASSUME NEW i \in 1 .. Len(w) PROVE t[i] = w[i]
  <2>. DEFINE l == Len(a)
              m == Len(b)
  <2>1. l \in Nat /\ m \in Nat /\ i \in 1 .. l + m
    BY LenProperties
  <2>2. t[i] = IF i <= l THEN a[i] ELSE b[i - l]
    BY <1>1
  <2>3. (\A k \in 1 .. l : a[k] = w[k]) /\ (\A k \in 1 .. m : b[k] = w[l + k])
    OBVIOUS
  <2>. HIDE DEF l, m
  <2>4. CASE i <= l
    BY <2>1, <2>2, <2>3, <2>4
  <2>5. CASE ~(i <= l)
    <3>1. i - l \in 1 .. m /\ l + (i - l) = i
      BY <2>1, <2>5
    <3>. QED
      BY <2>2, <2>3, <2>5, <3>1
  <2>. QED
    BY <2>4, <2>5
<1>3. t = w
  BY <1>1, <1>2, SeqEqual
<1>. QED
  BY <1>3 DEF t

(* The beginning of a definition and what follows it are the definition.     *)
LEMMA PieceLength ==
  ASSUME NEW m \in Nat, NEW n \in Nat, m <= n
  PROVE  /\ Piece(m, n) \in Seq(Nat) /\ Len(Piece(m, n)) = n - m
         /\ \A i \in 1 .. n - m : Piece(m, n)[i] = m + i
BY DEF Piece

(* The definition up to m + k is that up to m and the next k bytes.          *)
LEMMA PieceFacts ==
  ASSUME NEW m \in Nat, NEW n \in Nat, m <= n, NEW k \in Nat, k <= n - m
  PROVE  /\ SubSeq(Piece(m, n), 1, k) \in Seq(Nat) /\ Len(SubSeq(Piece(m, n), 1, k)) = k
         /\ Piece(0, m) \o SubSeq(Piece(m, n), 1, k) = Piece(0, m + k)
<1>. DEFINE p == Piece(m, n)
            next == SubSeq(p, 1, k)
            a == Piece(0, m)
            w == Piece(0, m + k)
<1>1. p \in Seq(Nat) /\ Len(p) = n - m /\ \A i \in 1 .. n - m : p[i] = m + i
  BY PieceLength
<1>2. a \in Seq(Nat) /\ Len(a) = m /\ \A i \in 1 .. m : a[i] = i
  BY DEF Piece
<1>3. w \in Seq(Nat) /\ Len(w) = m + k /\ \A i \in 1 .. m + k : w[i] = i
  BY DEF Piece
<1>. HIDE DEF p, a, w
<1>4. next \in Seq(Nat) /\ Len(next) = k /\ \A i \in 1 .. k : next[i] = m + i
  BY <1>1, SubSeqProperties
<1>. HIDE DEF next
<1>5. a \o next = w
  <2>1. \A i \in 1 .. Len(a) : a[i] = w[i]
    BY <1>2, <1>3
  <2>2. \A i \in 1 .. Len(next) : next[i] = w[Len(a) + i]
    BY <1>2, <1>3, <1>4
  <2>. QED
    BY <1>2, <1>3, <1>4, <2>1, <2>2, Joined
<1>. QED
  BY <1>4, <1>5 DEF next, p, a, w

(* A reply to a function that reads a template continues what it has, and    *)
(* the last one completes it.                                                *)
LEMMA ChunkFacts ==
  ASSUME NEW f, FrameOK(f), f.fn = "template", NEW v \in Chunks(f)
  PROVE  /\ f \in TemplateFrame /\ v.is = "reply" /\ v.data \in Seq(Nat)
         /\ NextOffset(f, v) \in 0 .. Bytes[f.template]
         /\ f.data \o v.data = Piece(0, NextOffset(f, v))
         /\ ~v.partial => NextOffset(f, v) = Bytes[f.template]
<1>. DEFINE size == Bytes[f.template]
            offset == f.offset
            rest == Piece(offset, size)
<1>1. f \in TemplateFrame /\ offset \in Nat /\ size \in Nat /\ offset <= size
      /\ f.data = Piece(0, offset)
  <2>1. f \in TemplateFrame
    BY FrameFacts
  <2>2. f.template \in Templates /\ f.offset \in Nat
    BY <2>1 DEF TemplateFrame
  <2>3. size \in Nat
    BY <2>2, LogixAssumption
  <2>4. f.offset <= Bytes[f.template] /\ f.data = Piece(0, f.offset)
    BY DEF FrameOK
  <2>. QED
    BY <2>1, <2>2, <2>3, <2>4
<1>2. rest \in Seq(Nat) /\ Len(rest) = size - offset
  BY <1>1, PieceLength
<1>3. ASSUME NEW k \in 0 .. size - offset, v.data = SubSeq(rest, 1, k)
      PROVE  /\ v.data \in Seq(Nat) /\ NextOffset(f, v) = offset + k
             /\ f.data \o v.data = Piece(0, offset + k)
  <2>1. k \in Nat /\ k <= size - offset
    BY <1>1
  <2>. HIDE DEF size, offset
  <2>2. SubSeq(rest, 1, k) \in Seq(Nat) /\ Len(SubSeq(rest, 1, k)) = k
        /\ Piece(0, offset) \o SubSeq(rest, 1, k) = Piece(0, offset + k)
    BY <1>1, <2>1, PieceFacts
  <2>. QED
    BY <1>1, <1>3, <2>2 DEF NextOffset, offset
<1>4. CASE v = Reply(FALSE, rest)
  <2>1. v.is = "reply" /\ v.data = SubSeq(rest, 1, size - offset)
    BY <1>2, <1>4, SubSeqFull DEF Reply
  <2>2. size - offset \in 0 .. size - offset /\ offset + (size - offset) = size
    BY <1>1
  <2>3. /\ v.data \in Seq(Nat) /\ NextOffset(f, v) = size
        /\ f.data \o v.data = Piece(0, size)
    BY <1>3, <2>1, <2>2
  <2>4. f.data \o v.data = Piece(0, NextOffset(f, v))
    BY <2>3
  <2>5. NextOffset(f, v) \in 0 .. size
    BY <1>1, <2>3
  <2>. QED
    BY <1>1, <2>1, <2>3, <2>4, <2>5
<1>5. ASSUME NEW n \in 1 .. Len(rest) - 1, v = Reply(TRUE, SubSeq(rest, 1, n))
      PROVE  /\ v.is = "reply" /\ v.data \in Seq(Nat) /\ v.partial
             /\ NextOffset(f, v) \in 0 .. size /\ f.data \o v.data = Piece(0, NextOffset(f, v))
  <2>1. n \in 0 .. size - offset /\ offset + n \in 0 .. size
    <3>1. offset \in Nat /\ size \in Nat /\ n \in 1 .. size - offset - 1
      BY <1>1, <1>2
    <3>. HIDE DEF offset, size
    <3>. QED
      BY ONLY <3>1
  <2>2. v.is = "reply" /\ v.partial /\ v.data = SubSeq(rest, 1, n)
    BY <1>5 DEF Reply
  <2>. QED
    BY <1>3, <2>1, <2>2
<1>6. v = Reply(FALSE, rest) \/ \E n \in 1 .. Len(rest) - 1 : v = Reply(TRUE, SubSeq(rest, 1, n))
  BY DEF Chunks
<1>. QED
  BY <1>1, <1>4, <1>5, <1>6

-----------------------------------------------------------------------------
(* What a function can use of its own frame and of what it goes on with.     *)
LEMMA TopFacts ==
  ASSUME IInv, NEW c \in Calls, stack[c] # <<>>
  PROVE  /\ FrameOK(Top(c)) /\ Awaits(Top(c), value[c]) /\ outcome[c] # "idle"
         /\ Is(c, "reply") => value[c] \in Answers(Top(c))
BY HeadFacts DEF IInv, CallsOK, CallOK, Top, Is, Awaits

(* The frames a page is asked for.                                           *)
LEMMA PagedFacts ==
  ASSUME NEW f, FrameOK(f), f.at = "page"
  PROVE  /\ f.fn \in {"lookup", "info", "read", "list"}
         /\ f.scope \in Names /\ f.from \in Nat /\ f.retry \in Retries
<1>1. f \in LookupFrame \/ f \in InfoFrame \/ f \in ReadFrame \/ f \in ListFrame
  <2>1. /\ f \notin AttributesFrame /\ f \notin SizeFrame /\ f \notin TemplateFrame
        /\ f \notin TemplateAttributesFrame /\ f \notin WriteFrame /\ f \notin SingleFrame
    BY DEF AttributesFrame, SizeFrame, TemplateFrame, TemplateAttributesFrame, WriteFrame,
           SingleFrame
  <2>. QED
    BY <2>1 DEF FrameOK, Frame
<1>. QED
  BY <1>1 DEF LookupFrame, InfoFrame, ReadFrame, ListFrame

(* A page is what follows in order, whole or its beginning.                  *)
LEMMA PageFacts ==
  ASSUME NEW f, f.from \in Nat, NEW v \in Pages(f)
  PROVE  /\ f.scope \in Scopes /\ v.is = "reply" /\ v.partial \in BOOLEAN
         /\ v.data \in Seq(Nat) /\ v.data \in Seq(Ids[f.scope])
         /\ ~v.partial => v.data = Following(f.scope, f.from)
         /\ v.partial => \E n \in 1 .. Len(Following(f.scope, f.from)) - 1 :
                           v.data = SubSeq(Following(f.scope, f.from), 1, n)
<1>. DEFINE r == Following(f.scope, f.from)
<1>1. f.scope \in Scopes
  BY DEF Pages
<1>2. v = Reply(FALSE, r) \/ \E n \in 1 .. Len(r) - 1 : v = Reply(TRUE, SubSeq(r, 1, n))
  BY <1>1 DEF Pages
<1>3. r \in Seq(Nat) /\ r \in Seq(Ids[f.scope])
  <2>1. /\ Enumerates(r, {i \in Ids[f.scope] : i >= f.from}) /\ r \in Seq(Nat)
    BY <1>1, FollowingFacts
  <2>2. r \in Seq({i \in Ids[f.scope] : i >= f.from})
    BY <2>1 DEF Enumerates
  <2>3. {i \in Ids[f.scope] : i >= f.from} \subseteq Ids[f.scope]
    OBVIOUS
  <2>. HIDE DEF r
  <2>4. r \in Seq(Ids[f.scope])
    BY <2>2, <2>3, SeqMonotonic
  <2>. QED
    BY <2>1, <2>4
<1>. HIDE DEF r
<1>4. CASE v = Reply(FALSE, r)
  <2>1. v.is = "reply" /\ v.partial = FALSE /\ v.data = r
    BY <1>4 DEF Reply
  <2>. QED
    BY <1>1, <1>3, <2>1 DEF r
<1>5. ASSUME NEW n \in 1 .. Len(r) - 1, v = Reply(TRUE, SubSeq(r, 1, n))
      PROVE  /\ v.is = "reply" /\ v.partial = TRUE /\ v.data = SubSeq(r, 1, n)
             /\ v.data \in Seq(Nat) /\ v.data \in Seq(Ids[f.scope])
  <2>1. v.is = "reply" /\ v.partial = TRUE /\ v.data = SubSeq(r, 1, n)
    BY <1>5 DEF Reply
  <2>2. \A i \in 1 .. n : r[i] \in Nat /\ r[i] \in Ids[f.scope]
    BY <1>3, <1>5, LenProperties, ElementOfSeq
  <2>3. SubSeq(r, 1, n) \in Seq(Nat) /\ SubSeq(r, 1, n) \in Seq(Ids[f.scope])
    <3>1. n \in Int /\ 1 \in Int
      BY <1>3, LenProperties
    <3>. QED
      BY <2>2, <3>1, SubSeqProperties
  <2>. QED
    BY <2>1, <2>3
<1>6. CASE \E n \in 1 .. Len(r) - 1 : v = Reply(TRUE, SubSeq(r, 1, n))
  <2>1. PICK n \in 1 .. Len(r) - 1 : v = Reply(TRUE, SubSeq(r, 1, n))
    BY <1>6
  <2>. QED
    BY <1>1, <1>5, <2>1 DEF r
<1>. QED
  BY <1>2, <1>4, <1>6

(* A piece is a sequence of numbers, also an empty one.                      *)
LEMMA PieceIsNumbers ==
  ASSUME NEW m \in Nat, NEW n \in Nat PROVE Piece(m, n) \in Seq(Nat)
<1>1. CASE m <= n
  BY <1>1, PieceLength
<1>2. CASE ~(m <= n)
  <2>1. 1 .. n - m = {}
    BY <1>2
  <2>2. Piece(m, n) = <<>>
    BY <2>1 DEF Piece
  <2>. QED
    BY <2>2
<1>. QED
  BY <1>1, <1>2

(* Whatever the device answers is a reply with a sequence of numbers.        *)
LEMMA AnswersFacts ==
  ASSUME NEW f, FrameOK(f), NEW v \in Answers(f)
  PROVE  v.is = "reply" /\ v.partial \in BOOLEAN /\ v.data \in Seq(Nat)
<1>1. ASSUME NEW p \in BOOLEAN, NEW d \in Seq(Nat), v = Reply(p, d)
      PROVE  v.is = "reply" /\ v.partial \in BOOLEAN /\ v.data \in Seq(Nat)
  BY <1>1 DEF Reply
<1>2. <<>> \in Seq(Nat) /\ <<1>> \in Seq(Nat)
  OBVIOUS
<1>3. CASE f.at = "page"
  <2>1. f.fn # "attributes" /\ f.from \in Nat
    BY <1>3, PagedFacts
  <2>2. v \in Pages(f)
    BY <1>3, <2>1 DEF Answers
  <2>. QED
    BY <2>1, <2>2, PageFacts
<1>4. CASE f.at # "page" /\ f.at \in {"request", "fragment"} /\ f.fn = "read"
  <2>1. v \in Values(f)
    BY <1>4 DEF Answers
  <2>2. f.offset \in Nat /\ TagBytes \in Nat /\ Fit \in Nat
    <3>1. f \in ReadFrame
      BY <1>4, FrameFacts
    <3>. QED
      BY <3>1, LogixAssumption DEF ReadFrame
  <2>. DEFINE rest == Piece(f.offset, TagBytes)
  <2>3. rest \in Seq(Nat)
    BY <2>2, PieceIsNumbers
  <2>. HIDE DEF rest
  <2>4. \/ v = Reply(FALSE, <<>>) \/ v = Reply(FALSE, <<1>>) \/ v = Reply(FALSE, rest)
        \/ Len(rest) > Fit /\ v = Reply(TRUE, SubSeq(rest, 1, Fit))
    BY <2>1 DEF Values, rest
  <2>5. Len(rest) > Fit => SubSeq(rest, 1, Fit) \in Seq(Nat)
    <3>. SUFFICES ASSUME Len(rest) > Fit PROVE SubSeq(rest, 1, Fit) \in Seq(Nat)
      OBVIOUS
    <3>1. \A i \in 1 .. Fit : rest[i] \in Nat
      BY <2>2, <2>3, LenProperties, ElementOfSeq
    <3>. QED
      BY <2>2, <3>1, SubSeqProperties
  <2>. QED
    BY <1>1, <1>2, <2>3, <2>4, <2>5
<1>5. CASE f.at # "page" /\ ~(f.at \in {"request", "fragment"} /\ f.fn = "read") /\ f.at = "chunk"
  <2>1. f.fn = "template"
    <3>1. /\ f \notin LookupFrame /\ f \notin InfoFrame /\ f \notin AttributesFrame
          /\ f \notin SizeFrame /\ f \notin TemplateAttributesFrame /\ f \notin ReadFrame
          /\ f \notin WriteFrame /\ f \notin ListFrame /\ f \notin SingleFrame
      BY <1>5 DEF LookupFrame, InfoFrame, AttributesFrame, SizeFrame, TemplateAttributesFrame,
                  ReadFrame, WriteFrame, ListFrame, SingleFrame
    <3>. QED
      BY <3>1 DEF FrameOK, Frame, TemplateFrame
  <2>2. v \in Chunks(f)
    BY <1>5, <2>1 DEF Answers
  <2>3. v.is = "reply" /\ v.data \in Seq(Nat)
    BY <2>1, <2>2, ChunkFacts
  <2>4. v.partial \in BOOLEAN
    <3>. DEFINE rest == Piece(f.offset, Bytes[f.template])
    <3>1. \/ v = Reply(FALSE, rest)
          \/ \E n \in 1 .. Len(rest) - 1 : v = Reply(TRUE, SubSeq(rest, 1, n))
      BY <2>2 DEF Chunks
    <3>. HIDE DEF rest
    <3>2. \A d : Reply(FALSE, d).partial = FALSE /\ Reply(TRUE, d).partial = TRUE
      BY DEF Reply
    <3>. QED
      BY <3>1, <3>2
  <2>. QED
    BY <2>3, <2>4
<1>6. CASE /\ f.at # "page" /\ ~(f.at \in {"request", "fragment"} /\ f.fn = "read")
           /\ f.at # "chunk"
  <2>1. \/ v = Reply(FALSE, <<>>)
        \/ f.scope \in Scopes /\ f.id \in Ids[f.scope] /\ v = Reply(FALSE, <<f.id>>)
    BY <1>6 DEF Answers
  <2>2. f.scope \in Scopes /\ f.id \in Ids[f.scope] => <<f.id>> \in Seq(Nat)
    BY LogixAssumption
  <2>. QED
    BY <1>1, <1>2, <2>1, <2>2
<1>. QED
  BY <1>3, <1>4, <1>5, <1>6

(* A tag's first part, and one with another part.                            *)
LEMMA TagFacts ==
  ASSUME NEW t \in Tags
  PROVE  /\ t \in Names /\ t[1] \in Nat /\ Head(t) \in Nat /\ <<Head(t)>> \in Tags
         /\ Len(t) # 1 => Tail(t) \in Tags
         /\ \A n \in Nat : t \o <<n>> \in Tags
<1>1. t \in Seq(Nat) /\ t # <<>>
  BY DEF Tags, Names
<1>2. Len(t) \in Nat \ {0} /\ t[1] \in Nat /\ Head(t) \in Nat
  BY <1>1, EmptySeq, HeadTailProperties, LenProperties
<1>3. <<Head(t)>> \in Tags
  BY <1>2 DEF Tags, Names
<1>4. Len(t) # 1 => Tail(t) \in Tags
  <2>1. Tail(t) \in Seq(Nat) /\ Len(Tail(t)) = Len(t) - 1
    BY <1>1, HeadTailProperties
  <2>2. Len(t) # 1 => Len(Tail(t)) # 0
    BY <1>2, <2>1
  <2>. QED
    BY <2>1, <2>2, EmptySeq DEF Tags, Names
<1>5. ASSUME NEW n \in Nat PROVE t \o <<n>> \in Tags
  <2>1. <<n>> \in Seq(Nat) /\ Len(<<n>>) = 1
    OBVIOUS
  <2>2. t \o <<n>> \in Seq(Nat) /\ Len(t \o <<n>>) = Len(t) + 1
    BY <1>1, <2>1, ConcatProperties
  <2>. QED
    BY <1>2, <2>2, EmptySeq DEF Tags, Names
<1>. QED
  BY <1>1, <1>2, <1>3, <1>4, <1>5 DEF Names

(* The functions as they begin.                                              *)
LEMMA BeginningsOK ==
  /\ \A scope \in Names, tag \in Tags, number \in BOOLEAN :
       /\ FrameOK(Lookup(scope, tag, number)) /\ FrameOK(Info(scope, tag, number))
       /\ FrameOK(Attributes(scope, tag, number))
  /\ \A tag \in Tags, number \in BOOLEAN, elements \in {"none", "given", "invalid"} :
       FrameOK(Read(tag, number, elements))
  /\ \A tag \in Tags, number \in BOOLEAN : FrameOK(Write(tag, number))
  /\ \A scope \in Names, tag \in Tags : FrameOK(Size(scope, tag))
  /\ \A scope \in Names : FrameOK(List(scope))
  /\ \A fn \in {"modify", "controller", "class"} : FrameOK(Single(fn))
  /\ \A t \in Templates : FrameOK(TemplateAttributes(t)) /\ FrameOK(Template(t))
<1>0. None \in InstanceIds /\ 0 \in Retries /\ <<>> \in Seq(Nat)
  BY LogixAssumption DEF InstanceIds, Retries
<1>1. ASSUME NEW scope \in Names, NEW tag \in Tags, NEW number \in BOOLEAN
      PROVE  /\ FrameOK(Lookup(scope, tag, number)) /\ FrameOK(Info(scope, tag, number))
             /\ FrameOK(Attributes(scope, tag, number))
  <2>1. Lookup(scope, tag, number) \in LookupFrame
    BY <1>0 DEF Lookup, LookupFrame
  <2>2. Info(scope, tag, number) \in InfoFrame
    BY <1>0 DEF Info, InfoFrame
  <2>3. Attributes(scope, tag, number) \in AttributesFrame
    BY <1>0 DEF Attributes, AttributesFrame
  <2>. QED
    BY <2>1, <2>2, <2>3, PlainFrame
<1>2. ASSUME NEW tag \in Tags, NEW number \in BOOLEAN, NEW elements \in {"none", "given", "invalid"}
      PROVE  FrameOK(Read(tag, number, elements))
  <2>1. Read(tag, number, elements) \in ReadFrame
    BY <1>0, TagFacts DEF Read, ReadFrame
  <2>. QED
    BY <2>1, PlainFrame
<1>3. ASSUME NEW tag \in Tags, NEW number \in BOOLEAN PROVE FrameOK(Write(tag, number))
  <2>1. Write(tag, number) \in WriteFrame
    BY DEF Write, WriteFrame
  <2>. QED
    BY <2>1, PlainFrame
<1>4. ASSUME NEW scope \in Names, NEW tag \in Tags PROVE FrameOK(Size(scope, tag))
  <2>1. Size(scope, tag) \in SizeFrame /\ Size(scope, tag).at = "start"
        /\ Size(scope, tag).fn = "size"
    BY DEF Size, SizeFrame
  <2>2. Size(scope, tag) \in Frame
    BY <2>1 DEF Frame
  <2>. QED
    BY <2>1, <2>2 DEF FrameOK
<1>5. ASSUME NEW scope \in Names PROVE FrameOK(List(scope))
  <2>1. List(scope) \in ListFrame
    BY <1>0 DEF List, ListFrame
  <2>. QED
    BY <2>1, PlainFrame
<1>6. ASSUME NEW fn \in {"modify", "controller", "class"} PROVE FrameOK(Single(fn))
  <2>1. Single(fn) \in SingleFrame
    BY DEF Single, SingleFrame
  <2>. QED
    BY <2>1, PlainFrame
<1>7. ASSUME NEW t \in Templates PROVE FrameOK(TemplateAttributes(t)) /\ FrameOK(Template(t))
  <2>1. TemplateAttributes(t) \in TemplateAttributesFrame
    BY DEF TemplateAttributes, TemplateAttributesFrame
  <2>2. Template(t) \in TemplateFrame /\ Template(t).fn = "template" /\ Template(t).offset = 0
        /\ Template(t).data = <<>> /\ Template(t).template = t
    BY <1>0 DEF Template, TemplateFrame
  <2>3. Piece(0, 0) = <<>>
    BY DEF Piece
  <2>4. Bytes[t] \in Nat
    BY LogixAssumption
  <2>5. Template(t) \in Frame
    BY <2>2 DEF Frame
  <2>6. FrameOK(Template(t))
    BY <2>2, <2>3, <2>4, <2>5 DEF FrameOK
  <2>. QED
    BY <2>1, <2>6, PlainFrame
<1>. QED
  BY <1>1, <1>2, <1>3, <1>4, <1>5, <1>6, <1>7

-----------------------------------------------------------------------------
(* The next page's frame.                                                    *)
LEMMA NextPage ==
  ASSUME NEW f, f.from \in Nat, NEW v, v.data \in Seq(Nat)
  PROVE  /\ \E x \in Nat : Page(f, v) = [f EXCEPT !.retry = 0, !.from = x]
         /\ v.data # <<>> => v.data[Len(v.data)] \in Nat
         /\ 0 \in Retries
<1>1. v.data # <<>> => v.data[Len(v.data)] \in Nat
  <2>. SUFFICES ASSUME v.data # <<>> PROVE v.data[Len(v.data)] \in Nat
    OBVIOUS
  <2>1. Len(v.data) \in 1 .. Len(v.data)
    BY LenProperties, EmptySeq
  <2>. QED
    BY <2>1, ElementOfSeq
<1>. DEFINE x == IF v.data = <<>> THEN f.from ELSE v.data[Len(v.data)] + 1
<1>2. x \in Nat
  BY <1>1
<1>3. Page(f, v) = [f EXCEPT !.retry = 0, !.from = x]
  BY DEF Page
<1>4. 0 \in Retries
  BY LogixAssumption DEF Retries
<1>. QED
  BY <1>1, <1>2, <1>3, <1>4

(* Each function, up to its next await.                                      *)
LEMMA RetryStep == ASSUME IInv, NEW c \in Calls, Retry(c) PROVE Kept(c)
<1>. DEFINE f == Top(c)
            again == [f EXCEPT !.retry = @ + 1]
<1>1. stack[c] # <<>> /\ f.at = "page" /\ f.retry < MaxRetry /\ Send(c, again)
  BY DEF Retry
<1>2. FrameOK(f)
  BY <1>1, TopFacts
<1>3. f.fn \in {"lookup", "info", "read", "list"} /\ f.retry + 1 \in Retries
  <2>1. f.fn \in {"lookup", "info", "read", "list"} /\ f.retry \in Retries
    BY <1>1, <1>2, PagedFacts
  <2>. QED
    BY <1>1, <2>1, LogixAssumption DEF Retries
<1>4. /\ f.fn = "lookup" => f \in LookupFrame
      /\ f.fn = "info" => f \in InfoFrame
      /\ f.fn = "read" => f \in ReadFrame
      /\ f.fn = "list" => f \in ListFrame
  BY <1>2, FrameFacts
<1>. HIDE DEF f
<1>5. FrameOK(again) /\ again.fn = f.fn
  <2>1. CASE f.fn = "lookup"
    <3>1. again \in LookupFrame /\ again.fn = f.fn
      BY <1>3, <1>4, <2>1 DEF LookupFrame
    <3>. QED
      BY <3>1, PlainFrame
  <2>2. CASE f.fn = "info"
    <3>1. again \in InfoFrame /\ again.fn = f.fn
      BY <1>3, <1>4, <2>2 DEF InfoFrame
    <3>. QED
      BY <3>1, PlainFrame
  <2>3. CASE f.fn = "read"
    <3>1. again \in ReadFrame /\ again.fn = f.fn
      BY <1>3, <1>4, <2>3 DEF ReadFrame
    <3>. QED
      BY <3>1, PlainFrame
  <2>4. CASE f.fn = "list"
    <3>1. again \in ListFrame /\ again.fn = f.fn
      BY <1>3, <1>4, <2>4 DEF ListFrame
    <3>. QED
      BY <3>1, PlainFrame
  <2>. QED
    BY <1>3, <2>1, <2>2, <2>3, <2>4
<1>. HIDE DEF again
<1>. QED
  BY <1>1, <1>3, <1>5, SendKeeps DEF f

(* The lookup of a name, which writes two of the caches.                     *)
LEMMA LookupStep ==
  ASSUME IInv, NEW c \in Calls, LookupRuns(c)
  PROVE  Kept(c) /\ symbolId' \in [Scopes -> InstanceIds] /\ highest' \in [Scopes -> InstanceIds]
<1>. DEFINE f == Top(c)
            v == value[c]
            key == Key(f.scope, f.tag)
            from == Cached(highest, f.scope, None) + 1
            start == [f EXCEPT !.at = "page", !.from = from]
            last == v.data[Len(v.data)]
<1>1. stack[c] # <<>> /\ f.fn = "lookup" /\ f \in LookupFrame /\ key = f.scope
  BY TopFacts, FrameFacts DEF LookupRuns, Runs, Key
<1>2. symbolId \in [Scopes -> InstanceIds] /\ highest \in [Scopes -> InstanceIds]
  BY DEF IInv, CachesOK
<1>3. from \in Nat
  <2>1. Cached(highest, f.scope, None) \in InstanceIds
    BY <1>2 DEF Cached, InstanceIds
  <2>. QED
    BY <2>1 DEF InstanceIds, None
<1>4. FrameOK(start) /\ start.fn = f.fn /\ f.from \in Nat
  <2>. HIDE DEF f, from
  <2>1. start \in LookupFrame /\ start.fn = f.fn /\ f.from \in Nat
    BY <1>1, <1>3 DEF LookupFrame
  <2>. QED
    BY <2>1, PlainFrame
<1>5. CASE Is(c, "started") /\ UNCHANGED <<symbolId, highest>>
  <2>1. f.number => f.tag[1] \in InstanceIds
    BY <1>1, TagFacts DEF LookupFrame, InstanceIds
  <2>2. Cached(symbolId, key, None) # None => symbolId[key] \in InstanceIds
    BY <1>2 DEF Cached
  <2>3. \/ f.number /\ Return(c, f.tag[1])
        \/ Cached(symbolId, key, None) # None /\ Return(c, symbolId[key])
        \/ Send(c, start)
    BY <1>1, <1>5 DEF LookupRuns, Is, GotPage, GivesUp
  <2>. HIDE DEF start, key, f
  <2>. QED
    BY <1>1, <1>2, <1>4, <1>5, <2>1, <2>2, <2>3, SendKeeps, ReturnKeeps DEF f
<1>6. CASE GotPage(c) /\ ~Is(c, "started")
  <2>1. f.at = "page" /\ Is(c, "reply")
    BY <1>6 DEF GotPage
  <2>2. v \in Pages(f)
    <3>1. v \in Answers(f)
      BY <1>1, <2>1, TopFacts
    <3>. HIDE DEF v, f
    <3>. QED
      BY <1>1, <2>1, <3>1 DEF Answers
  <2>3. f.scope \in Scopes /\ v.data \in Seq(Nat)
    BY <1>4, <2>2, PageFacts
  <2>. DEFINE next == Page(f, v)
  <2>4. FrameOK(next) /\ next.fn = f.fn
    <3>1. 0 \in Retries /\ \E x \in Nat : next = [f EXCEPT !.retry = 0, !.from = x]
      BY <1>4, <2>3, NextPage
    <3>. HIDE DEF next, f
    <3>2. next \in LookupFrame /\ next.fn = f.fn
      BY <1>1, <3>1 DEF LookupFrame
    <3>. QED
      BY <3>2, PlainFrame
  <2>5. v.data # <<>> => last \in InstanceIds
    BY <1>4, <2>3, NextPage DEF InstanceIds
  <2>6. \/ UNCHANGED <<symbolId, highest>>
        \/ /\ v.data # <<>>
           /\ symbolId' = [symbolId EXCEPT ![f.scope] = last]
           /\ highest' = [highest EXCEPT ![f.scope] = last]
    BY <1>6 DEF LookupRuns, Key, GivesUp, GotPage, Is
  <2>. HIDE DEF last
  <2>7. symbolId' \in [Scopes -> InstanceIds] /\ highest' \in [Scopes -> InstanceIds]
    BY <1>2, <2>5, <2>6
  <2>8. symbolId'[key] \in InstanceIds /\ None \in InstanceIds
    BY <1>1, <2>3, <2>7 DEF InstanceIds
  <2>9. Return(c, symbolId'[key]) \/ Send(c, next) \/ Return(c, None)
    BY <1>6 DEF LookupRuns
  <2>. HIDE DEF next, key
  <2>10. Return(c, symbolId'[key]) \/ Return(c, None) => Kept(c)
    BY <1>1, <2>8, ReturnKeeps
  <2>11. Send(c, next) => Kept(c)
    BY <1>1, <2>4, SendKeeps
  <2>. QED
    BY <2>7, <2>9, <2>10, <2>11
<1>7. CASE GivesUp(c) /\ Return(c, None) /\ UNCHANGED <<symbolId, highest>>
  BY <1>1, <1>2, <1>7, ReturnKeeps DEF InstanceIds
<1>. QED
  BY <1>5, <1>6, <1>7 DEF LookupRuns, GotPage, Is

(* The type of a symbol.                                                     *)
LEMMA InfoStep ==
  ASSUME IInv, NEW c \in Calls, InfoRuns(c)
  PROVE  Kept(c) /\ tags' \in [Scopes -> Types \cup {NoType}]
<1>. DEFINE f == Top(c)
            v == value[c]
            key == Key(f.scope, <<f.id>>)
            page == v.data
            ask == [f EXCEPT !.at = "page", !.id = v.value, !.from = v.value]
            callee == Lookup(f.scope, f.tag, f.number)
<1>1. stack[c] # <<>> /\ f.fn = "info" /\ f \in InfoFrame /\ FrameOK(f)
  BY TopFacts, FrameFacts DEF InfoRuns, Runs
<1>2. tags \in [Scopes -> Types \cup {NoType}]
  BY DEF IInv, CachesOK
<1>3. (\E x : Return(c, x)) => Kept(c)
  BY <1>1, ReturnKeeps
<1>4. FrameOK(callee) /\ Called(callee, f) /\ callee.fn # "list"
  <2>1. f.scope \in Names /\ f.tag \in Tags /\ f.number \in BOOLEAN
    BY <1>1 DEF InfoFrame
  <2>2. callee.fn = "lookup"
    BY DEF Lookup
  <2>3. FrameOK(callee)
    BY <2>1, BeginningsOK
  <2>. QED
    BY <1>1, <2>2, <2>3 DEF Called, Outermost
<1>5. CASE Is(c, "started") /\ UNCHANGED tags /\ Enter(c, f, callee)
  BY <1>1, <1>2, <1>4, <1>5, EnterKeeps
<1>6. CASE Is(c, "returned") /\ UNCHANGED tags
  <2>1. v.value \in InstanceIds
    BY <1>1, <1>6, TopFacts DEF Awaits, Is
  <2>2. (\E x : Return(c, x)) \/ (v.value # None /\ Send(c, ask))
    BY <1>6 DEF InfoRuns, GivesUp, GotPage, Is
  <2>3. ASSUME v.value # None, Send(c, ask) PROVE Kept(c)
    <3>. DEFINE id == v.value
    <3>1. id \in Nat /\ id \in InstanceIds /\ ask = [f EXCEPT !.at = "page", !.id = id, !.from = id]
      BY <2>1, <2>3 DEF InstanceIds
    <3>. HIDE DEF id, ask, f
    <3>2. ask \in InfoFrame /\ ask.fn = f.fn
      BY <1>1, <3>1 DEF InfoFrame
    <3>3. FrameOK(ask)
      BY <3>2, PlainFrame
    <3>. QED
      BY <1>1, <2>3, <3>2, <3>3, SendKeeps DEF f
  <2>. QED
    BY <1>2, <1>3, <1>6, <2>2, <2>3
<1>7. CASE GotPage(c) /\ ~Is(c, "started") /\ ~Is(c, "returned")
  <2>1. f.at = "page" /\ Is(c, "reply")
    BY <1>7 DEF GotPage
  <2>2. v \in Pages(f) /\ f.from \in Nat
    <3>1. v \in Answers(f) /\ f.from \in Nat
      BY <1>1, <2>1, TopFacts DEF InfoFrame
    <3>. HIDE DEF v, f
    <3>. QED
      BY <1>1, <2>1, <3>1 DEF Answers
  <2>3. f.scope \in Scopes /\ page \in Seq(Nat) /\ page \in Seq(Ids[f.scope])
    BY <2>2, PageFacts
  <2>4. page # <<>> => TypeOf[f.scope][page[Len(page)]] \in Types
    <3>. SUFFICES ASSUME page # <<>> PROVE TypeOf[f.scope][page[Len(page)]] \in Types
      OBVIOUS
    <3>. HIDE DEF page, f
    <3>1. Len(page) \in 1 .. Len(page)
      BY <2>3, LenProperties, EmptySeq
    <3>2. page[Len(page)] \in Ids[f.scope]
      BY <2>3, <3>1, ElementOfSeq
    <3>. QED
      BY <2>3, <3>2, LogixAssumption
  <2>5. /\ \E x : Return(c, x)
        /\ tags' = IF page = <<>> THEN tags
                   ELSE [tags EXCEPT ![f.scope] = TypeOf[f.scope][page[Len(page)]]]
    BY <1>7, <2>1 DEF InfoRuns, Key, GivesUp, Is
  <2>6. tags' \in [Scopes -> Types \cup {NoType}]
    <3>. DEFINE t == TypeOf[f.scope][page[Len(page)]]
    <3>1. \/ tags' = tags
          \/ t \in Types /\ tags' = [tags EXCEPT ![f.scope] = t]
      BY <2>4, <2>5
    <3>. HIDE DEF t
    <3>. QED
      BY <1>2, <3>1
  <2>. QED
    BY <1>3, <2>5, <2>6
<1>8. CASE GivesUp(c) /\ Return(c, NoType) /\ UNCHANGED tags
  BY <1>2, <1>3, <1>8
<1>. QED
  BY <1>5, <1>6, <1>7, <1>8 DEF InfoRuns, GotPage, Is

(* The attributes of a symbol.                                               *)
LEMMA AttributesStep == ASSUME IInv, NEW c \in Calls, AttributesRun(c) PROVE Kept(c)
<1>. DEFINE f == Top(c)
            v == value[c]
            ask == [f EXCEPT !.at = "request", !.id = v.value]
            callee == Lookup(f.scope, f.tag, f.number)
<1>1. stack[c] # <<>> /\ f.fn = "attributes" /\ f \in AttributesFrame /\ FrameOK(f)
  BY TopFacts, FrameFacts DEF AttributesRun, Runs
<1>2. FrameOK(callee) /\ Called(callee, f) /\ callee.fn # "list"
  <2>1. f.scope \in Names /\ f.tag \in Tags /\ f.number \in BOOLEAN
    BY <1>1 DEF AttributesFrame
  <2>2. callee.fn = "lookup"
    BY DEF Lookup
  <2>3. FrameOK(callee)
    BY <2>1, BeginningsOK
  <2>. QED
    BY <1>1, <2>2, <2>3 DEF Called, Outermost
<1>3. ASSUME Is(c, "returned"), Send(c, ask) PROVE Kept(c)
  <2>. DEFINE id == v.value
  <2>1. id \in InstanceIds
    BY <1>1, <1>3, TopFacts DEF Awaits, Is
  <2>2. ask = [f EXCEPT !.at = "request", !.id = id]
    OBVIOUS
  <2>. HIDE DEF id, ask, f
  <2>3. ask \in AttributesFrame /\ ask.fn = f.fn
    BY <1>1, <2>1, <2>2 DEF AttributesFrame
  <2>4. FrameOK(ask)
    BY <2>3, PlainFrame
  <2>. QED
    BY <1>1, <1>3, <2>3, <2>4, SendKeeps DEF f
<1>4. \/ \E x : Return(c, x)
      \/ Is(c, "returned") /\ Send(c, ask)
      \/ Enter(c, f, callee) \/ Throw(c)
  BY DEF AttributesRun
<1>. HIDE DEF ask, callee
<1>. QED
  BY <1>1, <1>2, <1>3, <1>4, EnterKeeps, ReturnKeeps, ThrowKeeps

(* The number of elements to ask for.                                        *)
LEMMA SizeStep == ASSUME IInv, NEW c \in Calls, SizeRuns(c) PROVE Kept(c)
<1>. DEFINE f == Top(c)
            Walking(t, i) == [f EXCEPT !.at = "template", !.template = t, !.part = i]
            member == IF f.tag[f.part] \in DOMAIN Members[f.template]
                        THEN Members[f.template][f.tag[f.part]] ELSE NoType
            asking == [f EXCEPT !.at = "attributes"]
            informed == [f EXCEPT !.at = "info"]
            rest == Size(<<Head(f.tag)>>, Tail(f.tag))
            asked == Attributes(f.scope, f.tag, FALSE)
            first == Info(f.scope, <<Head(f.tag)>>, FALSE)
<1>1. stack[c] # <<>> /\ f.fn = "size" /\ f \in SizeFrame /\ FrameOK(f)
  BY TopFacts, FrameFacts DEF SizeRuns, Runs
<1>2. f.scope \in Names /\ f.tag \in Tags /\ f.part \in Nat
  BY <1>1 DEF SizeFrame
<1>3. \/ \E x : Return(c, x)
      \/ f.at = "info" /\ Become(c, rest)
      \/ Enter(c, asking, asked)
      \/ Len(f.tag) # 1 /\ Enter(c, informed, first)
      \/ \E t \in Templates : \E i \in {2, f.part + 1} : Enter(c, Walking(t, i), Template(t))
  <2>1. CASE Is(c, "started")
    BY <2>1 DEF SizeRuns, Is
  <2>2. CASE Is(c, "thrown")
    BY <2>2 DEF SizeRuns, Is
  <2>3. CASE Is(c, "returned") /\ f.at = "attributes"
    BY <2>3 DEF SizeRuns, Is
  <2>4. CASE Is(c, "returned") /\ f.at = "info"
    BY <2>4 DEF SizeRuns, Is
  <2>5. CASE Is(c, "returned") /\ f.at = "template"
    BY <2>5 DEF SizeRuns, Is
  <2>. QED
    BY <2>1, <2>2, <2>3, <2>4, <2>5 DEF SizeRuns
<1>4. ASSUME f.at = "info", Become(c, rest) PROVE Kept(c)
  <2>1. Len(f.tag) # 1
    BY <1>1, <1>4 DEF FrameOK
  <2>2. <<Head(f.tag)>> \in Names /\ Tail(f.tag) \in Tags
    BY <1>2, <2>1, TagFacts
  <2>3. FrameOK(rest) /\ rest.fn = "size"
    BY <2>2, BeginningsOK DEF Size
  <2>. HIDE DEF rest
  <2>. QED
    BY <1>1, <1>4, <2>3, BecomeKeeps
<1>5. ASSUME Enter(c, asking, asked) PROVE Kept(c)
  <2>1. FrameOK(asked) /\ asked.fn = "attributes"
    BY <1>2, BeginningsOK DEF Attributes
  <2>2. FrameOK(asking) /\ asking.fn = "size"
    <3>. HIDE DEF f
    <3>1. asking \in SizeFrame /\ asking.fn = "size" /\ asking.at = "attributes"
      BY <1>1 DEF SizeFrame
    <3>. QED
      BY <3>1 DEF FrameOK, Frame
  <2>3. Called(asked, asking)
    BY <2>1, <2>2 DEF Called, Outermost
  <2>. HIDE DEF asked, asking
  <2>. QED
    BY <1>1, <1>5, <2>1, <2>2, <2>3, EnterKeeps
<1>6. ASSUME Len(f.tag) # 1, Enter(c, informed, first) PROVE Kept(c)
  <2>1. <<Head(f.tag)>> \in Tags
    BY <1>2, TagFacts
  <2>2. FrameOK(first) /\ first.fn = "info"
    BY <1>2, <2>1, BeginningsOK DEF Info
  <2>3. FrameOK(informed) /\ informed.fn = "size"
    <3>1. Len(f.tag) # 1
      BY <1>6
    <3>. HIDE DEF f
    <3>2. informed \in SizeFrame /\ informed.fn = "size" /\ informed.tag = f.tag
      BY <1>1 DEF SizeFrame
    <3>. QED
      BY <3>1, <3>2 DEF FrameOK, Frame
  <2>4. Called(first, informed)
    BY <2>2, <2>3 DEF Called, Outermost
  <2>. HIDE DEF first, informed
  <2>. QED
    BY <1>1, <1>6, <2>2, <2>3, <2>4, EnterKeeps
<1>7. ASSUME NEW t \in Templates, NEW i \in {2, f.part + 1}, Enter(c, Walking(t, i), Template(t))
      PROVE  Kept(c)
  <2>. DEFINE g == Walking(t, i)
  <2>1. FrameOK(Template(t)) /\ Template(t).fn = "template"
    BY BeginningsOK DEF Template
  <2>2. FrameOK(g) /\ g.fn = "size"
    <3>1. i \in Nat
      BY <1>2
    <3>. HIDE DEF f
    <3>2. g \in SizeFrame /\ g.fn = "size" /\ g.at = "template"
      BY <1>1, <3>1 DEF SizeFrame
    <3>. QED
      BY <3>2 DEF FrameOK, Frame
  <2>3. Called(Template(t), g)
    BY <2>1, <2>2 DEF Called, Outermost
  <2>4. Enter(c, g, Template(t))
    BY <1>7
  <2>. HIDE DEF g
  <2>. QED
    BY <1>1, <2>1, <2>2, <2>3, <2>4, EnterKeeps
<1>. HIDE DEF Walking, asking, informed, rest, asked, first
<1>. QED
  BY <1>1, <1>3, <1>4, <1>5, <1>6, <1>7, ReturnKeeps

(* The size of a template's definition.                                      *)
LEMMA TemplateAttributesStep ==
  ASSUME IInv, NEW c \in Calls, TemplateAttributesRun(c)
  PROVE  Kept(c) /\ attributes' \subseteq Templates
<1>. DEFINE f == Top(c)
            ask == [f EXCEPT !.at = "request"]
<1>1. stack[c] # <<>> /\ f.fn = "template attributes" /\ f \in TemplateAttributesFrame
  BY TopFacts, FrameFacts DEF TemplateAttributesRun, Runs
<1>2. FrameOK(ask) /\ ask.fn = f.fn /\ f.template \in Templates
  <2>. HIDE DEF f
  <2>1. ask \in TemplateAttributesFrame /\ ask.fn = f.fn /\ f.template \in Templates
    BY <1>1 DEF TemplateAttributesFrame
  <2>. QED
    BY <2>1, PlainFrame
<1>3. (\E x : Return(c, x)) \/ Send(c, ask) \/ Throw(c)
  BY DEF TemplateAttributesRun
<1>4. attributes' = attributes \/ attributes' = attributes \cup {f.template}
  BY DEF TemplateAttributesRun
<1>5. attributes' \subseteq Templates
  BY <1>2, <1>4 DEF IInv, CachesOK
<1>. HIDE DEF ask
<1>. QED
  BY <1>1, <1>2, <1>3, <1>5, SendKeeps, ReturnKeeps, ThrowKeeps

(* The one that gathers a definition: the next request asks for what follows *)
(* what it has, and the last reply completes it.                             *)
LEMMA TemplateStep == ASSUME IInv, NEW c \in Calls, TemplateRuns(c) PROVE Kept(c)
<1>. DEFINE f == Top(c)
            v == value[c]
            ask == [f EXCEPT !.at = "chunk"]
            next == [f EXCEPT !.data = @ \o v.data, !.offset = NextOffset(f, v)]
            callee == TemplateAttributes(f.template)
<1>1. stack[c] # <<>> /\ f.fn = "template" /\ f \in TemplateFrame /\ FrameOK(f)
      /\ Awaits(f, v)
  BY TopFacts, FrameFacts DEF TemplateRuns, Runs
<1>2. /\ f.template \in Templates /\ f.data \in Seq(Nat) /\ Bytes[f.template] \in Nat
      /\ f.offset <= Bytes[f.template] /\ f.data = Piece(0, f.offset)
  <2>1. f.template \in Templates /\ f.data \in Seq(Nat)
    BY <1>1 DEF TemplateFrame
  <2>. QED
    BY <1>1, <2>1, LogixAssumption DEF FrameOK
<1>3. FrameOK(ask) /\ ask.fn = f.fn /\ ask.at = "chunk"
  <2>. HIDE DEF f
  <2>1. ask \in TemplateFrame /\ ask.fn = "template" /\ ask.at = "chunk"
        /\ ask.offset = f.offset /\ ask.data = f.data /\ ask.template = f.template
    BY <1>1 DEF TemplateFrame
  <2>. QED
    BY <1>1, <1>2, <2>1 DEF FrameOK, Frame
<1>4. FrameOK(callee) /\ Called(callee, f) /\ callee.fn # "list"
  BY <1>1, <1>2, BeginningsOK DEF TemplateAttributes, Called, Outermost
<1>5. ASSUME Is(c, "reply"), Send(c, next) PROVE Kept(c)
  <2>1. v \in Chunks(f) /\ f.at = "chunk"
    <3>1. v \in Answers(f) /\ f.at = "chunk"
      BY <1>1, <1>5 DEF Awaits, Is
    <3>. HIDE DEF v, f
    <3>. QED
      BY <1>1, <3>1 DEF Answers
  <2>2. /\ v.data \in Seq(Nat) /\ NextOffset(f, v) \in 0 .. Bytes[f.template]
        /\ f.data \o v.data = Piece(0, NextOffset(f, v))
    BY <1>1, <2>1, ChunkFacts
  <2>3. f.data \o v.data \in Seq(Nat)
    BY <1>2, <2>2, ConcatProperties
  <2>. DEFINE o == NextOffset(f, v)
              d == f.data \o v.data
  <2>4. /\ o \in Nat /\ o <= Bytes[f.template] /\ d \in Seq(Nat) /\ d = Piece(0, o)
        /\ next = [f EXCEPT !.data = d, !.offset = o]
    <3>1. o \in Nat /\ o <= Bytes[f.template]
      BY <1>2, <2>2
    <3>2. d \in Seq(Nat) /\ d = Piece(0, o)
      BY <2>2, <2>3
    <3>3. next = [f EXCEPT !.data = d, !.offset = o]
      OBVIOUS
    <3>. QED
      BY <3>1, <3>2, <3>3
  <2>. HIDE DEF o, d, next, f
  <2>5. /\ next.fn = "template" /\ next.at = "chunk" /\ next.template = f.template
        /\ next.offset = o /\ next.data = d /\ next \in TemplateFrame
    BY <1>1, <2>1, <2>4 DEF TemplateFrame
  <2>6. FrameOK(next)
    BY <2>4, <2>5 DEF FrameOK, Frame
  <2>. QED
    BY <1>1, <1>5, <2>5, <2>6, SendKeeps DEF f
<1>6. \/ \E x : Return(c, x)
      \/ Enter(c, f, callee) \/ Send(c, ask)
      \/ Is(c, "reply") /\ Send(c, next)
      \/ Throw(c)
  BY DEF TemplateRuns
<1>. HIDE DEF ask, next, callee
<1>. QED
  BY <1>1, <1>3, <1>4, <1>5, <1>6, SendKeeps, EnterKeeps, ReturnKeeps, ThrowKeeps

(* The next tag of a program, the next page of them, or the end.             *)
LEMMA NextNameStep ==
  ASSUME IInv, NEW c \in Calls, stack[c] # <<>>, Top(c).fn = "read",
         NEW f \in ReadFrame, NextName(c, f)
  PROVE  Kept(c)
<1>. DEFINE named == [f EXCEPT !.at = "name", !.names = Tail(@)]
            paged == [f EXCEPT !.at = "page"]
            callee == Read(f.tag \o <<Head(f.names)>>, FALSE, "none")
<1>1. f.fn = "read" /\ f.names \in Seq(Nat) /\ f.tag \in Tags
  BY DEF ReadFrame
<1>2. FrameOK(paged) /\ paged.fn = "read"
  <2>1. paged \in ReadFrame /\ paged.fn = "read"
    BY DEF ReadFrame
  <2>. QED
    BY <2>1, PlainFrame
<1>3. ASSUME f.names # <<>>, Enter(c, named, callee) PROVE Kept(c)
  <2>1. Head(f.names) \in Nat /\ Tail(f.names) \in Seq(Nat)
    BY <1>1, <1>3, HeadTailProperties
  <2>. DEFINE rest == Tail(f.names)
  <2>2. named = [f EXCEPT !.at = "name", !.names = rest] /\ rest \in Seq(Nat)
    BY <2>1
  <2>. HIDE DEF rest, named
  <2>3. named \in ReadFrame /\ named.fn = "read"
    BY <2>2 DEF ReadFrame
  <2>4. FrameOK(named)
    BY <2>3, PlainFrame
  <2>5. FrameOK(callee) /\ callee.fn = "read"
    <3>1. f.tag \o <<Head(f.names)>> \in Tags
      BY <1>1, <2>1, TagFacts
    <3>. QED
      BY <3>1, BeginningsOK DEF Read
  <2>6. Called(callee, named)
    BY <2>3, <2>5 DEF Called, Outermost
  <2>. HIDE DEF callee
  <2>. QED
    BY <1>3, <2>3, <2>4, <2>5, <2>6, EnterKeeps
<1>4. \/ f.names # <<>> /\ Enter(c, named, callee)
      \/ Send(c, paged) \/ Return(c, 1)
  BY DEF NextName
<1>. HIDE DEF named, paged, callee
<1>. QED
  BY <1>2, <1>3, <1>4, SendKeeps, ReturnKeeps

(* A read, except for its fragments, ...                                     *)
LEMMA ReadStep == ASSUME IInv, NEW c \in Calls, ReadRuns(c) PROVE Kept(c)
<1>. DEFINE f == Top(c)
            v == value[c]
            ask == [f EXCEPT !.at = "request"]
            fragments == [f EXCEPT !.at = "fragment", !.offset = 0]
            sized == [f EXCEPT !.at = "size"]
            informed == [f EXCEPT !.at = "info"]
            paged == [f EXCEPT !.at = "page"]
            names == Readable(v.data)
            filled == [Page(f, v) EXCEPT !.names = names, !.more = MorePages(v)]
            size == Size(<<>>, f.tag)
            info == Info(<<>>, f.tag, f.number)
<1>1. stack[c] # <<>> /\ f.fn = "read" /\ f \in ReadFrame
  BY TopFacts, FrameFacts DEF ReadRuns, Runs
<1>2. f.tag \in Tags /\ f.number \in BOOLEAN /\ <<>> \in Names /\ f.from \in Nat
  BY <1>1 DEF ReadFrame, Names
<1>3. /\ FrameOK(ask) /\ FrameOK(fragments) /\ FrameOK(sized) /\ FrameOK(informed)
      /\ FrameOK(paged)
      /\ ask.fn = "read" /\ fragments.fn = "read" /\ sized.fn = "read" /\ informed.fn = "read"
      /\ paged.fn = "read"
  <2>. HIDE DEF f
  <2>1. /\ ask \in ReadFrame /\ fragments \in ReadFrame /\ sized \in ReadFrame
        /\ informed \in ReadFrame /\ paged \in ReadFrame
        /\ ask.fn = "read" /\ fragments.fn = "read" /\ sized.fn = "read" /\ informed.fn = "read"
        /\ paged.fn = "read"
    BY <1>1 DEF ReadFrame
  <2>. HIDE DEF ask, fragments, sized, informed, paged
  <2>. QED
    BY <2>1, PlainFrame
<1>4. FrameOK(size) /\ size.fn = "size" /\ FrameOK(info) /\ info.fn = "info"
  BY <1>2, BeginningsOK DEF Size, Info
<1>5. ASSUME Enter(c, sized, size) PROVE Kept(c)
  <2>1. Called(size, sized)
    BY <1>3, <1>4 DEF Called, Outermost
  <2>. HIDE DEF size, sized
  <2>. QED
    BY <1>1, <1>3, <1>4, <1>5, <2>1, EnterKeeps
<1>6. ASSUME Enter(c, informed, info) PROVE Kept(c)
  <2>1. Called(info, informed)
    BY <1>3, <1>4 DEF Called, Outermost
  <2>. HIDE DEF info, informed
  <2>. QED
    BY <1>1, <1>3, <1>4, <1>6, <2>1, EnterKeeps
<1>7. ASSUME GotPage(c), NextName(c, filled) PROVE Kept(c)
  <2>1. f.at = "page" /\ v \in Pages(f)
    <3>1. f.at = "page" /\ v \in Answers(f)
      BY <1>1, <1>7, TopFacts DEF GotPage
    <3>. HIDE DEF v, f
    <3>. QED
      BY <1>1, <3>1 DEF Answers
  <2>2. v.data \in Seq(Nat) /\ v.partial \in BOOLEAN
    BY <1>2, <2>1, PageFacts
  <2>3. names \in Seq(Nat)
    <3>. DEFINE d == v.data
                S == {i \in DOMAIN d : d[i] \notin System}
                at == InOrder(S)
    <3>1. Len(d) \in Nat /\ d \in [1 .. Len(d) -> Nat]
      BY <2>2, LenProperties
    <3>2. IsFiniteSet(S) /\ S \subseteq 1 .. Len(d)
      <4>1. S \subseteq 1 .. Len(d)
        BY <3>1
      <4>2. IsFiniteSet(1 .. Len(d))
        BY <3>1, FS_Interval
      <4>. HIDE DEF S, d
      <4>. QED
        BY <4>1, <4>2, FS_Subset
    <3>3. S \subseteq Nat
      BY <3>1, <3>2
    <3>4. names = [k \in DOMAIN at |-> d[at[k]]]
      BY DEF Readable
    <3>. HIDE DEF S, d, names
    <3>5. at \in Seq(S)
      BY <3>2, <3>3, InOrderFacts DEF Enumerates
    <3>. HIDE DEF at
    <3>6. Len(at) \in Nat /\ DOMAIN at = 1 .. Len(at) /\ at \in [1 .. Len(at) -> S]
      BY <3>5, LenProperties
    <3>7. names \in [1 .. Len(at) -> Nat]
      BY <3>1, <3>2, <3>4, <3>6
    <3>. QED
      BY <3>6, <3>7
  <2>4. filled \in ReadFrame
    <3>. DEFINE more == MorePages(v)
    <3>1. PICK x \in Nat : Page(f, v) = [f EXCEPT !.retry = 0, !.from = x]
      BY <1>2, <2>2, NextPage
    <3>2. 0 \in Retries /\ more \in BOOLEAN
      BY <1>2, <2>2, NextPage DEF MorePages
    <3>3. filled = [[f EXCEPT !.retry = 0, !.from = x] EXCEPT !.names = names, !.more = more]
      BY <3>1
    <3>. HIDE DEF filled, names, more, f
    <3>4. [f EXCEPT !.retry = 0, !.from = x] \in ReadFrame
      BY <1>1, <3>2 DEF ReadFrame
    <3>. QED
      BY <2>3, <3>2, <3>3, <3>4 DEF ReadFrame
  <2>. HIDE DEF filled
  <2>. QED
    BY <1>1, <1>7, <2>4, NextNameStep
<1>8. \/ \E x : Return(c, x)
      \/ Throw(c) \/ Send(c, ask) \/ Send(c, fragments) \/ Send(c, paged)
      \/ Enter(c, sized, size) \/ Enter(c, informed, info)
      \/ GotPage(c) /\ NextName(c, filled)
      \/ NextName(c, f)
  BY DEF ReadRuns
<1>. HIDE DEF ask, fragments, sized, informed, paged, filled, size, info
<1>9. NextName(c, f) => Kept(c)
  BY <1>1, NextNameStep
<1>10. Send(c, ask) \/ Send(c, fragments) \/ Send(c, paged) => Kept(c)
  BY <1>1, <1>3, SendKeeps
<1>. QED
  BY <1>1, <1>5, <1>6, <1>7, <1>8, <1>9, <1>10, ReturnKeeps, ThrowKeeps

(* ... and its fragments.                                                    *)
LEMMA FragmentStep == ASSUME IInv, NEW c \in Calls, FragmentRuns(c) PROVE Kept(c)
<1>. DEFINE f == Top(c)
            v == value[c]
            length == 2 + Len(v.data)
            following(x) == [f EXCEPT !.offset = x]
<1>1. stack[c] # <<>> /\ f.fn = "read" /\ f \in ReadFrame /\ FrameOK(f)
  BY TopFacts, FrameFacts DEF FragmentRuns, Runs
<1>2. f.offset \in Nat
  BY <1>1 DEF ReadFrame
<1>3. ASSUME NEW x \in Nat, Send(c, following(x)) PROVE Kept(c)
  <2>. DEFINE g == following(x)
  <2>1. g \in ReadFrame /\ g.fn = "read"
    <3>. HIDE DEF f
    <3>. QED
      BY <1>1 DEF ReadFrame
  <2>2. FrameOK(g)
    BY <2>1, PlainFrame
  <2>3. Send(c, g)
    BY <1>3
  <2>. HIDE DEF g
  <2>. QED
    BY <1>1, <2>1, <2>2, <2>3, SendKeeps
<1>4. \/ Throw(c)
      \/ Is(c, "reply") /\ \E end \in IF f.offset = 0 THEN {2} ELSE f.offset + 2 .. length :
                             Send(c, following(length - end))
  BY DEF FragmentRuns
<1>5. ASSUME Is(c, "reply"), NEW end \in IF f.offset = 0 THEN {2} ELSE f.offset + 2 .. length
      PROVE  length - end \in Nat
  <2>1. v.data \in Seq(Nat)
    BY <1>1, <1>5, TopFacts, AnswersFacts
  <2>2. Len(v.data) \in Nat
    BY <2>1, LenProperties
  <2>. DEFINE n == Len(v.data)
              o == f.offset
  <2>3. n \in Nat /\ o \in Nat /\ length = 2 + n /\ end \in IF o = 0 THEN {2} ELSE o + 2 .. 2 + n
    BY <1>2, <1>5, <2>2
  <2>. HIDE DEF n, o, length
  <2>. QED
    BY <2>3
<1>. HIDE DEF following
<1>6. CASE Throw(c)
  BY <1>1, <1>6, ThrowKeeps
<1>7. CASE /\ Is(c, "reply")
           /\ \E end \in IF f.offset = 0 THEN {2} ELSE f.offset + 2 .. length :
                Send(c, following(length - end))
  <2>1. PICK end \in IF f.offset = 0 THEN {2} ELSE f.offset + 2 .. length :
          Send(c, following(length - end))
    BY <1>7
  <2>2. length - end \in Nat
    BY <1>5, <1>7, <2>1
  <2>. HIDE DEF length
  <2>. QED
    BY <1>3, <2>1, <2>2
<1>. QED
  BY <1>4, <1>6, <1>7

(* A write.                                                                  *)
LEMMA WriteStep == ASSUME IInv, NEW c \in Calls, WriteRuns(c) PROVE Kept(c)
<1>. DEFINE f == Top(c)
            ask == [f EXCEPT !.at = "request"]
            callee == Info(<<>>, f.tag, f.number)
<1>1. stack[c] # <<>> /\ f.fn = "write" /\ f.fn \in Outermost /\ f \in WriteFrame /\ FrameOK(f)
  BY TopFacts, FrameFacts DEF WriteRuns, Runs, Outermost
<1>2. FrameOK(ask) /\ ask.fn = f.fn
  <2>. HIDE DEF f
  <2>1. ask \in WriteFrame /\ ask.fn = f.fn
    BY <1>1 DEF WriteFrame
  <2>. QED
    BY <2>1, PlainFrame
<1>3. FrameOK(callee) /\ Called(callee, f) /\ callee.fn # "list"
  <2>1. f.tag \in Tags /\ f.number \in BOOLEAN /\ <<>> \in Names
    BY <1>1 DEF WriteFrame, Names
  <2>2. FrameOK(callee) /\ callee.fn = "info"
    BY <2>1, BeginningsOK DEF Info
  <2>. QED
    BY <1>1, <2>2 DEF Called, Outermost
<1>4. (\E x : Return(c, x)) \/ Send(c, ask) \/ Enter(c, f, callee) \/ Throw(c) \/ Lose(c)
  BY DEF WriteRuns
<1>. HIDE DEF ask, callee
<1>. QED
  BY <1>1, <1>2, <1>3, <1>4, SendKeeps, EnterKeeps, ReturnKeeps, ThrowKeeps, LoseKeeps

(* The calls of a single request.                                            *)
LEMMA SingleStep == ASSUME IInv, NEW c \in Calls, SingleRuns(c) PROVE Kept(c)
<1>. DEFINE f == Top(c)
            ask == [f EXCEPT !.at = "request"]
<1>1. stack[c] # <<>> /\ f.fn \in {"modify", "controller", "class"} /\ f \in SingleFrame
  BY TopFacts, FrameFacts DEF SingleRuns
<1>2. FrameOK(ask) /\ ask.fn = f.fn
  <2>. HIDE DEF f
  <2>1. ask \in SingleFrame /\ ask.fn = f.fn
    BY <1>1 DEF SingleFrame
  <2>. QED
    BY <2>1, PlainFrame
<1>3. (\E x : Return(c, x)) \/ Send(c, ask) \/ Throw(c) \/ (f.fn = "class" /\ Lose(c))
  BY DEF SingleRuns
<1>. HIDE DEF ask
<1>. QED
  BY <1>1, <1>2, <1>3, SendKeeps, ReturnKeeps, ThrowKeeps, LoseKeeps DEF Outermost

-----------------------------------------------------------------------------
(* What listTags has yielded, and what a page adds to it.                    *)
LEMMA Prefix ==
  ASSUME NEW a \in Seq(Nat), NEW b \in Seq(Nat), NEW w \in Seq(Nat), a \o b = w
  PROVE  IsPrefix(a, w)
<1>. DEFINE m == Len(a)
<1>1. m \in Nat /\ Len(b) \in Nat /\ Len(w) = m + Len(b)
      /\ \A i \in 1 .. m + Len(b) : w[i] = IF i <= m THEN a[i] ELSE b[i - m]
  BY ConcatProperties, LenProperties
<1>. HIDE DEF m
<1>2. m <= Len(w) /\ \A i \in 1 .. m : w[i] = a[i] /\ a[i] \in Nat /\ w[i] \in Nat
  <2>1. \A i \in 1 .. m : a[i] \in Nat
    BY LenProperties DEF m
  <2>. QED
    BY <1>1, <2>1
<1>3. SubSeq(w, 1, m) \in Seq(Nat) /\ Len(SubSeq(w, 1, m)) = m
      /\ \A i \in 1 .. m : SubSeq(w, 1, m)[i] = w[i]
  <2>1. \A i \in 1 .. m : w[i] \in Nat
    BY <1>2
  <2>2. /\ SubSeq(w, 1, m) \in Seq(Nat)
        /\ Len(SubSeq(w, 1, m)) = IF 1 <= m THEN m - 1 + 1 ELSE 0
        /\ \A i \in 1 .. m - 1 + 1 : SubSeq(w, 1, m)[i] = w[1 + i - 1]
    BY <1>1, <2>1, SubSeqProperties
  <2>. QED
    BY <1>1, <2>2
<1>4. SubSeq(w, 1, m) = a
  BY <1>2, <1>3, SeqEqual DEF m
<1>5. SubSeq(a, 1, m) = a
  BY SubSeqFull DEF m
<1>6. m <= Len(w) /\ SubSeq(a, 1, m) = SubSeq(w, 1, m)
  BY ONLY <1>2, <1>4, <1>5
<1>. QED
  BY ONLY <1>6 DEF IsPrefix, m

LEMMA Associates == \A s, t, u \in Seq(Nat) : (s \o t) \o u = s \o (t \o u)
<1>. SUFFICES ASSUME NEW s \in Seq(Nat), NEW t \in Seq(Nat), NEW u \in Seq(Nat)
              PROVE  (s \o t) \o u = s \o (t \o u)
  OBVIOUS
<1>. QED
  BY ConcatAssociative

(* What is left to yield after a page is what the next one is asked from.    *)
LEMMA ListPage ==
  ASSUME NEW f \in ListFrame, NEW v \in Pages(f),
         NEW ids \in Seq(Nat),
         ids \o Following(f.scope, f.from) = Following(f.scope, 0),
         NEW n \in 0 .. Len(v.data)
  PROVE  /\ ids \o SubSeq(v.data, 1, n) \in Seq(Nat)
         /\ IsPrefix(ids \o SubSeq(v.data, 1, n), Following(f.scope, 0))
         /\ n = Len(v.data) /\ MorePages(v) =>
              (ids \o SubSeq(v.data, 1, n)) \o Following(f.scope, Page(f, v).from)
                = Following(f.scope, 0)
         /\ n = Len(v.data) /\ ~MorePages(v) =>
              ids \o SubSeq(v.data, 1, n) = Following(f.scope, 0)
<1>. DEFINE r == Following(f.scope, f.from)
            all == Following(f.scope, 0)
            m == Len(r)
            d == v.data
            head == SubSeq(d, 1, n)
            rest == SubSeq(r, n + 1, m)
            x == ids \o head
<1>1. f.from \in Nat
  BY DEF ListFrame
<1>2. /\ f.scope \in Scopes /\ d \in Seq(Nat) /\ v.partial \in BOOLEAN
      /\ ~v.partial => d = r
      /\ v.partial => \E j \in 1 .. m - 1 : d = SubSeq(r, 1, j)
  BY <1>1, PageFacts
<1>3. r \in Seq(Nat) /\ all \in Seq(Nat) /\ m \in Nat /\ \A i \in 1 .. m : r[i] \in Nat
  <2>1. r \in Seq(Nat) /\ all \in Seq(Nat)
    BY <1>1, <1>2, FollowingFacts
  <2>. HIDE DEF r
  <2>. QED
    BY <2>1, LenProperties, ElementOfSeq
<1>4. ids \o r = all
  OBVIOUS
<1>5. n \in 0 .. Len(d)
  OBVIOUS
<1>6. \A j \in 1 .. m : Following(f.scope, r[j] + 1) = SubSeq(r, j + 1, m)
  BY <1>1, <1>2, FollowingRest
<1>7. d # <<>> => Page(f, v).from = d[Len(d)] + 1
  BY DEF Page, ListFrame
<1>8. MorePages(v) <=> v.partial /\ d # <<>>
  BY DEF MorePages
<1>. HIDE DEF r, all, m, d
<1>9. \E j \in 0 .. m : /\ Len(d) = j /\ \A i \in 1 .. j : d[i] = r[i]
                        /\ v.partial => j # 0
                        /\ ~v.partial => j = m
  <2>1. CASE ~v.partial
    BY <1>2, <1>3, <2>1 DEF m
  <2>2. CASE v.partial
    <3>1. PICK j \in 1 .. m - 1 : d = SubSeq(r, 1, j)
      BY <1>2, <2>2
    <3>2. \A i \in 1 .. j : r[i] \in Nat
      BY <1>3
    <3>3. Len(d) = j /\ \A i \in 1 .. j : d[i] = r[i]
      <4>1. j \in Int /\ 1 <= j
        BY <1>3
      <4>2. /\ Len(SubSeq(r, 1, j)) = IF 1 <= j THEN j - 1 + 1 ELSE 0
            /\ \A i \in 1 .. j - 1 + 1 : SubSeq(r, 1, j)[i] = r[1 + i - 1]
        BY <3>2, <4>1, SubSeqProperties
      <4>. QED
        BY <3>1, <4>1, <4>2
    <3>4. j \in 0 .. m /\ j # 0
      BY <1>3
    <3>. QED
      BY <2>2, <3>3, <3>4
  <2>. QED
    BY <2>1, <2>2
<1>10. PICK j \in 0 .. m : /\ Len(d) = j /\ \A i \in 1 .. j : d[i] = r[i]
                           /\ v.partial => j # 0
                           /\ ~v.partial => j = m
  BY <1>9
<1>11. n \in 0 .. m /\ n <= j
  BY <1>3, <1>5, <1>10
<1>12. head \in Seq(Nat) /\ head = SubSeq(r, 1, n)
  <2>1. /\ \A i \in 1 .. n : r[i] \in Nat
        /\ \A i \in 1 .. n : d[i] \in Nat
        /\ \A i \in 1 .. n : d[i] = r[i]
    <3>1. \A i \in 1 .. n : i \in 1 .. m /\ i \in 1 .. j
      BY <1>3, <1>11
    <3>. QED
      BY <1>3, <1>10, <3>1
  <2>2. n \in Int /\ 1 \in Int
    BY <1>11
  <2>3. /\ SubSeq(r, 1, n) \in Seq(Nat)
        /\ Len(SubSeq(r, 1, n)) = IF 1 <= n THEN n - 1 + 1 ELSE 0
        /\ \A i \in 1 .. n - 1 + 1 : SubSeq(r, 1, n)[i] = r[1 + i - 1]
    BY <2>1, <2>2, SubSeqProperties
  <2>4. /\ SubSeq(d, 1, n) \in Seq(Nat)
        /\ Len(SubSeq(d, 1, n)) = IF 1 <= n THEN n - 1 + 1 ELSE 0
        /\ \A i \in 1 .. n - 1 + 1 : SubSeq(d, 1, n)[i] = d[1 + i - 1]
    BY <2>1, <2>2, SubSeqProperties
  <2>5. \A i \in 1 .. n : i \in 1 .. n - 1 + 1 /\ 1 + i - 1 = i
    BY <2>2
  <2>6. /\ \A i \in 1 .. n : SubSeq(r, 1, n)[i] = r[i]
        /\ \A i \in 1 .. n : SubSeq(d, 1, n)[i] = d[i]
    BY <2>3, <2>4, <2>5
  <2>7. Len(SubSeq(r, 1, n)) = Len(SubSeq(d, 1, n)) /\ Len(SubSeq(d, 1, n)) = n
    BY <1>11, <2>3, <2>4
  <2>8. SubSeq(d, 1, n) = SubSeq(r, 1, n)
    BY <2>1, <2>3, <2>4, <2>6, <2>7, SeqEqual
  <2>. QED
    BY <2>4, <2>8
<1>13. rest \in Seq(Nat) /\ head \o rest = r
  <2>1. SubSeq(r, 1, n) \o SubSeq(r, n + 1, m) = SubSeq(r, 1, m)
    <3>1. 1 \in 1 .. Len(r) + 1 /\ n \in 1 - 1 .. Len(r) /\ m \in n .. Len(r)
      BY <1>3, <1>11 DEF m
    <3>. QED
      BY <1>3, <3>1, ConcatAdjacentSubSeq
  <2>2. SubSeq(r, 1, m) = r
    BY <1>3, SubSeqFull DEF m
  <2>3. rest \in Seq(Nat)
    <3>1. n + 1 \in Int /\ m \in Int /\ \A i \in n + 1 .. m : r[i] \in Nat
      BY <1>3, <1>11
    <3>. QED
      BY <3>1, SubSeqProperties
  <2>. QED
    BY <1>12, <2>1, <2>2, <2>3
<1>14. n = m => rest = <<>>
  <2>1. m \in Int /\ m + 1 \in Int /\ m < m + 1
    BY <1>3
  <2>2. SubSeq(r, m + 1, m) = <<>>
    BY <2>1, SubSeqEmpty
  <2>. QED
    BY <2>2
<1>. HIDE DEF head, rest
<1>15. x \in Seq(Nat) /\ x \o rest = all
  <2>1. head \in Seq(Nat)
    BY <1>12
  <2>2. (ids \o head) \o rest = ids \o (head \o rest)
    <3>1. \A s, t, u \in Seq(Nat) : (s \o t) \o u = s \o (t \o u)
      BY ONLY Associates
    <3>2. ids \in Seq(Nat)
      OBVIOUS
    <3>. QED
      BY ONLY <1>13, <2>1, <3>1, <3>2
  <2>3. ids \o head \in Seq(Nat)
    BY <2>1, ConcatProperties
  <2>. QED
    BY <1>4, <1>13, <2>2, <2>3
<1>. HIDE DEF x
<1>16. IsPrefix(x, all)
  BY <1>3, <1>13, <1>15, Prefix
<1>17. n = Len(d) /\ MorePages(v) => x \o Following(f.scope, Page(f, v).from) = all
  <2>. SUFFICES ASSUME n = Len(d), MorePages(v)
                PROVE  x \o Following(f.scope, Page(f, v).from) = all
    OBVIOUS
  <2>1. n = j /\ j # 0 /\ d # <<>>
    BY <1>8, <1>10
  <2>2. j \in 1 .. j /\ j \in 1 .. m
    BY <1>3, <2>1
  <2>3. d[j] = r[j]
    BY <1>10, <2>2
  <2>4. Page(f, v).from = r[j] + 1
    BY <1>7, <1>10, <2>1, <2>3
  <2>5. Following(f.scope, Page(f, v).from) = rest
    BY <1>6, <2>1, <2>2, <2>4 DEF rest
  <2>. QED
    BY <1>15, <2>5
<1>18. n = Len(d) /\ ~MorePages(v) => x = all
  <2>. SUFFICES ASSUME n = Len(d), ~MorePages(v) PROVE x = all
    OBVIOUS
  <2>1. n = m
    <3>1. CASE v.partial
      <4>1. d = <<>>
        BY <1>8, <3>1
      <4>. QED
        BY <1>10, <3>1, <4>1, EmptySeq
    <3>2. CASE ~v.partial
      BY <1>10, <3>2
    <3>. QED
      BY <3>1, <3>2
  <2>2. x \o <<>> = x
    BY <1>15, ConcatEmptySeq
  <2>. QED
    BY <1>14, <1>15, <2>1, <2>2
<1>. QED
  BY <1>15, <1>16, <1>17, <1>18 DEF x, head, d, all

(* One call's list changes.                                                  *)
LEMMA ListChanges ==
  ASSUME IInv, NEW c \in Calls, Kept(c),
         NEW l, l \in Listed, Complete(l), listed' = [listed EXCEPT ![c] = l],
         stack'[c] # <<>> /\ Head(stack'[c]).fn = "list" => Listing(Head(stack'[c]), l)
  PROVE  ListsOK'
<1>1. listed \in [Calls -> Listed] /\ \A d \in Calls : ListOK(stack[d], listed[d], outcome[d])
  BY DEF IInv, ListsOK
<1>2. listed' \in [Calls -> Listed] /\ listed'[c] = l
      /\ \A d \in Calls \ {c} : listed'[d] = listed[d]
  BY <1>1
<1>3. ListOK(stack'[c], listed'[c], outcome'[c])
  BY <1>2 DEF ListOK, Kept
<1>4. ASSUME NEW d \in Calls, d # c PROVE ListOK(stack'[d], listed'[d], outcome'[d])
  <2>1. stack'[d] = stack[d] /\ outcome'[d] = outcome[d]
    BY <1>4 DEF Kept
  <2>. QED
    BY <1>1, <1>2, <1>4, <2>1
<1>. QED
  BY <1>2, <1>3, <1>4 DEF ListsOK

(* No list: it stays as it is.                                               *)
LEMMA ListStays ==
  ASSUME IInv, NEW c \in Calls, Kept(c), UNCHANGED listed,
         stack'[c] # <<>> /\ Head(stack'[c]).fn = "list" => Listing(Head(stack'[c]), listed[c])
  PROVE  ListsOK'
<1>1. listed \in [Calls -> Listed] /\ listed[c] \in Listed /\ Complete(listed[c])
  BY DEF IInv, ListsOK, ListOK
<1>2. listed' = [listed EXCEPT ![c] = listed[c]]
  BY <1>1
<1>. QED
  BY <1>1, <1>2, ListChanges

(* A list takes a page and asks for the next, ends or is stopped.            *)
LEMMA ListStep == ASSUME IInv, NEW c \in Calls, ListRuns(c) PROVE Kept(c) /\ ListsOK'
<1>. DEFINE f == Top(c)
            v == value[c]
            l == listed[c]
            ask == [f EXCEPT !.at = "page"]
            next == Page(f, v)
<1>1. stack[c] # <<>> /\ f.fn = "list" /\ f \in ListFrame
  BY TopFacts, FrameFacts DEF ListRuns, Runs
<1>2. /\ listed \in [Calls -> Listed] /\ l \in Listed /\ Complete(l) /\ Listing(f, l)
  BY <1>1 DEF IInv, ListsOK, ListOK, Top
<1>3. /\ l.scope \in Names /\ l.ids \in Seq(Nat) /\ l.ended = "no"
      /\ f.scope \in Names /\ f.from \in Nat
  BY <1>1, <1>2 DEF Listed, Listing, ListFrame
<1>4. f.at \in {"start", "page"}
  BY <1>1 DEF ListFrame
<1>5. CASE Send(c, ask) /\ listed' = [listed EXCEPT ![c].scope = f.scope]
  <2>. DEFINE k == [l EXCEPT !.scope = f.scope]
  <2>1. FrameOK(ask) /\ ask.fn = "list" /\ ask.at = "page" /\ ask.scope = f.scope
        /\ ask.from = f.from
    <3>. HIDE DEF f
    <3>1. ask \in ListFrame /\ ask.fn = "list" /\ ask.at = "page" /\ ask.scope = f.scope
          /\ ask.from = f.from
      BY <1>1 DEF ListFrame
    <3>. QED
      BY <3>1, PlainFrame
  <2>2. Kept(c) /\ Head(stack'[c]) = ask
    <3>. HIDE DEF ask
    <3>. QED
      BY <1>1, <1>5, <2>1, SendKeeps
  <2>3. listed' = [listed EXCEPT ![c] = k]
    BY <1>5
  <2>4. k \in Listed /\ k.scope = f.scope /\ k.ids = l.ids /\ k.ended = l.ended
    BY <1>2, <1>3 DEF Listed
  <2>5. Complete(k) /\ Listing(ask, k)
    <3>1. CASE f.at = "start"
      <4>1. k.ids = <<>> /\ k.ended = "no" /\ f.from = 0
        BY <1>2, <2>4, <3>1 DEF Listing
      <4>2. f.scope \in Scopes => <<>> \o Following(f.scope, 0) = Following(f.scope, 0)
        BY FollowingFacts, ConcatEmptySeq
      <4>3. Complete(k)
        BY <4>1 DEF Complete
      <4>. HIDE DEF ask, f, k
      <4>. QED
        BY <2>1, <2>4, <4>1, <4>2, <4>3 DEF Listing
    <3>2. CASE f.at = "page"
      <4>1. l.scope = f.scope
        BY <1>2, <3>2 DEF Listing
      <4>. HIDE DEF ask, f, k, l
      <4>2. Complete(k)
        BY <1>2, <2>4, <4>1 DEF Complete
      <4>3. Listing(ask, k)
        BY <1>2, <2>1, <2>4, <3>2, <4>1 DEF Listing
      <4>. QED
        BY <4>2, <4>3
    <3>. QED
      BY <1>4, <3>1, <3>2
  <2>. HIDE DEF k, ask
  <2>6. ListsOK'
    BY <2>2, <2>3, <2>4, <2>5, ListChanges
  <2>. QED
    BY <2>2, <2>6
<1>6. ASSUME GotPage(c), NEW n \in 0 .. Len(v.data), NEW how \in {"no", "done", "stopped"},
             how # "stopped" => n = Len(v.data) /\ (how = "no" <=> MorePages(v)),
             listed' = [listed EXCEPT ![c].ids = @ \o SubSeq(v.data, 1, n), ![c].ended = how],
             IF how = "no" THEN Send(c, next) ELSE Return(c, 1)
      PROVE  Kept(c) /\ ListsOK'
  <2>. DEFINE ids == l.ids \o SubSeq(v.data, 1, n)
              k == [l EXCEPT !.ids = ids, !.ended = how]
  <2>1. f.at = "page" /\ v \in Pages(f)
    <3>1. f.at = "page" /\ v \in Answers(f)
      BY <1>1, <1>6, TopFacts DEF GotPage
    <3>. HIDE DEF v, f
    <3>. QED
      BY <1>1, <3>1 DEF Answers
  <2>2. f.scope \in Scopes /\ v.data \in Seq(Nat)
    BY <1>3, <2>1, PageFacts
  <2>3. l.scope = f.scope /\ l.ids \o Following(f.scope, f.from) = Following(f.scope, 0)
    BY <1>2, <2>1, <2>2 DEF Listing
  <2>4. /\ ids \in Seq(Nat) /\ IsPrefix(ids, Following(f.scope, 0))
        /\ how = "no" => ids \o Following(f.scope, next.from) = Following(f.scope, 0)
        /\ how = "done" => ids = Following(f.scope, 0)
    <3>. DEFINE yielded == l.ids
    <3>1. yielded \in Seq(Nat) /\ yielded \o Following(f.scope, f.from) = Following(f.scope, 0)
      BY <1>3, <2>3
    <3>. HIDE DEF yielded, f, v
    <3>2. /\ yielded \o SubSeq(v.data, 1, n) \in Seq(Nat)
          /\ IsPrefix(yielded \o SubSeq(v.data, 1, n), Following(f.scope, 0))
          /\ n = Len(v.data) /\ MorePages(v) =>
               (yielded \o SubSeq(v.data, 1, n)) \o Following(f.scope, Page(f, v).from)
                 = Following(f.scope, 0)
          /\ n = Len(v.data) /\ ~MorePages(v) =>
               yielded \o SubSeq(v.data, 1, n) = Following(f.scope, 0)
      BY <1>1, <2>1, <3>1, ListPage
    <3>. QED
      BY <1>6, <3>2 DEF yielded
  <2>5. listed' = [listed EXCEPT ![c] = k]
    BY <1>2, <1>6
  <2>. HIDE DEF ids
  <2>6. k \in Listed /\ k.scope = f.scope /\ k.ids = ids /\ k.ended = how
    BY <1>2, <2>3, <2>4 DEF Listed
  <2>7. Complete(k)
    BY <2>4, <2>6 DEF Complete
  <2>8. CASE how = "no"
    <3>1. PICK x \in Nat : next = [f EXCEPT !.retry = 0, !.from = x]
      BY <1>3, <2>2, NextPage
    <3>2. 0 \in Retries
      BY LogixAssumption DEF Retries
    <3>3. FrameOK(next) /\ next.fn = "list" /\ next.at = "page" /\ next.scope = f.scope
      <4>. HIDE DEF next, f
      <4>1. next \in ListFrame /\ next.fn = "list" /\ next.at = f.at /\ next.scope = f.scope
        BY <1>1, <3>1, <3>2 DEF ListFrame
      <4>2. FrameOK(next)
        BY <4>1, PlainFrame
      <4>. QED
        BY <2>1, <4>1, <4>2
    <3>. HIDE DEF k
    <3>4. Listing(next, k)
      <4>. HIDE DEF next, f
      <4>. QED
        BY <2>2, <2>4, <2>6, <2>8, <3>3 DEF Listing
    <3>5. Send(c, next)
      BY <1>6, <2>8
    <3>. HIDE DEF next
    <3>6. Kept(c) /\ Head(stack'[c]) = next
      BY <1>1, <3>3, <3>5, SendKeeps
    <3>. QED
      BY <2>5, <2>6, <2>7, <3>4, <3>6, ListChanges
  <2>9. CASE how # "no"
    <3>1. Kept(c) /\ (stack'[c] # <<>> => Head(stack'[c]).fn # "list")
      BY <1>1, <1>6, <2>9, ReturnKeeps
    <3>. HIDE DEF k
    <3>. QED
      BY <2>5, <2>6, <2>7, <3>1, ListChanges
  <2>. QED
    BY <2>8, <2>9
<1>7. CASE Return(c, 1) /\ listed' = [listed EXCEPT ![c].ended = "gave up"]
  <2>. DEFINE k == [l EXCEPT !.ended = "gave up"]
  <2>1. listed' = [listed EXCEPT ![c] = k]
    BY <1>7
  <2>2. k \in Listed /\ k.scope = l.scope /\ k.ids = l.ids /\ k.ended = "gave up"
    BY <1>2 DEF Listed
  <2>. HIDE DEF k
  <2>3. Complete(k)
    BY <1>2, <2>2 DEF Complete
  <2>4. Kept(c) /\ (stack'[c] # <<>> => Head(stack'[c]).fn # "list")
    BY <1>1, <1>7, ReturnKeeps
  <2>. QED
    BY <2>1, <2>2, <2>3, <2>4, ListChanges
<1>8. ASSUME GotPage(c) PROVE v.data \in Seq(Nat) /\ DOMAIN v.data = 1 .. Len(v.data)
                               /\ Len(v.data) \in Nat
  <2>1. v.data \in Seq(Nat)
    BY <1>1, <1>8, TopFacts, AnswersFacts DEF GotPage
  <2>. QED
    BY <2>1, LenProperties
<1>9. CASE /\ GotPage(c) /\ MorePages(v) /\ Send(c, next)
           /\ listed' = [listed EXCEPT ![c].ids = @ \o SubSeq(v.data, 1, Len(v.data)),
                                       ![c].ended = "no"]
  <2>1. Len(v.data) \in 0 .. Len(v.data)
    BY <1>8, <1>9
  <2>. HIDE DEF next
  <2>. QED
    BY <1>6, <1>9, <2>1
<1>10. CASE /\ GotPage(c) /\ ~MorePages(v) /\ Return(c, 1)
            /\ listed' = [listed EXCEPT ![c].ids = @ \o SubSeq(v.data, 1, Len(v.data)),
                                        ![c].ended = "done"]
  <2>1. Len(v.data) \in 0 .. Len(v.data)
    BY <1>8, <1>10
  <2>. HIDE DEF next
  <2>. QED
    BY <1>6, <1>10, <2>1
<1>11. ASSUME GotPage(c), NEW n \in DOMAIN v.data, Return(c, 1),
              listed' = [listed EXCEPT ![c].ids = @ \o SubSeq(v.data, 1, n), ![c].ended = "stopped"]
       PROVE  Kept(c) /\ ListsOK'
  <2>1. n \in 0 .. Len(v.data)
    <3>1. DOMAIN v.data = 1 .. Len(v.data) /\ Len(v.data) \in Nat
      BY <1>8, <1>11
    <3>2. n \in DOMAIN v.data
      OBVIOUS
    <3>. HIDE DEF v, f
    <3>. QED
      BY ONLY <3>1, <3>2
  <2>. HIDE DEF next
  <2>. QED
    BY <1>6, <1>11, <2>1
<1>. QED
  BY <1>5, <1>7, <1>9, <1>10, <1>11 DEF ListRuns

-----------------------------------------------------------------------------
(* The invariant holds at the start, ...                                     *)
LEMMA InitIInv == Init => IInv
<1>. SUFFICES ASSUME Init PROVE IInv
  OBVIOUS
<1>1. CallOK(<<>>, Waiting, "idle")
  <2>1. <<>> \in Seq(FramesOK) /\ Len(<<>>) = 0
    BY EmptySeq
  <2>. QED
    BY <2>1 DEF CallOK, StackOK, Waiting, Outcomes
<1>2. CallsOK
  BY <1>1 DEF Init, CallsOK, Outcomes
<1>3. CachesOK
  BY DEF Init, CachesOK, TemplateIsWhole, InstanceIds
<1>4. ListsOK
  <2>. DEFINE l == [scope |-> <<>>, ids |-> <<>>, ended |-> "no"]
  <2>1. l \in Listed /\ l.ids = <<>> /\ l.ended = "no"
    BY DEF Listed, Names
  <2>2. Complete(l)
    BY <2>1 DEF Complete
  <2>3. listed = [c \in Calls |-> l]
    BY DEF Init
  <2>. HIDE DEF l
  <2>4. ASSUME NEW c \in Calls PROVE ListOK(stack[c], listed[c], outcome[c])
    BY <2>1, <2>2, <2>3 DEF ListOK, Init
  <2>. QED
    BY <2>1, <2>3, <2>4 DEF ListsOK
<1>. QED
  BY <1>2, <1>3, <1>4 DEF IInv

(* The program's calls are functions as they begin.                          *)
LEMMA OperationsOK ==
  ASSUME NEW f \in Operations
  PROVE  FrameOK(f) /\ (f.fn = "list" => f.at = "start" /\ f.from = 0)
<1>1. IsOperation(f)
  BY OperationsAssumption
<1>2. CASE f.fn = "read"
  BY <1>1, <1>2, BeginningsOK DEF IsOperation
<1>3. CASE f.fn = "write"
  BY <1>1, <1>3, BeginningsOK DEF IsOperation
<1>4. CASE f.fn = "attributes"
  BY <1>1, <1>4, BeginningsOK DEF IsOperation
<1>5. CASE f.fn = "list"
  <2>1. f.scope \in Names /\ f = List(f.scope)
    BY <1>1, <1>5 DEF IsOperation
  <2>2. FrameOK(f)
    BY <2>1, BeginningsOK
  <2>3. f.at = "start" /\ f.from = 0
    BY <2>1 DEF List
  <2>. QED
    BY <2>2, <2>3
<1>6. CASE f.fn = "template"
  BY <1>1, <1>6, BeginningsOK DEF IsOperation
<1>7. CASE f.fn \notin {"read", "write", "attributes", "list", "template"}
  BY <1>1, <1>7, BeginningsOK DEF IsOperation
<1>. QED
  BY <1>2, <1>3, <1>4, <1>5, <1>6, <1>7

LEMMA StartStep == ASSUME IInv, NEW c \in Calls, Start(c) PROVE CallsOK' /\ ListsOK'
<1>1. PICK f \in Operations : stack' = [stack EXCEPT ![c] = <<f>>]
  BY DEF Start
<1>2. /\ outcome[c] = "idle" /\ value' = [value EXCEPT ![c] = Started]
      /\ outcome' = [outcome EXCEPT ![c] = "pending"] /\ UNCHANGED listed
  BY DEF Start
<1>3. FrameOK(f) /\ f \in FramesOK /\ (f.fn = "list" => f.at = "start" /\ f.from = 0)
  BY OperationsOK, FrameFacts
<1>. DEFINE s == <<f>>
<1>4. s \in Seq(FramesOK) /\ Len(s) = 1 /\ s # <<>> /\ Head(s) = f
  BY <1>3
<1>5. Awaits(f, Started)
  BY DEF Awaits, Started
<1>6. stack' = [stack EXCEPT ![c] = s]
  BY <1>1
<1>. HIDE DEF s
<1>7. CallOK(s, Started, "pending")
  BY <1>4, <1>5 DEF CallOK, StackOK, Outcomes
<1>8. /\ CallsOK' /\ stack'[c] = s /\ outcome'[c] = "pending"
      /\ \A d \in Calls \ {c} : stack'[d] = stack[d] /\ outcome'[d] = outcome[d]
  BY <1>2, <1>6, <1>7, OneChanges DEF IInv
<1>9. CallOK(stack[c], value[c], outcome[c])
  BY DEF IInv, CallsOK
<1>10. ListOK(stack[c], listed[c], outcome[c]) /\ listed \in [Calls -> Listed]
  BY DEF IInv, ListsOK
<1>11. listed[c].ids = <<>> /\ listed[c].ended = "no"
  BY <1>2, <1>10 DEF ListOK
<1>12. f.fn = "list" => Listing(f, listed[c])
  BY <1>3, <1>11 DEF Listing
<1>13. ListOK(s, listed[c], "pending")
  BY <1>4, <1>10, <1>12 DEF ListOK
<1>14. ASSUME NEW d \in Calls PROVE ListOK(stack'[d], listed'[d], outcome'[d])
  <2>1. CASE d = c
    BY <1>2, <1>8, <1>13, <2>1
  <2>2. CASE d # c
    BY <1>2, <1>8, <2>2 DEF IInv, ListsOK
  <2>. QED
    BY <2>1, <2>2
<1>15. ListsOK'
  BY <1>2, <1>10, <1>14 DEF ListsOK
<1>. QED
  BY <1>8, <1>15

(* A reply comes to the function that waits for it.                          *)
LEMMA AnswerStep == ASSUME IInv, NEW c \in Calls, Answer(c) PROVE CallsOK' /\ ListsOK'
<1>. DEFINE f == Top(c)
<1>1. stack[c] # <<>> /\ Is(c, "waiting") /\ UNCHANGED <<stack, outcome, listed>>
  BY DEF Answer, Quiet, Runnable
<1>2. PICK v : value' = [value EXCEPT ![c] = v] /\ v \in Answers(f) \cup {Error}
  BY DEF Answer
<1>3. StackOK(stack[c], value[c]) /\ FrameOK(f) /\ Awaits(f, value[c])
      /\ CallOK(stack[c], value[c], outcome[c])
  BY <1>1, TopFacts DEF IInv, CallsOK, CallOK
<1>4. Awaits(f, v)
  <2>1. f.fn = "template" => f.at = "chunk"
    BY <1>1, <1>3 DEF Awaits, Is
  <2>2. CASE v = Error
    BY <2>2 DEF Awaits, Error
  <2>3. CASE v \in Answers(f)
    <3>1. v.is = "reply"
      BY <1>3, <2>3, AnswersFacts
    <3>. QED
      BY <2>1, <2>3, <3>1 DEF Awaits
  <2>. QED
    BY <1>2, <2>2, <2>3
<1>5. StackOK(stack[c], v)
  BY <1>1, <1>3, <1>4 DEF StackOK, Top
<1>6. CallOK(stack[c], v, outcome[c])
  BY <1>3, <1>5 DEF CallOK
<1>7. stack' = [stack EXCEPT ![c] = stack[c]] /\ outcome' = [outcome EXCEPT ![c] = outcome[c]]
  BY <1>1 DEF IInv, CallsOK
<1>8. CallsOK'
  BY <1>2, <1>6, <1>7, OneChanges DEF IInv
<1>9. ListsOK'
  BY <1>1 DEF IInv, ListsOK
<1>. QED
  BY <1>8, <1>9

(* A list that asks again asks for the same page.                            *)
LEMMA RetryLists == ASSUME IInv, NEW c \in Calls, Retry(c) PROVE ListsOK'
<1>. DEFINE f == Top(c)
            again == [f EXCEPT !.retry = @ + 1]
            s == <<again>> \o Tail(stack[c])
<1>1. stack[c] # <<>> /\ f.at = "page" /\ Send(c, again) /\ UNCHANGED listed
  BY DEF Retry
<1>2. Kept(c)
  BY RetryStep
<1>3. stack'[c] = s
  BY <1>1 DEF Send, IInv, CallsOK
<1>4. Head(s) = again
  <2>1. Tail(stack[c]) \in Seq(FramesOK)
    BY <1>1, HeadFacts DEF IInv, CallsOK, CallOK
  <2>2. Tail(stack[c]) \in Seq(FramesOK \cup {again}) /\ <<again>> \in Seq(FramesOK \cup {again})
    BY <2>1, SeqMonotonic
  <2>. DEFINE a == again
              t == Tail(stack[c])
              A == FramesOK \cup {a}
  <2>3. a \in A /\ t \in Seq(A)
    BY <2>2
  <2>. HIDE DEF a, t, A
  <2>4. /\ <<a>> \o t \in Seq(A) /\ Len(<<a>> \o t) = 1 + Len(t)
        /\ (<<a>> \o t)[1] = a /\ Len(t) \in Nat
    BY <2>3, ConcatProperties, LenProperties
  <2>5. Head(<<a>> \o t) = a
    BY <2>4, EmptySeq
  <2>. QED
    BY <2>5 DEF a, t
<1>5. f.fn = "list" => Listing(again, listed[c])
  <2>. SUFFICES ASSUME f.fn = "list" PROVE Listing(again, listed[c])
    OBVIOUS
  <2>1. Listing(f, listed[c]) /\ f \in ListFrame
    BY <1>1, TopFacts, FrameFacts DEF IInv, ListsOK, ListOK, Top
  <2>. HIDE DEF f
  <2>2. again.at = f.at /\ again.scope = f.scope /\ again.from = f.from
    BY <2>1 DEF ListFrame
  <2>. HIDE DEF again
  <2>. QED
    BY <2>1, <2>2 DEF Listing
<1>6. again.fn = f.fn
  <2>1. FrameOK(f) /\ f.fn \in {"lookup", "info", "read", "list"}
    BY <1>1, TopFacts, PagedFacts
  <2>2. "fn" \in DOMAIN f /\ "retry" \in DOMAIN f
    <3>1. f \in LookupFrame \/ f \in InfoFrame \/ f \in ReadFrame \/ f \in ListFrame
      BY <2>1, FrameFacts
    <3>. HIDE DEF f
    <3>. QED
      BY <3>1 DEF LookupFrame, InfoFrame, ReadFrame, ListFrame
  <2>. HIDE DEF f
  <2>. QED
    BY <2>2
<1>. HIDE DEF again, s
<1>7. Head(stack'[c]).fn = "list" => Listing(Head(stack'[c]), listed[c])
  BY <1>3, <1>4, <1>5, <1>6
<1>. QED
  BY <1>1, <1>2, <1>7, ListStays

(* Every other function leaves the lists alone.                              *)
LEMMA OtherLists ==
  ASSUME IInv, NEW c \in Calls, Kept(c), stack[c] # <<>>, Top(c).fn # "list", UNCHANGED listed
  PROVE  ListsOK'
BY ListStays DEF Kept

(* Whichever function runs.                                                  *)
LEMMA RunStep == ASSUME IInv, NEW c \in Calls, Run(c) PROVE CallsOK' /\ ListsOK'
<1>1. CASE Retry(c)
  BY <1>1, RetryStep, RetryLists DEF Kept
<1>2. CASE LookupRuns(c)
  <2>1. stack[c] # <<>> /\ Top(c).fn # "list" /\ UNCHANGED listed
    BY <1>2 DEF LookupRuns, Runs
  <2>. QED
    BY <1>2, <2>1, LookupStep, OtherLists DEF Kept
<1>3. CASE InfoRuns(c)
  <2>1. stack[c] # <<>> /\ Top(c).fn # "list" /\ UNCHANGED listed
    BY <1>3 DEF InfoRuns, Runs
  <2>. QED
    BY <1>3, <2>1, InfoStep, OtherLists DEF Kept
<1>4. CASE AttributesRun(c)
  <2>1. stack[c] # <<>> /\ Top(c).fn # "list" /\ UNCHANGED listed
    BY <1>4 DEF AttributesRun, Runs
  <2>. QED
    BY <1>4, <2>1, AttributesStep, OtherLists DEF Kept
<1>5. CASE SizeRuns(c)
  <2>1. stack[c] # <<>> /\ Top(c).fn # "list" /\ UNCHANGED listed
    BY <1>5 DEF SizeRuns, Runs
  <2>. QED
    BY <1>5, <2>1, SizeStep, OtherLists DEF Kept
<1>6. CASE TemplateAttributesRun(c)
  <2>1. stack[c] # <<>> /\ Top(c).fn # "list" /\ UNCHANGED listed
    BY <1>6 DEF TemplateAttributesRun, Runs
  <2>. QED
    BY <1>6, <2>1, TemplateAttributesStep, OtherLists DEF Kept
<1>7. CASE TemplateRuns(c)
  <2>1. stack[c] # <<>> /\ Top(c).fn # "list" /\ UNCHANGED listed
    BY <1>7 DEF TemplateRuns, Runs
  <2>. QED
    BY <1>7, <2>1, TemplateStep, OtherLists DEF Kept
<1>8. CASE ReadRuns(c)
  <2>1. stack[c] # <<>> /\ Top(c).fn # "list" /\ UNCHANGED listed
    BY <1>8 DEF ReadRuns, Runs
  <2>. QED
    BY <1>8, <2>1, ReadStep, OtherLists DEF Kept
<1>9. CASE FragmentRuns(c)
  <2>1. stack[c] # <<>> /\ Top(c).fn # "list" /\ UNCHANGED listed
    BY <1>9 DEF FragmentRuns, Runs
  <2>. QED
    BY <1>9, <2>1, FragmentStep, OtherLists DEF Kept
<1>10. CASE WriteRuns(c)
  <2>1. stack[c] # <<>> /\ Top(c).fn # "list" /\ UNCHANGED listed
    BY <1>10 DEF WriteRuns, Runs
  <2>. QED
    BY <1>10, <2>1, WriteStep, OtherLists DEF Kept
<1>11. CASE ListRuns(c)
  BY <1>11, ListStep DEF Kept
<1>12. CASE SingleRuns(c)
  <2>1. stack[c] # <<>> /\ Top(c).fn # "list" /\ UNCHANGED listed
    BY <1>12 DEF SingleRuns
  <2>. QED
    BY <1>12, <2>1, SingleStep, OtherLists DEF Kept
<1>. QED
  BY <1>1, <1>2, <1>3, <1>4, <1>5, <1>6, <1>7, <1>8, <1>9, <1>10, <1>11, <1>12 DEF Run

(* The cache of templates changes only when the last reply has come.         *)
LEMMA TemplatesStep ==
  ASSUME IInv, NEW c \in Calls, TemplateRuns(c)
  PROVE  templates' \in [Templates -> Seq(Nat)] /\ TemplateIsWhole'
<1>. DEFINE f == Top(c)
            v == value[c]
<1>1. templates \in [Templates -> Seq(Nat)] /\ TemplateIsWhole
  BY DEF IInv, CachesOK
<1>2. CASE UNCHANGED templates
  BY <1>1, <1>2 DEF TemplateIsWhole
<1>3. CASE /\ Is(c, "reply") /\ ~v.partial
           /\ templates' = [templates EXCEPT ![f.template] = f.data \o v.data]
  <2>1. stack[c] # <<>> /\ f.fn = "template" /\ f \in TemplateFrame /\ FrameOK(f)
        /\ Awaits(f, v)
    BY TopFacts, FrameFacts DEF TemplateRuns, Runs
  <2>2. v \in Chunks(f)
    <3>1. v \in Answers(f) /\ f.at = "chunk"
      BY <1>3, <2>1 DEF Awaits, Is
    <3>. HIDE DEF v, f
    <3>. QED
      BY <2>1, <3>1 DEF Answers
  <2>3. /\ v.data \in Seq(Nat) /\ NextOffset(f, v) = Bytes[f.template]
        /\ f.data \o v.data = Piece(0, NextOffset(f, v))
    BY <1>3, <2>1, <2>2, ChunkFacts
  <2>. DEFINE t == f.template
              d == f.data \o v.data
  <2>4. d \in Seq(Nat) /\ t \in Templates /\ d = Piece(0, Bytes[t])
        /\ templates' = [templates EXCEPT ![t] = d]
    <3>1. f.data \in Seq(Nat) /\ t \in Templates
      BY <2>1 DEF TemplateFrame
    <3>2. d \in Seq(Nat)
      BY <2>3, <3>1, ConcatProperties
    <3>. QED
      BY <1>3, <2>3, <3>1, <3>2
  <2>. HIDE DEF t, d
  <2>. QED
    BY <1>1, <2>4 DEF TemplateIsWhole
<1>. QED
  BY <1>2, <1>3 DEF TemplateRuns

(* Each cache is written by one function.                                    *)
LEMMA CachesStep ==
  ASSUME IInv, NEW c \in Calls, Start(c) \/ Run(c) \/ Answer(c)
  PROVE  CachesOK'
<1>1. /\ symbolId \in [Scopes -> InstanceIds] /\ highest \in [Scopes -> InstanceIds]
      /\ tags \in [Scopes -> Types \cup {NoType}] /\ attributes \subseteq Templates
      /\ templates \in [Templates -> Seq(Nat)] /\ TemplateIsWhole
  BY DEF IInv, CachesOK
<1>2. UNCHANGED templates => TemplateIsWhole'
  BY <1>1 DEF TemplateIsWhole
<1>3. CASE LookupRuns(c)
  <2>1. UNCHANGED <<tags, attributes, templates>>
    BY <1>3 DEF LookupRuns
  <2>. QED
    BY <1>1, <1>2, <1>3, <2>1, LookupStep DEF CachesOK
<1>4. CASE InfoRuns(c)
  <2>1. UNCHANGED <<symbolId, highest, attributes, templates>>
    BY <1>4 DEF InfoRuns
  <2>. QED
    BY <1>1, <1>2, <1>4, <2>1, InfoStep DEF CachesOK
<1>5. CASE TemplateAttributesRun(c)
  <2>1. UNCHANGED <<symbolId, highest, tags, templates>>
    BY <1>5 DEF TemplateAttributesRun
  <2>. QED
    BY <1>1, <1>2, <1>5, <2>1, TemplateAttributesStep DEF CachesOK
<1>6. CASE TemplateRuns(c)
  <2>1. UNCHANGED <<symbolId, highest, tags, attributes>>
    BY <1>6 DEF TemplateRuns
  <2>. QED
    BY <1>1, <1>6, <2>1, TemplatesStep DEF CachesOK
<1>7. CASE UNCHANGED caches
  BY <1>1, <1>2, <1>7 DEF CachesOK, caches
<1>8. \/ LookupRuns(c) \/ InfoRuns(c) \/ TemplateAttributesRun(c) \/ TemplateRuns(c)
      \/ UNCHANGED caches
  BY DEF Start, Answer, Run, Retry, AttributesRun, SizeRuns, ReadRuns, FragmentRuns, WriteRuns,
         ListRuns, SingleRuns
<1>. QED
  BY <1>3, <1>4, <1>5, <1>6, <1>7, <1>8

(* ... and every step keeps it.                                              *)
LEMMA NextIInv == IInv /\ [Next]_vars => IInv'
<1>. SUFFICES ASSUME IInv, [Next]_vars PROVE IInv'
  OBVIOUS
<1>1. CASE UNCHANGED vars
  BY <1>1 DEF IInv, CallsOK, CachesOK, TemplateIsWhole, ListsOK, vars, caches
<1>2. ASSUME NEW c \in Calls, Start(c) \/ Run(c) \/ Answer(c) PROVE IInv'
  <2>1. CallsOK' /\ ListsOK'
    BY <1>2, StartStep, RunStep, AnswerStep
  <2>. QED
    BY <1>2, <2>1, CachesStep DEF IInv
<1>. QED
  BY <1>1, <1>2 DEF Next

(* What the run checks of the types follows.                                 *)
LEMMA InvTypeOK == IInv => TypeOK
<1>. SUFFICES ASSUME IInv PROVE TypeOK
  OBVIOUS
<1>1. ASSUME NEW c \in Calls, NEW f \in Frames(c)
      PROVE  /\ f.fn \in Functions
             /\ f.fn \in {"lookup", "info", "read", "list"} =>
                  f.from \in Nat /\ f.retry \in 0 .. MaxRetry
             /\ f.fn \in {"template", "template attributes"} => f.template \in Templates
  <2>1. stack[c] \in Seq(FramesOK)
    BY DEF IInv, CallsOK, CallOK, StackOK
  <2>2. FrameOK(f)
    BY <2>1, LenProperties, ElementOfSeq DEF Frames, FramesOK
  <2>3. f.fn \in Functions
    BY <2>2, FrameFacts
  <2>4. f.fn \in {"lookup", "info", "read", "list"} =>
          f.from \in Nat /\ f.retry \in 0 .. MaxRetry
    <3>1. f.fn \in {"lookup", "info", "read", "list"} =>
            f \in LookupFrame \/ f \in InfoFrame \/ f \in ReadFrame \/ f \in ListFrame
      BY <2>2, FrameFacts
    <3>. QED
      BY <3>1 DEF LookupFrame, InfoFrame, ReadFrame, ListFrame, Retries
  <2>5. f.fn \in {"template", "template attributes"} => f.template \in Templates
    <3>1. f.fn \in {"template", "template attributes"} =>
            f \in TemplateFrame \/ f \in TemplateAttributesFrame
      BY <2>2, FrameFacts
    <3>. QED
      BY <3>1 DEF TemplateFrame, TemplateAttributesFrame
  <2>. QED
    BY <2>3, <2>4, <2>5
<1>2. ASSUME NEW c \in Calls
      PROVE  /\ value[c].is \in {"started", "waiting", "thrown", "error", "returned", "reply"}
             /\ stack[c] = <<>> => outcome[c] # "pending" /\ Is(c, "waiting")
  <2>1. CallOK(stack[c], value[c], outcome[c])
    BY DEF IInv, CallsOK
  <2>. QED
    BY <2>1 DEF CallOK, StackOK, Awaits, Is
<1>3. outcome \in [Calls -> {"idle", "pending", "resolved", "rejected", "lost"}]
  BY DEF IInv, CallsOK, Outcomes
<1>4. /\ symbolId \in [Scopes -> Nat \cup {None}] /\ highest \in [Scopes -> Nat \cup {None}]
      /\ tags \in [Scopes -> Types \cup {NoType}]
      /\ attributes \subseteq Templates /\ templates \in [Templates -> Seq(Nat)]
  BY DEF IInv, CachesOK, InstanceIds
<1>5. ASSUME NEW c \in Calls PROVE listed[c].ended \in {"no", "done", "stopped", "gave up"}
  BY DEF IInv, ListsOK, Listed
<1>. QED
  BY <1>1, <1>2, <1>3, <1>4, <1>5 DEF TypeOK

(* The state stays of its types: each function's variables, what it awaits   *)
(* and what the caches hold, whatever the controller answers.                *)
THEOREM TypesStay == Spec => []TypeOK
<1>. QED
  BY InitIInv, NextIInv, InvTypeOK, PTL DEF Spec

(* listTags yields the symbols of its scope in the order of their ids, each  *)
(* once and none left out, however the controller cuts the list into pages,  *)
(* whichever requests fail and whenever the caller stops: what it has        *)
(* yielded is always the beginning of the list, and all of it when it ends   *)
(* by itself.                                                                *)
THEOREM ListsAreComplete == Spec => []ListIsComplete
<1>1. IInv => ListIsComplete
  BY DEF IInv, ListsOK, ListOK, Complete, ListIsComplete
<1>. QED
  BY InitIInv, NextIInv, <1>1, PTL DEF Spec

(* A template in the cache was built from its whole definition               *)
(* (readTemplate), whatever calls run at once, however the device cuts the   *)
(* definition into chunks and whichever requests fail.                       *)
THEOREM TemplatesAreWhole == Spec => []TemplateIsWhole
<1>1. IInv => TemplateIsWhole
  BY DEF IInv, CachesOK
<1>. QED
  BY InitIInv, NextIInv, <1>1, PTL DEF Spec
=============================================================================

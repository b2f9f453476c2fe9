------------------------ MODULE EagleMonitorProofs ------------------------
EXTENDS EagleMonitor, EagleSemantic, TLAPS, SequenceTheorems, FiniteSetTheorems,
        WellFoundedInduction

(* The naturals have no proper subset that is closed under successor: the   *)
(* induction of the proofs below, which are about lengths of sequences.     *)
LEMMA Induction ==
  ASSUME NEW S \in SUBSET Nat, 0 \in S, \A n \in S : n + 1 \in S
  PROVE  \A n \in Nat : n \in S
<1>1. SUFFICES ASSUME Nat \ S # {} PROVE FALSE
  OBVIOUS
<1>2. PICK m \in Nat \ S : \A k \in Nat \ S : ~ (<<k, m>> \in OpToRel(<, Nat))
  <2>1. Nat \ S \subseteq Nat
    OBVIOUS
  <2> QED BY <1>1, <2>1, NatLessThanWellFounded, WFMin
<1>3. \A k \in Nat \ S : ~(k < m)
  BY <1>2 DEF OpToRel
<1>4. m # 0
  BY <1>2
<1>5. m - 1 \in S
  BY <1>3, <1>4
<1> QED BY <1>5, <1>4

(* The same for sequences, one element at a time.                           *)
LEMMA Sequences ==
  ASSUME NEW T, NEW P \in SUBSET Seq(T), <<>> \in P,
         \A s \in P : \A e \in T : Append(s, e) \in P
  PROVE  \A s \in Seq(T) : s \in P
<1> DEFINE S == {n \in Nat : \A s \in Seq(T) : Len(s) = n => s \in P}
<1>1. 0 \in S
  <2>1. \A s \in Seq(T) : Len(s) = 0 => s = <<>>
    OBVIOUS
  <2> QED BY <2>1
<1>2. ASSUME NEW n \in S PROVE n + 1 \in S
  <2>1. SUFFICES ASSUME NEW s \in Seq(T), Len(s) = n + 1 PROVE s \in P
    OBVIOUS
  <2>2. n \in Nat /\ s # <<>>
    BY <2>1
  <2>3. PICK k \in Seq(T), e \in T : s = Append(k, e)
    BY <2>2, SequenceEmptyOrAppend
  <2>4. Len(k) = n
    BY <2>1, <2>2, <2>3
  <2>5. k \in P
    BY <2>4
  <2> QED BY <2>3, <2>5
<1>3. S \in SUBSET Nat
  OBVIOUS
<1>4. \A n \in Nat : n \in S
  <2> HIDE DEF S
  <2> QED BY <1>1, <1>2, <1>3, Induction
<1>5. ASSUME NEW s \in Seq(T) PROVE s \in P
  <2>1. Len(s) \in Nat
    OBVIOUS
  <2> QED BY <1>4, <2>1
<1> QED BY <1>5

-----------------------------------------------------------------------------
(* The elements of a sequence that are in a set.  The recursive function    *)
(* exists and is the only one, so it obeys its equation.                    *)
IsOnly(f, s, S) ==
  f = [i \in 0..Len(s) |->
         IF i = 0 THEN <<>> ELSE IF s[i] \in S THEN Append(f[i - 1], s[i]) ELSE f[i - 1]]

LEMMA OnlyChoose ==
  ASSUME NEW s, NEW S
  PROVE  Only(s, S) = (CHOOSE f : IsOnly(f, s, S))[Len(s)]
  BY Zenon DEF Only, IsOnly

LEMMA OnlyUnique ==
  ASSUME NEW s, NEW k, NEW S, Len(s) \in Nat, Len(k) \in Nat, Len(s) <= Len(k),
         \A i \in 1..Len(s) : s[i] = k[i],
         NEW f, IsOnly(f, s, S), NEW g, IsOnly(g, k, S)
  PROVE  f[Len(s)] = g[Len(s)]
<1> DEFINE P == {n \in Nat : n <= Len(s) => f[n] = g[n]}
<1>1. 0 \in P
  BY DEF IsOnly
<1>2. ASSUME NEW n \in P PROVE n + 1 \in P
  <2>1. SUFFICES ASSUME n + 1 <= Len(s) PROVE f[n + 1] = g[n + 1]
    OBVIOUS
  <2>2. n \in Nat /\ f[n] = g[n]
    BY <2>1
  <2>3. n + 1 \in 1..Len(s) /\ n + 1 \in 0..Len(s) /\ n + 1 \in 0..Len(k) /\ n + 1 # 0
        /\ (n + 1) - 1 = n
    BY <2>1, <2>2
  <2>4. s[n + 1] = k[n + 1]
    BY <2>3
  <2>5. f[n + 1] = IF s[n + 1] \in S THEN Append(f[n], s[n + 1]) ELSE f[n]
    BY <2>3 DEF IsOnly
  <2>6. g[n + 1] = IF k[n + 1] \in S THEN Append(g[n], k[n + 1]) ELSE g[n]
    BY <2>3 DEF IsOnly
  <2> QED BY <2>2, <2>4, <2>5, <2>6
<1>3. P \in SUBSET Nat
  OBVIOUS
<1>4. \A n \in Nat : n \in P
  <2> HIDE DEF P
  <2> QED BY <1>1, <1>2, <1>3, Induction
<1> QED BY <1>4

(* It can be taken one element further.                                     *)
LEMMA OnlyLonger ==
  ASSUME NEW T, NEW s \in Seq(T), NEW e \in T, NEW S, NEW f, IsOnly(f, s, S)
  PROVE  \E g : IsOnly(g, Append(s, e), S)
<1> DEFINE k == Append(s, e)
           last == IF e \in S THEN Append(f[Len(s)], e) ELSE f[Len(s)]
           g == [i \in 0..Len(k) |-> IF i = Len(k) THEN last ELSE f[i]]
           r == [i \in 0..Len(k) |->
                   IF i = 0 THEN <<>>
                   ELSE IF k[i] \in S THEN Append(g[i - 1], k[i]) ELSE g[i - 1]]
<1>1. Len(s) \in Nat /\ Len(k) = Len(s) + 1 /\ k[Len(k)] = e
      /\ \A i \in 1..Len(s) : k[i] = s[i]
  OBVIOUS
<1>2a. \A i \in 0..Len(s) :
         f[i] = IF i = 0 THEN <<>> ELSE IF s[i] \in S THEN Append(f[i - 1], s[i]) ELSE f[i - 1]
  BY Zenon DEF IsOnly
<1>2. f[0] = <<>>
      /\ \A i \in 1..Len(s) : f[i] = IF s[i] \in S THEN Append(f[i - 1], s[i]) ELSE f[i - 1]
  <2>1. Len(s) \in Nat
    OBVIOUS
  <2>2. 0 \in 0..Len(s)
    BY <2>1
  <2>3. \A i \in 1..Len(s) : i \in 0..Len(s) /\ i # 0
    BY <2>1
  <2> QED BY <1>2a, <2>2, <2>3, Zenon
<1> HIDE DEF k
<1>3. \A i \in 0..Len(k) : g[i] = IF i = Len(k) THEN last ELSE f[i]
  OBVIOUS
<1> HIDE DEF g
<1>4. ASSUME NEW i \in 0..Len(k)
      PROVE  g[i] = IF i = 0 THEN <<>>
                    ELSE IF k[i] \in S THEN Append(g[i - 1], k[i]) ELSE g[i - 1]
  <2>1. CASE i = 0
    <3>1. 0 # Len(k) /\ 0 \in 0..Len(k)
      BY <1>1
    <3>2. g[0] = f[0]
      BY <1>3, <3>1, Zenon
    <3> QED BY <1>2, <2>1, <3>2
  <2>2. CASE i = Len(k)
    <3>1. i # 0 /\ i - 1 = Len(s) /\ i - 1 \in 0..Len(k) /\ i - 1 # Len(k)
      BY <2>2, <1>1
    <3>2. g[i - 1] = f[Len(s)]
      BY <3>1, <1>3
    <3>3. g[i] = last
      BY <2>2, <1>3
    <3> QED BY <3>1, <3>2, <3>3, <2>2, <1>1, Zenon
  <2>3. CASE i # 0 /\ i # Len(k)
    <3>1. i \in 1..Len(s) /\ i - 1 \in 0..Len(k) /\ i - 1 # Len(k)
      BY <2>3, <1>1
    <3>2. g[i - 1] = f[i - 1] /\ g[i] = f[i]
      BY <2>3, <3>1, <1>3
    <3> QED BY <3>1, <3>2, <2>3, <1>1, <1>2
  <2> QED BY <2>1, <2>2, <2>3
<1>5. g = [i \in 0..Len(k) |-> g[i]]
  BY DEF g
<1>6. g = r
  BY <1>4, <1>5
<1>7. IsOnly(g, k, S)
  BY <1>6 DEF IsOnly
<1> QED BY <1>7 DEF k

LEMMA OnlyExists ==
  ASSUME NEW T, NEW S
  PROVE  \A s \in Seq(T) : \E f : IsOnly(f, s, S)
<1> DEFINE P == {s \in Seq(T) : \E f : IsOnly(f, s, S)}
<1>1. <<>> \in P
  <2> DEFINE f == [i \in 0..0 |-> <<>>]
  <2>1. IsOnly(f, <<>>, S)
    BY DEF IsOnly
  <2> QED BY <2>1
<1>2. ASSUME NEW s \in P, NEW e \in T PROVE Append(s, e) \in P
  <2>1. \E f : IsOnly(f, Append(s, e), S)
    BY OnlyLonger
  <2> QED BY <2>1
<1>3. P \in SUBSET Seq(T)
  OBVIOUS
<1>4. \A s \in Seq(T) : s \in P
  <2> HIDE DEF P
  <2> QED BY <1>1, <1>2, <1>3, Sequences
<1> QED BY <1>4

LEMMA OnlyIs ==
  ASSUME NEW T, NEW s \in Seq(T), NEW S
  PROVE  \E f : IsOnly(f, s, S) /\ Only(s, S) = f[Len(s)]
<1>1. \E f : IsOnly(f, s, S)
  BY OnlyExists
<1>2. IsOnly(CHOOSE f : IsOnly(f, s, S), s, S)
  BY <1>1, Zenon
<1> QED BY <1>2, OnlyChoose, Zenon

LEMMA OnlyEmpty ==
  ASSUME NEW S
  PROVE  Only(<<>>, S) = <<>>
<1>1. PICK f : IsOnly(f, <<>>, S) /\ Only(<<>>, S) = f[Len(<<>>)]
  <2>1. <<>> \in Seq({})
    OBVIOUS
  <2> QED BY <2>1, OnlyIs
<1> QED BY <1>1 DEF IsOnly

LEMMA OnlyAppend ==
  ASSUME NEW T, NEW s \in Seq(T), NEW e \in T, NEW S
  PROVE  Only(Append(s, e), S) = IF e \in S THEN Append(Only(s, S), e) ELSE Only(s, S)
<1> DEFINE k == Append(s, e)
<1>1. /\ k \in Seq(T) /\ Len(s) \in Nat /\ Len(k) = Len(s) + 1 /\ k[Len(k)] = e
      /\ \A i \in 1..Len(s) : s[i] = k[i]
  OBVIOUS
<1> HIDE DEF k
<1>2. PICK f : IsOnly(f, s, S) /\ Only(s, S) = f[Len(s)]
  BY OnlyIs
<1>3. PICK g : IsOnly(g, k, S) /\ Only(k, S) = g[Len(k)]
  BY <1>1, OnlyIs
<1>4. f[Len(s)] = g[Len(s)]
  <2>1. Len(s) <= Len(k) /\ Len(k) \in Nat
    BY <1>1
  <2>2. Len(s) \in Nat /\ \A i \in 1..Len(s) : s[i] = k[i]
    BY <1>1
  <2>3. IsOnly(f, s, S) /\ IsOnly(g, k, S)
    BY <1>2, <1>3
  <2> QED BY <2>1, <2>2, <2>3, OnlyUnique
<1>5. g[Len(k)] = IF k[Len(k)] \in S THEN Append(g[Len(k) - 1], k[Len(k)]) ELSE g[Len(k) - 1]
  <2>1. Len(k) \in 0..Len(k) /\ Len(k) # 0
    BY <1>1
  <2> QED BY <1>3, <2>1 DEF IsOnly
<1>6. Len(k) - 1 = Len(s)
  BY <1>1
<1> QED BY <1>1, <1>2, <1>3, <1>4, <1>5, <1>6 DEF k

LEMMA ToSetAppend ==
  ASSUME NEW T, NEW s \in Seq(T), NEW e
  PROVE  ToSet(Append(s, e)) = ToSet(s) \cup {e}
<1>1. Len(s) \in Nat /\ DOMAIN s = 1..Len(s)
  OBVIOUS
<1>2. DOMAIN Append(s, e) = 1..(Len(s) + 1)
  OBVIOUS
<1>3. \A i \in 1..Len(s) : Append(s, e)[i] = s[i]
  OBVIOUS
<1>4. Append(s, e)[Len(s) + 1] = e
  OBVIOUS
<1>5. \A i \in 1..(Len(s) + 1) : i = Len(s) + 1 \/ i \in 1..Len(s)
  BY <1>1
<1>6. 1..Len(s) \subseteq 1..(Len(s) + 1) /\ Len(s) + 1 \in 1..(Len(s) + 1)
  BY <1>1
<1> QED BY <1>1, <1>2, <1>3, <1>4, <1>5, <1>6 DEF ToSet

(* What is kept, and how much of it.                                        *)
LEMMA OnlyKeeps ==
  ASSUME NEW T, NEW S
  PROVE  \A s \in Seq(T) :
           /\ Only(s, S) \in Seq(T)
           /\ ToSet(Only(s, S)) = ToSet(s) \cap S
           /\ Len(Only(s, S)) <= Len(s)
           /\ Len(Only(s, S)) = Len(s) => Only(s, S) = s
<1> DEFINE Good(s) == /\ Only(s, S) \in Seq(T)
                      /\ ToSet(Only(s, S)) = ToSet(s) \cap S
                      /\ Len(Only(s, S)) <= Len(s)
                      /\ Len(Only(s, S)) = Len(s) => Only(s, S) = s
           P == {s \in Seq(T) : Good(s)}
<1>1. <<>> \in P
  <2>1. <<>> \in Seq(T) /\ ToSet(<<>>) = {} /\ Len(<<>>) = 0
    BY DEF ToSet
  <2>2. Only(<<>>, S) = <<>>
    BY OnlyEmpty
  <2>3. ToSet(<<>>) = ToSet(<<>>) \cap S /\ Len(<<>>) <= Len(<<>>)
    BY <2>1
  <2> QED BY <2>1, <2>2, <2>3
<1>2. ASSUME NEW s \in P, NEW e \in T PROVE Append(s, e) \in P
  <2>1. s \in Seq(T) /\ Good(s)
    OBVIOUS
  <2> DEFINE o == Only(s, S)  k == Append(s, e)
  <2>2. /\ o \in Seq(T) /\ ToSet(o) = ToSet(s) \cap S /\ Len(o) <= Len(s)
        /\ Len(o) = Len(s) => o = s
    BY <2>1
  <2>3. Only(k, S) = IF e \in S THEN Append(o, e) ELSE o
    BY <2>1, OnlyAppend
  <2>4. k \in Seq(T) /\ ToSet(k) = ToSet(s) \cup {e} /\ Len(k) = Len(s) + 1 /\ Len(s) \in Nat
    BY <2>1, ToSetAppend
  <2>5. Append(o, e) \in Seq(T) /\ ToSet(Append(o, e)) = ToSet(o) \cup {e}
        /\ Len(Append(o, e)) = Len(o) + 1 /\ Len(o) \in Nat
    BY <2>2, ToSetAppend
  <2>6. o = s => Append(o, e) = k
    OBVIOUS
  <2> HIDE DEF o, k
  <2>7. CASE e \in S
    <3>1. Only(k, S) = Append(o, e)
      BY <2>3, <2>7
    <3>2. ToSet(Only(k, S)) = ToSet(k) \cap S
      BY <3>1, <2>2, <2>4, <2>5, <2>7
    <3>3. Good(k)
      BY <3>1, <3>2, <2>2, <2>4, <2>5, <2>6
    <3> QED BY <3>3, <2>4 DEF k
  <2>8. CASE e \notin S
    <3>1. Only(k, S) = o
      BY <2>3, <2>8
    <3>2. ToSet(Only(k, S)) = ToSet(k) \cap S
      BY <3>1, <2>2, <2>4, <2>8
    <3>3. Good(k)
      BY <3>1, <3>2, <2>2, <2>4, <2>5
    <3> QED BY <3>3, <2>4 DEF k
  <2> QED BY <2>7, <2>8
<1>3. P \in SUBSET Seq(T)
  OBVIOUS
<1>4. \A s \in Seq(T) : s \in P
  <2> HIDE DEF P
  <2> QED BY <1>1, <1>2, <1>3, Sequences
<1> QED BY <1>4

(* No two elements have the same key.                                       *)
Distinct(s) == \A i, j \in DOMAIN s : s[i].key = s[j].key => i = j

LEMMA DistinctAppend ==
  ASSUME NEW T, NEW s \in Seq(T), NEW e
  PROVE  Distinct(Append(s, e)) <=> Distinct(s) /\ \A n \in ToSet(s) : n.key # e.key
<1>1. Len(s) \in Nat /\ DOMAIN s = 1..Len(s)
  OBVIOUS
<1> DEFINE k == Append(s, e)
<1>2. /\ DOMAIN k = 1..(Len(s) + 1) /\ k[Len(s) + 1] = e
      /\ \A i \in 1..Len(s) : k[i] = s[i]
  OBVIOUS
<1> HIDE DEF k
<1>3. \A i \in DOMAIN k : i = Len(s) + 1 \/ i \in DOMAIN s
  BY <1>1, <1>2
<1>4. Len(s) + 1 \in DOMAIN k /\ Len(s) + 1 \notin DOMAIN s /\ DOMAIN s \subseteq DOMAIN k
  BY <1>1, <1>2
<1>5. Distinct(k) => Distinct(s) /\ \A n \in ToSet(s) : n.key # e.key
  BY <1>1, <1>2, <1>4 DEF Distinct, ToSet
<1>6. ASSUME Distinct(s), \A n \in ToSet(s) : n.key # e.key PROVE Distinct(k)
  <2>1. SUFFICES ASSUME NEW i \in DOMAIN k, NEW j \in DOMAIN k, k[i].key = k[j].key
                 PROVE  i = j
    BY DEF Distinct
  <2>2. \A m \in DOMAIN s : s[m].key # e.key
    BY <1>6 DEF ToSet
  <2> QED BY <1>1, <1>2, <1>3, <1>6, <2>1, <2>2 DEF Distinct
<1> QED BY <1>5, <1>6 DEF k

LEMMA OnlyDistinct ==
  ASSUME NEW T, NEW S
  PROVE  \A s \in Seq(T) : Distinct(s) => Distinct(Only(s, S))
<1> DEFINE P == {s \in Seq(T) : Distinct(s) => Distinct(Only(s, S))}
<1>1. <<>> \in P
  BY OnlyEmpty DEF Distinct
<1>2. ASSUME NEW s \in P, NEW e \in T PROVE Append(s, e) \in P
  <2>1. s \in Seq(T) /\ Append(s, e) \in Seq(T) /\ (Distinct(s) => Distinct(Only(s, S)))
    OBVIOUS
  <2>2. Only(Append(s, e), S) = IF e \in S THEN Append(Only(s, S), e) ELSE Only(s, S)
    BY <2>1, OnlyAppend
  <2>3. Only(s, S) \in Seq(T) /\ ToSet(Only(s, S)) \subseteq ToSet(s)
    BY <2>1, OnlyKeeps
  <2>4. Distinct(Append(s, e)) => Distinct(s) /\ \A n \in ToSet(s) : n.key # e.key
    BY <2>1, DistinctAppend
  <2>5. Distinct(Only(s, S)) /\ (\A n \in ToSet(s) : n.key # e.key)
          => Distinct(Append(Only(s, S), e))
    BY <2>3, DistinctAppend
  <2>6. Distinct(Append(s, e)) => Distinct(Only(Append(s, e), S))
    BY <2>1, <2>2, <2>4, <2>5
  <2> QED BY <2>1, <2>6
<1>3. P \in SUBSET Seq(T)
  OBVIOUS
<1>4. \A s \in Seq(T) : s \in P
  <2> HIDE DEF P
  <2> QED BY <1>1, <1>2, <1>3, Sequences
<1> QED BY <1>4

(* Two sequences that have elements of their sets at the same places have   *)
(* as many of them.                                                         *)
LEMMA OnlySame ==
  ASSUME NEW T, NEW A, NEW B
  PROVE  \A s \in Seq(T) : \A k \in Seq(T) :
           /\ Len(k) = Len(s)
           /\ \A i \in 1..Len(s) : k[i] \in A <=> s[i] \in B
           => Len(Only(k, A)) = Len(Only(s, B))
<1> DEFINE Alike(s, k) == /\ Len(k) = Len(s)
                          /\ \A i \in 1..Len(s) : k[i] \in A <=> s[i] \in B
           Good(s, k) == Alike(s, k) => Len(Only(k, A)) = Len(Only(s, B))
           P == {s \in Seq(T) : \A k \in Seq(T) : Good(s, k)}
<1>1. <<>> \in P
  <2>1. SUFFICES ASSUME NEW k \in Seq(T), Len(k) = 0
                 PROVE  Len(Only(k, A)) = Len(Only(<<>>, B))
    OBVIOUS
  <2>2. k = <<>>
    BY <2>1
  <2> QED BY <2>2, OnlyEmpty
<1>2. ASSUME NEW s \in P, NEW e \in T PROVE Append(s, e) \in P
  <2>1. s \in Seq(T) /\ Append(s, e) \in Seq(T) /\ \A k \in Seq(T) : Good(s, k)
    OBVIOUS
  <2>2. SUFFICES ASSUME NEW k \in Seq(T), Alike(Append(s, e), k)
                 PROVE  Len(Only(k, A)) = Len(Only(Append(s, e), B))
    BY <2>1
  <2>3. Len(s) \in Nat /\ Len(Append(s, e)) = Len(s) + 1 /\ Append(s, e)[Len(s) + 1] = e
        /\ \A i \in 1..Len(s) : Append(s, e)[i] = s[i]
    BY <2>1
  <2>4. Len(k) = Len(s) + 1
    BY <2>2, <2>3
  <2>5. PICK h \in Seq(T), d \in T : k = Append(h, d)
    <3>1. k # <<>>
      BY <2>3, <2>4
    <3> QED BY <3>1, SequenceEmptyOrAppend
  <2>6. Len(h) = Len(s) /\ k[Len(s) + 1] = d /\ \A i \in 1..Len(s) : k[i] = h[i]
    BY <2>3, <2>4, <2>5
  <2>7. d \in A <=> e \in B
    <3>1. Len(s) + 1 \in 1..Len(Append(s, e))
      BY <2>3
    <3> QED BY <2>2, <2>3, <2>6, <3>1
  <2>8. Alike(s, h)
    <3>1. \A i \in 1..Len(s) : i \in 1..Len(Append(s, e))
      BY <2>3
    <3> QED BY <2>2, <2>3, <2>6, <3>1
  <2>9. Len(Only(h, A)) = Len(Only(s, B))
    BY <2>1, <2>8
  <2>10. Only(k, A) = IF d \in A THEN Append(Only(h, A), d) ELSE Only(h, A)
    BY <2>5, OnlyAppend
  <2>11. Only(Append(s, e), B) = IF e \in B THEN Append(Only(s, B), e) ELSE Only(s, B)
    BY <2>1, OnlyAppend
  <2>12. Only(h, A) \in Seq(T) /\ Only(s, B) \in Seq(T)
    BY <2>1, OnlyKeeps
  <2>13. Len(Append(Only(h, A), d)) = Len(Append(Only(s, B), e))
    BY <2>9, <2>12
  <2> QED BY <2>7, <2>9, <2>10, <2>11, <2>13
<1>3. P \in SUBSET Seq(T)
  OBVIOUS
<1>4. \A s \in Seq(T) : s \in P
  <2> HIDE DEF P
  <2> QED BY <1>1, <1>2, <1>3, Sequences
<1> QED BY <1>4

(* Of what is in a set, what is in a part of it.                            *)
LEMMA OnlyOfOnly ==
  ASSUME NEW T, NEW A, NEW B, A \subseteq B
  PROVE  \A s \in Seq(T) : Only(Only(s, B), A) = Only(s, A)
<1> DEFINE P == {s \in Seq(T) : Only(Only(s, B), A) = Only(s, A)}
<1>1. <<>> \in P
  BY OnlyEmpty
<1>2. ASSUME NEW s \in P, NEW e \in T PROVE Append(s, e) \in P
  <2>1. s \in Seq(T) /\ Append(s, e) \in Seq(T) /\ Only(Only(s, B), A) = Only(s, A)
    OBVIOUS
  <2>2. Only(Append(s, e), B) = IF e \in B THEN Append(Only(s, B), e) ELSE Only(s, B)
    BY <2>1, OnlyAppend
  <2>3. Only(Append(s, e), A) = IF e \in A THEN Append(Only(s, A), e) ELSE Only(s, A)
    BY <2>1, OnlyAppend
  <2>4. Only(s, B) \in Seq(T)
    BY <2>1, OnlyKeeps
  <2>5. Only(Append(Only(s, B), e), A)
          = IF e \in A THEN Append(Only(Only(s, B), A), e) ELSE Only(Only(s, B), A)
    BY <2>4, OnlyAppend
  <2> QED BY <2>1, <2>2, <2>3, <2>5
<1>3. P \in SUBSET Seq(T)
  OBVIOUS
<1>4. \A s \in Seq(T) : s \in P
  <2> HIDE DEF P
  <2> QED BY <1>1, <1>2, <1>3, Sequences
<1> QED BY <1>4

-----------------------------------------------------------------------------
(* Starts, counted by age.                                                  *)
Ages == -1..StartWindow
Upto(w) == 0..w
Count(s, w) == Len(Only(s, Upto(w)))
AtLeast(b, a) == \A w \in Ages : Count(a, w) <= Count(b, w)

LEMMA WindowIsNat == StartWindow \in Nat /\ StartLimit \in Nat
  BY BoundsAssumption

LEMMA CountIsNat ==
  ASSUME NEW s \in Seq(Nat), NEW w
  PROVE  Count(s, w) \in Nat /\ Count(s, w) <= Len(s)
<1>1. Only(s, Upto(w)) \in Seq(Nat) /\ Len(Only(s, Upto(w))) <= Len(s)
  BY OnlyKeeps
<1> QED BY <1>1 DEF Count

LEMMA CountAppend ==
  ASSUME NEW s \in Seq(Nat), NEW w \in Ages
  PROVE  Count(Append(s, 0), w) = IF w = -1 THEN Count(s, w) ELSE Count(s, w) + 1
<1>1. Only(Append(s, 0), Upto(w))
        = IF 0 \in Upto(w) THEN Append(Only(s, Upto(w)), 0) ELSE Only(s, Upto(w))
  BY OnlyAppend
<1>2. 0 \in Upto(w) <=> w # -1
  BY WindowIsNat DEF Ages, Upto
<1>3. Only(s, Upto(w)) \in Seq(Nat)
  BY OnlyKeeps
<1> QED BY <1>1, <1>2, <1>3 DEF Count

(* Who starts another takes note of it.                                     *)
LEMMA AtLeastAppend ==
  ASSUME NEW a \in Seq(Nat), NEW b \in Seq(Nat), AtLeast(b, a)
  PROVE  AtLeast(Append(b, 0), Append(a, 0)) /\ AtLeast(Append(b, 0), a)
<1>1. ASSUME NEW w \in Ages
      PROVE  /\ Count(Append(a, 0), w) <= Count(Append(b, 0), w)
             /\ Count(a, w) <= Count(Append(b, 0), w)
  <2>1. Count(a, w) <= Count(b, w) /\ Count(a, w) \in Nat /\ Count(b, w) \in Nat
    BY CountIsNat DEF AtLeast
  <2>2. CASE w # -1
    <3>1. Count(Append(a, 0), w) = Count(a, w) + 1 /\ Count(Append(b, 0), w) = Count(b, w) + 1
      BY <2>2, CountAppend
    <3> QED BY <2>1, <3>1
  <2>3. CASE w = -1
    <3>1. Count(Append(a, 0), w) = Count(a, w) /\ Count(Append(b, 0), w) = Count(b, w)
      BY <2>3, CountAppend
    <3> QED BY <2>1, <3>1
  <2> QED BY <2>2, <2>3
<1> QED BY <1>1 DEF AtLeast

(* What is older than the window does not count.                            *)
LEMMA AtLeastRecent ==
  ASSUME NEW a \in Seq(Nat), NEW b \in Seq(Nat), AtLeast(b, a)
  PROVE  AtLeast(Recent(b), a) /\ AtLeast(b, Recent(a))
<1>1. ASSUME NEW w \in Ages
      PROVE  Count(Recent(a), w) = Count(a, w) /\ Count(Recent(b), w) = Count(b, w)
  <2>1. Upto(w) \subseteq Upto(StartWindow)
    BY WindowIsNat DEF Ages, Upto
  <2>2. Recent(a) = Only(a, Upto(StartWindow)) /\ Recent(b) = Only(b, Upto(StartWindow))
    BY DEF Recent, Upto
  <2> QED BY <2>1, <2>2, OnlyOfOnly DEF Count
<1> QED BY <1>1 DEF AtLeast

LEMMA InUpto ==
  ASSUME NEW n \in Nat, NEW w \in Int
  PROVE  n \in Upto(w) <=> n <= w
BY DEF Upto

(* As time passes, each start is one older.                                 *)
LEMMA CountOlder ==
  ASSUME NEW s \in Seq(Nat), NEW k \in Seq(Nat), Len(k) = Len(s), NEW w \in Ages,
         \A i \in 1..Len(s) : k[i] = s[i] + 1 \/ (k[i] > StartWindow /\ s[i] + 1 > StartWindow)
  PROVE  Count(k, w) = Count(s, IF w = -1 THEN w ELSE w - 1)
<1> DEFINE v == IF w = -1 THEN w ELSE w - 1
<1>1. ASSUME NEW i \in 1..Len(s)
      PROVE  k[i] \in Upto(w) <=> s[i] \in Upto(v)
  <2>1. k[i] \in Nat /\ s[i] \in Nat
    OBVIOUS
  <2>2. w \in Int /\ v \in Int /\ w <= StartWindow
    BY WindowIsNat DEF Ages
  <2>3. (k[i] \in Upto(w) <=> k[i] <= w) /\ (s[i] \in Upto(v) <=> s[i] <= v)
    BY <2>1, <2>2, InUpto
  <2>4. k[i] = s[i] + 1 \/ (k[i] > StartWindow /\ s[i] + 1 > StartWindow)
    OBVIOUS
  <2>5. v = IF w = -1 THEN w ELSE w - 1
    OBVIOUS
  <2>6. w \in Nat \/ w = -1
    BY <2>2 DEF Ages
  <2> DEFINE x == s[i]  y == k[i]
  <2>7. y <= w <=> x <= v
    <3>1. x \in Nat /\ y \in Nat /\ (y = x + 1 \/ (y > StartWindow /\ x + 1 > StartWindow))
      BY <2>1, <2>4
    <3> HIDE DEF v, x, y
    <3>2. CASE w = -1
      BY <2>5, <3>1, <3>2
    <3>3. CASE w \in Nat
      <4>1. v = w - 1
        BY <2>5, <3>3
      <4> QED BY <2>2, <3>1, <3>3, <4>1, WindowIsNat
    <3> QED BY <2>6, <3>2, <3>3
  <2> QED BY <2>3, <2>7
<1> HIDE DEF v
<1>2. ASSUME NEW A, NEW B, \A i \in 1..Len(s) : k[i] \in A <=> s[i] \in B
      PROVE  Len(Only(k, A)) = Len(Only(s, B))
  BY <1>2, OnlySame, SMTT(30)
<1>3. Len(Only(k, Upto(w))) = Len(Only(s, Upto(v)))
  BY <1>1, <1>2, Zenon
<1> QED BY <1>3 DEF Count, v

LEMMA AtLeastOlder ==
  ASSUME NEW a \in Seq(Nat), NEW b \in Seq(Nat), AtLeast(b, a),
         NEW c \in Seq(Nat), Len(c) = Len(a), \A i \in 1..Len(a) : c[i] = a[i] + 1,
         NEW d \in Seq(Nat), Len(d) = Len(b),
         \A i \in 1..Len(b) : d[i] = b[i] + 1 \/ (d[i] > StartWindow /\ b[i] + 1 > StartWindow)
  PROVE  AtLeast(d, c)
<1>1. ASSUME NEW w \in Ages PROVE Count(c, w) <= Count(d, w)
  <2> DEFINE v == IF w = -1 THEN w ELSE w - 1
  <2>1. v \in Ages
    BY WindowIsNat DEF Ages
  <2>2. Count(c, w) = Count(a, v) /\ Count(d, w) = Count(b, v)
    BY CountOlder
  <2> HIDE DEF v
  <2> QED BY <2>1, <2>2 DEF AtLeast
<1> QED BY <1>1 DEF AtLeast

-----------------------------------------------------------------------------
(* The reports of a state.                                                  *)
NoteFields  == DOMAIN NoNote
StateFields == DOMAIN Blank(0)
TickFields  == DOMAIN NoTick

NoteOK(n) == DOMAIN n = NoteFields /\ n.retryIn \in Int /\ ReportValid(n)

(* The current report is an incident's, or there is none; the summary is    *)
(* only ever retained.                                                      *)
CurrentOK(n) ==
  /\ NoteOK(n)
  /\ n.key # Overflow.key
  /\ n.key = NoNote.key => n = NoNote
Retainable(n) == NoteOK(n) /\ n.key # NoNote.key

BacklogOK(b) ==
  /\ b \in Seq(ToSet(b)) /\ Distinct(b)
  /\ \A m \in ToSet(b) : Retainable(m)
  /\ Len(b) <= BacklogLimit + 1
  /\ Len(b) > BacklogLimit => \E m \in ToSet(b) : m.key = Overflow.key
ReportsOK(n, b) ==
  CurrentOK(n) /\ BacklogOK(b) /\ \A m \in ToSet(b) : m.key # n.key

StoreOK(s) ==
  /\ DOMAIN s = StateFields
  /\ ReportsOK(s.note, s.backlog)
  /\ s.starts \in Seq(Nat) /\ Len(s.starts) <= StartLimit

(* What a tick has decided: a person is told only of what has a reason of   *)
(* its own and a state whose policy allows it.                              *)
ClassOK(c) ==
  /\ DOMAIN c = {"state", "reason", "human"} /\ c.state \in DOMAIN Allowed
  /\ c.human => /\ "notify" \in Allowed[c.state]
                /\ c.reason \notin {NoNote.key.reason, Overflow.key.reason}
Judged(c) == ClassOK(c) /\ c.human \in BOOLEAN
Ticking == {"observed", "starting", "reconciling", "report", "semantic", "backlog",
            "calling", "answered", "finish"}
TickFits(t, p) ==
  /\ DOMAIN t = TickFields
  /\ t.starts \in Seq(Nat) /\ Len(t.starts) <= StartLimit
  /\ Judged(t.cls)
  /\ t.next \in {"semantic", "backlog", "finish"}
  /\ t.must \in BOOLEAN
  /\ p = "observed" => /\ t.act \in Allowed[t.cls.state]
                       /\ t.act = "start" => Len(t.starts) < StartLimit
  /\ p = "starting" => t.act = "start"
  /\ p = "reconciling" => t.act = "reconcile"

(* The report a call is about stands where the tick left it.                *)
Calls(m, w, p) ==
  p \in {"calling", "answered"} =>
    /\ w = "note" => m.note.key # NoNote.key
    /\ w # "note" => m.backlog # <<>>
    /\ p = "calling" => At(m, w).outcome = "dispatching"

Shape ==
  /\ pc \in {"down", "opened", "idle"} \cup Ticking
  /\ world \in [broker : {"up", "dead", "unclear"}, wf : DOMAIN Situation,
                stale : BOOLEAN]
  /\ StoreOK(st) /\ StoreOK(mem)
  /\ TickFits(tick, pc) /\ Calls(mem, tick.where, pc)

(* The starts written down cover the brokers started, and while one is      *)
(* about to be started that one too.                                        *)
Noted(a, s, m, t, p) ==
  AtLeast(s, a) /\ (p \in Ticking => AtLeast(m, a) /\ AtLeast(t, a))
Recorded ==
  /\ spawned \in Seq(Nat)
  /\ Noted(spawned, st.starts, mem.starts, tick.starts, pc)
  /\ pc = "starting" =>
       Noted(Append(spawned, 0), st.starts, mem.starts, tick.starts, pc)

IInv == Shape /\ Recorded

-----------------------------------------------------------------------------
(* What is done to a report.                                                *)
LEMMA Fields ==
  /\ NoteFields = {"key", "outcome", "tried", "retryIn", "repeatIn", "count"}
  /\ StateFields = {"sid", "starts", "deadFor", "outage", "note", "backlog", "told",
                    "recon", "ticked"}
  /\ TickFields = {"cls", "act", "must", "snap", "epoch", "stale", "starts", "deadFor",
                   "where", "next"}
  BY DEF NoteFields, StateFields, TickFields, NoNote, Report, Blank, NoTick

LEMMA LimitsAreNat == Retry \in Nat /\ BacklogLimit \in Nat
  BY BoundsAssumption

LEMMA Constants ==
  /\ NoNote.key.reason = "none" /\ Overflow.key.reason = "backlog_overflow"
  /\ NoNote.key.state = "healthy" /\ Overflow.key.state = "human_required_other"
  /\ NoNote.key # Overflow.key
  BY DEF NoNote, Overflow, Report, Key, Class

LEMMA ReportOK ==
  ASSUME NEW k, "notify" \in Allowed[k.state]
  PROVE  NoteOK(Report(k)) /\ Report(k).key = k
<1>1. /\ Report(k).key = k /\ Report(k).outcome = "pending" /\ Report(k).tried = FALSE
      /\ Report(k).retryIn = None
  BY DEF Report
<1>2. DOMAIN Report(k) = NoteFields
  BY Fields DEF Report
<1>3. ReportValid(Report(k))
  BY <1>1 DEF ReportValid
<1> QED BY <1>1, <1>2, <1>3 DEF NoteOK, None

LEMMA NoNoteOK == CurrentOK(NoNote)
<1>1. "notify" \in Allowed[NoNote.key.state]
  BY Constants DEF Allowed, AttachAndNotify
<1>2. NoNote = Report(NoNote.key)
  BY DEF NoNote, Report
<1>3. NoteOK(NoNote)
  BY <1>1, <1>2, ReportOK
<1> QED BY <1>3, Constants DEF CurrentOK

LEMMA OverflowOK == Retainable(Overflow)
<1>1. "notify" \in Allowed[Overflow.key.state]
  BY Constants DEF Allowed, Watch
<1>2. Overflow = Report(Overflow.key)
  BY DEF Overflow, Report
<1>3. NoteOK(Overflow)
  BY <1>1, <1>2, ReportOK
<1> QED BY <1>3, Constants DEF Retainable

LEMMA DispatchedOK ==
  ASSUME NEW n, NoteOK(n)
  PROVE  /\ NoteOK(Dispatched(n)) /\ Dispatched(n).key = n.key
         /\ Dispatched(n).outcome = "dispatching"
<1> DEFINE m == Dispatched(n)
<1>1. /\ DOMAIN m = DOMAIN n /\ m.key = n.key /\ m.outcome = "dispatching"
      /\ m.tried = TRUE /\ m.retryIn = Retry
  BY Fields DEF NoteOK, Dispatched
<1> HIDE DEF m
<1>2. Retry \in Nat
  BY LimitsAreNat
<1>3. ReportValid(m)
  BY <1>1, <1>2 DEF ReportValid, NoteOK, None
<1> QED BY <1>1, <1>2, <1>3 DEF NoteOK, m

LEMMA AcceptedOK ==
  ASSUME NEW n, NoteOK(n), n.outcome = "dispatching"
  PROVE  NoteOK(Accepted(n)) /\ Accepted(n).key = n.key
<1> DEFINE m == Accepted(n)
<1>1. /\ DOMAIN m = DOMAIN n /\ m.key = n.key /\ m.outcome = "accepted"
      /\ m.tried = n.tried /\ m.retryIn = None
  BY Fields DEF NoteOK, Accepted
<1> HIDE DEF m
<1>2. ReportValid(m)
  BY <1>1 DEF ReportValid, NoteOK
<1> QED BY <1>1, <1>2 DEF NoteOK, m, None

LEMMA RefusedOK ==
  ASSUME NEW n, NoteOK(n), n.outcome = "dispatching"
  PROVE  NoteOK(Refused(n)) /\ Refused(n).key = n.key
<1> DEFINE m == Refused(n)
<1>1. /\ DOMAIN m = DOMAIN n /\ m.key = n.key /\ m.outcome = "failed"
      /\ m.tried = n.tried /\ m.retryIn = n.retryIn
  BY Fields DEF NoteOK, Refused
<1> HIDE DEF m
<1>2. ReportValid(m)
  BY <1>1 DEF ReportValid, NoteOK
<1> QED BY <1>1, <1>2 DEF NoteOK, m

-----------------------------------------------------------------------------
(* What is done to the reports of a state.                                  *)
LEMMA OwnElements ==
  ASSUME NEW T, NEW b \in Seq(T)
  PROVE  b \in Seq(ToSet(b)) /\ \A i \in 1..Len(b) : b[i] \in ToSet(b)
<1>1. Len(b) \in Nat /\ DOMAIN b = 1..Len(b) /\ b = [i \in 1..Len(b) |-> b[i]]
  OBVIOUS
<1>2. \A i \in 1..Len(b) : b[i] \in ToSet(b)
  BY <1>1 DEF ToSet
<1> QED BY <1>1, <1>2

(* Another receipt under each key.                                          *)
LEMMA SameKeys ==
  ASSUME NEW n, NEW b, ReportsOK(n, b), NEW T, NEW c \in Seq(T), Len(c) = Len(b),
         \A i \in 1..Len(b) : NoteOK(c[i]) /\ c[i].key = b[i].key
  PROVE  ReportsOK(n, c)
<1>1. b \in Seq(ToSet(b)) /\ Len(b) \in Nat /\ DOMAIN b = 1..Len(b) /\ DOMAIN c = 1..Len(b)
  BY DEF ReportsOK, BacklogOK
<1>2. c \in Seq(ToSet(c))
  BY OwnElements
<1>3. ASSUME NEW m \in ToSet(c) PROVE Retainable(m) /\ m.key # n.key
  <2>1. PICK i \in 1..Len(b) : c[i] = m
    BY <1>1 DEF ToSet
  <2>2. b[i] \in ToSet(b)
    BY <1>1 DEF ToSet
  <2> QED BY <2>1, <2>2 DEF ReportsOK, BacklogOK, Retainable
<1>4. Distinct(c)
  BY <1>1 DEF ReportsOK, BacklogOK, Distinct
<1>5. Len(c) > BacklogLimit => \E m \in ToSet(c) : m.key = Overflow.key
  <2>1. SUFFICES ASSUME Len(b) > BacklogLimit PROVE \E m \in ToSet(c) : m.key = Overflow.key
    OBVIOUS
  <2>2. PICK i \in 1..Len(b) : b[i].key = Overflow.key
    BY <1>1, <2>1 DEF ReportsOK, BacklogOK, ToSet
  <2>3. c[i] \in ToSet(c)
    BY <1>1 DEF ToSet
  <2> QED BY <2>2, <2>3
<1> QED BY <1>2, <1>3, <1>4, <1>5 DEF ReportsOK, BacklogOK

LEMMA SameKey ==
  ASSUME NEW n, NEW b, ReportsOK(n, b), n.key # NoNote.key,
         NEW m, NoteOK(m), m.key = n.key
  PROVE  ReportsOK(m, b)
  BY DEF ReportsOK, CurrentOK

LEMMA PutOK ==
  ASSUME NEW s, StoreOK(s), NEW w,
         w = "note" => s.note.key # NoNote.key, w # "note" => s.backlog # <<>>,
         NEW n, NoteOK(n), n.key = At(s, w).key
  PROVE  /\ StoreOK(Put(s, w, n)) /\ Put(s, w, n).starts = s.starts
         /\ Put(s, w, n).sid = s.sid
         /\ At(Put(s, w, n), w) = n
         /\ w = "note" => Put(s, w, n).note.key # NoNote.key
         /\ w # "note" => Put(s, w, n).backlog # <<>>
<1> DEFINE p == Put(s, w, n)
<1>1. CASE w = "note"
  <2>1. p = [s EXCEPT !.note = n]
    BY <1>1 DEF Put
  <2>2. /\ DOMAIN p = StateFields /\ p.note = n /\ p.backlog = s.backlog
        /\ p.starts = s.starts /\ p.sid = s.sid
    BY <2>1, Fields DEF StoreOK
  <2>3. n.key = s.note.key
    BY <1>1 DEF At
  <2>4. ReportsOK(n, s.backlog)
    BY <1>1, <2>3, SameKey DEF StoreOK
  <2> HIDE DEF p
  <2>5. StoreOK(p)
    BY <2>2, <2>4 DEF StoreOK
  <2>6. At(p, w) = n
    BY <1>1, <2>2 DEF At
  <2> QED BY <1>1, <2>2, <2>3, <2>5, <2>6 DEF p
<1>2. CASE w # "note"
  <2> DEFINE b == s.backlog  c == [b EXCEPT ![Len(b)] = n]
  <2>1. p = [s EXCEPT !.backlog = c]
    BY <1>2 DEF Put
  <2>2. /\ DOMAIN p = StateFields /\ p.note = s.note /\ p.backlog = c
        /\ p.starts = s.starts /\ p.sid = s.sid
    BY <2>1, Fields DEF StoreOK
  <2>3. ReportsOK(s.note, b) /\ b # <<>> /\ n.key = b[Len(b)].key
    BY <1>2 DEF StoreOK, At, Last
  <2> HIDE DEF b, p
  <2>4. b \in Seq(ToSet(b))
    BY <2>3 DEF ReportsOK, BacklogOK
  <2>5. c \in Seq(ToSet(b) \cup {n}) /\ Len(c) = Len(b) /\ Len(b) \in Nat \ {0}
        /\ c[Len(b)] = n /\ \A i \in 1..Len(b) : i # Len(b) => c[i] = b[i]
    BY <2>3, <2>4
  <2> HIDE DEF c
  <2>6. \A i \in 1..Len(b) : NoteOK(b[i])
    BY <2>3, <2>4, OwnElements DEF ReportsOK, BacklogOK, Retainable
  <2>7. \A i \in 1..Len(b) : NoteOK(c[i]) /\ c[i].key = b[i].key
    BY <2>3, <2>5, <2>6
  <2>8. ReportsOK(s.note, c)
    BY <2>3, <2>5, <2>7, SameKeys
  <2>9. StoreOK(p)
    BY <2>2, <2>8 DEF StoreOK
  <2>10. At(p, w) = n /\ c # <<>>
    BY <1>2, <2>2, <2>5 DEF At, Last
  <2> QED BY <1>2, <2>2, <2>9, <2>10 DEF p
<1> QED BY <1>1, <1>2

(* A report is appended to the backlog.                                     *)
LEMMA AppendOK ==
  ASSUME NEW n, NEW b, ReportsOK(n, b), NEW m, Retainable(m), m.key # n.key,
         \A i \in DOMAIN b : b[i].key # m.key,
         Len(b) < BacklogLimit \/ (m.key = Overflow.key /\ Len(b) <= BacklogLimit)
  PROVE  ReportsOK(n, Append(b, m))
<1> DEFINE c == Append(b, m)
<1>1. b \in Seq(ToSet(b)) /\ Len(b) \in Nat
  BY DEF ReportsOK, BacklogOK
<1>2. c \in Seq(ToSet(b) \cup {m}) /\ Len(c) = Len(b) + 1
  BY <1>1
<1>3. ToSet(c) = ToSet(b) \cup {m}
  BY <1>1, ToSetAppend
<1>4. \A x \in ToSet(b) : x.key # m.key
  BY DEF ToSet
<1>5. Distinct(c)
  BY <1>1, <1>4, DistinctAppend DEF ReportsOK, BacklogOK
<1> HIDE DEF c
<1>6. c \in Seq(ToSet(c))
  BY <1>2, <1>3
<1>7. Len(c) <= BacklogLimit + 1
  BY <1>1, <1>2, LimitsAreNat
<1>8. Len(c) > BacklogLimit => m.key = Overflow.key
  BY <1>1, <1>2, LimitsAreNat
<1>9. \A x \in ToSet(c) : Retainable(x) /\ x.key # n.key
  BY <1>3 DEF ReportsOK, BacklogOK
<1> QED BY <1>3, <1>5, <1>6, <1>7, <1>8, <1>9 DEF ReportsOK, BacklogOK, c

LEMMA RetainedOK ==
  ASSUME NEW s, StoreOK(s)
  PROVE  BacklogOK(Retained(s))
<1> DEFINE n == s.note  b == s.backlog
<1>1. ReportsOK(n, b) /\ CurrentOK(n)
  BY DEF StoreOK, ReportsOK
<1>2. Retained(s) =
        IF ~Open(n) \/ \E i \in DOMAIN b : b[i].key = n.key THEN b
        ELSE IF Len(b) < BacklogLimit THEN Append(b, n)
        ELSE IF \E i \in DOMAIN b : b[i].key = Overflow.key THEN b
        ELSE Append(b, Overflow)
  BY DEF Retained
<1> HIDE DEF n, b
<1>3. CASE Retained(s) = b
  BY <1>1, <1>3 DEF ReportsOK, BacklogOK
<1>4. CASE /\ Open(n) /\ Len(b) < BacklogLimit /\ Retained(s) = Append(b, n)
           /\ \A i \in DOMAIN b : b[i].key # n.key
  <2>1. n.key # NoNote.key
    BY <1>1, <1>4 DEF Open, CurrentOK
  <2>2. Retainable(n)
    BY <1>1, <2>1 DEF Retainable, CurrentOK
  <2> DEFINE c == Append(b, n)
  <2>3. b \in Seq(ToSet(b)) /\ Len(b) \in Nat /\ Distinct(b)
        /\ \A m \in ToSet(b) : Retainable(m) /\ m.key # n.key
    BY <1>1 DEF ReportsOK, BacklogOK
  <2>4. c \in Seq(ToSet(b) \cup {n}) /\ Len(c) = Len(b) + 1 /\ ToSet(c) = ToSet(b) \cup {n}
    BY <2>3, ToSetAppend
  <2>5. Distinct(c)
    BY <2>3, DistinctAppend
  <2> HIDE DEF c
  <2>6. c \in Seq(ToSet(c)) /\ \A m \in ToSet(c) : Retainable(m)
    BY <2>2, <2>3, <2>4
  <2>7. Len(c) <= BacklogLimit
    BY <1>4, <2>3, <2>4, LimitsAreNat
  <2>8. ~(Len(c) > BacklogLimit) /\ Len(c) <= BacklogLimit + 1
    BY <2>3, <2>4, <2>7, LimitsAreNat
  <2>9. Retained(s) = c
    BY <1>4 DEF c
  <2> QED BY <2>5, <2>6, <2>8, <2>9 DEF BacklogOK
<1>5. CASE /\ Retained(s) = Append(b, Overflow)
           /\ \A i \in DOMAIN b : b[i].key # Overflow.key
  <2>1. Len(b) <= BacklogLimit
    <3>1. ~(\E m \in ToSet(b) : m.key = Overflow.key)
      BY <1>5 DEF ToSet
    <3> QED BY <1>1, <3>1, LimitsAreNat DEF ReportsOK, BacklogOK
  <2>2. ReportsOK(n, Append(b, Overflow))
    BY <1>1, <1>5, <2>1, OverflowOK, AppendOK DEF CurrentOK
  <2> QED BY <1>5, <2>2 DEF ReportsOK, BacklogOK
<1> QED BY <1>2, <1>3, <1>4, <1>5

(* An incident takes the place of another.                                  *)
IncidentOK(k) == "notify" \in Allowed[k.state] /\ k # NoNote.key /\ k # Overflow.key

LEMMA PlacedOK ==
  ASSUME NEW s, StoreOK(s), NEW k, IncidentOK(k)
  PROVE  /\ StoreOK(Placed(s, k)) /\ Placed(s, k).note.key = k
         /\ Placed(s, k).starts = s.starts /\ Placed(s, k).sid = s.sid
<1> DEFINE p == Placed(s, k)
<1>1. CASE s.note.key = k
  BY <1>1 DEF Placed
<1>2. CASE s.note.key # k
  <2> DEFINE b == Retained(s)
  <2>1. BacklogOK(b)
    BY RetainedOK
  <2>1b. p = IF s.note.key = k THEN s
             ELSE LET back == {m \in ToSet(b) : m.key = k}
                  IN  [s EXCEPT !.note = IF back = {} THEN Report(k)
                                         ELSE CHOOSE m \in back : TRUE,
                                !.backlog = Only(b, {m \in ToSet(b) : m.key # k})]
    BY DEF Placed
  <2> HIDE DEF b
  <2>1c. b \in Seq(ToSet(b)) /\ Distinct(b) /\ (\A m \in ToSet(b) : Retainable(m))
         /\ Len(b) <= BacklogLimit + 1
    BY <2>1 DEF BacklogOK
  <2> DEFINE back == {m \in ToSet(b) : m.key = k}
             n == IF back = {} THEN Report(k) ELSE CHOOSE m \in back : TRUE
             others == {m \in ToSet(b) : m.key # k}
             c == Only(b, others)
  <2>2. p = [s EXCEPT !.note = n, !.backlog = c]
    BY <1>2, <2>1b, Zenon
  <2>3. /\ DOMAIN p = StateFields /\ p.note = n /\ p.backlog = c
        /\ p.starts = s.starts /\ p.sid = s.sid
    <3> HIDE DEF n, c, p
    <3> QED BY <2>2, Fields DEF StoreOK
  <2>4. NoteOK(n) /\ n.key = k
    <3>1. CASE back = {}
      BY <3>1, ReportOK DEF IncidentOK
    <3>2. CASE back # {}
      <4>1. n \in back
        BY <3>2, Zenon
      <4> QED BY <2>1c, <4>1 DEF Retainable
    <3> QED BY <3>1, <3>2
  <2>5. CurrentOK(n)
    BY <2>4 DEF CurrentOK, IncidentOK
  <2>6. /\ c \in Seq(ToSet(b)) /\ ToSet(c) = ToSet(b) \cap others
        /\ Len(c) <= Len(b) /\ (Len(c) = Len(b) => c = b) /\ Distinct(c)
    BY <2>1c, OnlyKeeps, OnlyDistinct
  <2>7. ToSet(c) \subseteq ToSet(b) /\ \A m \in ToSet(c) : m.key # k
    BY <2>6
  <2>8. Len(b) \in Nat /\ Len(c) \in Nat
    BY <2>1c, <2>6
  <2> HIDE DEF p, n, c, others
  <2>9. c \in Seq(ToSet(c))
    BY <2>6, OwnElements
  <2>10. Len(c) > BacklogLimit => c = b
    BY <2>1c, <2>6, <2>8, LimitsAreNat
  <2>11. Len(c) > BacklogLimit => \E m \in ToSet(c) : m.key = Overflow.key
    BY <2>1, <2>10 DEF BacklogOK
  <2>12. Len(c) <= BacklogLimit + 1
    BY <2>1c, <2>6, <2>8, LimitsAreNat
  <2>13. ReportsOK(n, c)
    <3>1. BacklogOK(c)
      BY <2>1c, <2>6, <2>7, <2>9, <2>11, <2>12 DEF BacklogOK
    <3> QED BY <2>4, <2>5, <2>7, <3>1 DEF ReportsOK, BacklogOK
  <2>14. StoreOK(p)
    BY <2>3, <2>13 DEF StoreOK
  <2> QED BY <2>3, <2>4, <2>14 DEF p
<1> QED BY <1>1, <1>2

(* What was told of is dropped from the backlog.                            *)
LEMMA OpenOnlyOK ==
  ASSUME NEW n, NEW b, ReportsOK(n, b), NEW S
  PROVE  ReportsOK(n, Only(b, S))
<1> DEFINE c == Only(b, S)
<1>1. b \in Seq(ToSet(b)) /\ Distinct(b)
  BY DEF ReportsOK, BacklogOK
<1>2. /\ c \in Seq(ToSet(b)) /\ ToSet(c) = ToSet(b) \cap S
      /\ Len(c) <= Len(b) /\ (Len(c) = Len(b) => c = b) /\ Distinct(c)
  BY <1>1, OnlyKeeps, OnlyDistinct
<1>3. Len(b) \in Nat /\ Len(c) \in Nat
  BY <1>1, <1>2
<1> HIDE DEF c
<1>4. c \in Seq(ToSet(c))
  BY <1>2, OwnElements
<1>5. Len(c) > BacklogLimit => c = b
  BY <1>2, <1>3, LimitsAreNat DEF ReportsOK, BacklogOK
<1>6. Len(c) <= BacklogLimit + 1
  BY <1>2, <1>3, LimitsAreNat DEF ReportsOK, BacklogOK
<1> QED BY <1>2, <1>4, <1>5, <1>6 DEF ReportsOK, BacklogOK, c

(* A report is moved behind the others.                                     *)
LEMMA RotatedOK ==
  ASSUME NEW n, NEW b, ReportsOK(n, b), NEW i \in DOMAIN b
  PROVE  /\ ReportsOK(n, Append(RemoveAt(b, i), b[i]))
         /\ Append(RemoveAt(b, i), b[i]) # <<>>
         /\ Last(Append(RemoveAt(b, i), b[i])) = b[i]
         /\ ToSet(Append(RemoveAt(b, i), b[i])) = ToSet(b)
<1> DEFINE l == Len(b)  r == RemoveAt(b, i)  c == Append(r, b[i])
<1>1. b \in Seq(ToSet(b)) /\ l \in Nat /\ i \in 1..l /\ DOMAIN b = 1..l /\ Distinct(b)
  BY DEF ReportsOK, BacklogOK
<1>2a. i - 1 \in 0..l /\ i + 1 \in 1..(l + 1)
  BY <1>1
<1>2. /\ SubSeq(b, 1, i - 1) \in Seq(ToSet(b)) /\ SubSeq(b, i + 1, l) \in Seq(ToSet(b))
      /\ Len(SubSeq(b, 1, i - 1)) = i - 1 /\ Len(SubSeq(b, i + 1, l)) = l - i
      /\ \A j \in 1..(i - 1) : SubSeq(b, 1, i - 1)[j] = b[j]
      /\ \A j \in 1..(l - i) : SubSeq(b, i + 1, l)[j] = b[i + j]
  <2> HIDE DEF l
  <2>1. \A j \in 1..l : b[j] \in ToSet(b)
    BY <1>1 DEF ToSet
  <2>2. /\ SubSeq(b, 1, i - 1) \in Seq(ToSet(b))
        /\ Len(SubSeq(b, 1, i - 1)) = IF 1 <= i - 1 THEN (i - 1) - 1 + 1 ELSE 0
        /\ \A j \in 1..((i - 1) - 1 + 1) : SubSeq(b, 1, i - 1)[j] = b[1 + j - 1]
    <3>1. 1 \in Int /\ i - 1 \in Int /\ \A j \in 1..(i - 1) : b[j] \in ToSet(b)
      BY <1>1, <2>1
    <3> QED BY <3>1, SubSeqProperties
  <2>3. /\ SubSeq(b, i + 1, l) \in Seq(ToSet(b))
        /\ Len(SubSeq(b, i + 1, l)) = IF i + 1 <= l THEN l - (i + 1) + 1 ELSE 0
        /\ \A j \in 1..(l - (i + 1) + 1) : SubSeq(b, i + 1, l)[j] = b[(i + 1) + j - 1]
    <3>1. i + 1 \in Int /\ l \in Int /\ \A j \in (i + 1)..l : b[j] \in ToSet(b)
      BY <1>1, <2>1
    <3> QED BY <3>1, SubSeqProperties
  <2>4. ASSUME NEW j \in 1..(i - 1) PROVE SubSeq(b, 1, i - 1)[j] = b[j]
    <3>1. j \in 1..((i - 1) - 1 + 1) /\ 1 + j - 1 = j
      BY <1>1
    <3> QED BY <2>2, <3>1
  <2>5. ASSUME NEW j \in 1..(l - i) PROVE SubSeq(b, i + 1, l)[j] = b[i + j]
    <3>1. j \in 1..(l - (i + 1) + 1) /\ (i + 1) + j - 1 = i + j
      BY <1>1
    <3> QED BY <2>3, <3>1
  <2>6. Len(SubSeq(b, 1, i - 1)) = i - 1 /\ Len(SubSeq(b, i + 1, l)) = l - i
    BY <1>1, <2>2, <2>3
  <2> QED BY <2>2, <2>3, <2>4, <2>5, <2>6
<1>3. r \in Seq(ToSet(b)) /\ Len(r) = l - 1
      /\ \A j \in 1..(l - 1) : r[j] = IF j < i THEN b[j] ELSE b[j + 1]
  <2> DEFINE f == SubSeq(b, 1, i - 1)  g == SubSeq(b, i + 1, l)
  <2>1. r = f \o g
    BY DEF RemoveAt
  <2>2. f \in Seq(ToSet(b)) /\ g \in Seq(ToSet(b)) /\ Len(f) = i - 1 /\ Len(g) = l - i
        /\ (\A j \in 1..(i - 1) : f[j] = b[j]) /\ (\A j \in 1..(l - i) : g[j] = b[i + j])
    BY <1>2
  <2> HIDE DEF f, g, r, l
  <2>3. r \in Seq(ToSet(b)) /\ Len(r) = Len(f) + Len(g)
    BY <2>1, <2>2, ConcatProperties
  <2>4. \A j \in 1..(l - 1) : r[j] = IF j <= i - 1 THEN f[j] ELSE g[j - (i - 1)]
    BY <1>1, <2>1, <2>2, ConcatProperties
  <2>5. ASSUME NEW j \in 1..(l - 1) PROVE r[j] = IF j < i THEN b[j] ELSE b[j + 1]
    <3>1. CASE j < i
      <4>1. j \in 1..(i - 1) /\ j <= i - 1
        BY <1>1, <3>1
      <4> QED BY <2>2, <2>4, <3>1, <4>1
    <3>2. CASE ~(j < i)
      <4>1. j - (i - 1) \in 1..(l - i) /\ ~(j <= i - 1) /\ i + (j - (i - 1)) = j + 1
        BY <1>1, <3>2
      <4> QED BY <2>2, <2>4, <3>2, <4>1
    <3> QED BY <3>1, <3>2
  <2> QED BY <1>1, <2>2, <2>3, <2>5
<1> HIDE DEF r, l
<1>4. /\ c \in Seq(ToSet(b)) /\ Len(c) = l /\ c[l] = b[i]
      /\ \A j \in 1..(l - 1) : c[j] = r[j]
  <2>1. b[i] \in ToSet(b)
    BY <1>1 DEF ToSet
  <2> QED BY <1>1, <1>3, <2>1
<1> HIDE DEF c
<1> DEFINE from(j) == IF j = l THEN i ELSE IF j < i THEN j ELSE j + 1
<1>5. ASSUME NEW j \in 1..l PROVE from(j) \in 1..l /\ c[j] = b[from(j)]
  <2>1. CASE j = l
    BY <1>1, <1>4, <2>1
  <2>2. CASE j # l
    <3>1. j \in 1..(l - 1)
      BY <1>1, <2>2
    <3>2. c[j] = IF j < i THEN b[j] ELSE b[j + 1]
      BY <1>3, <1>4, <3>1
    <3> QED BY <1>1, <2>2, <3>1, <3>2
  <2> QED BY <2>1, <2>2
<1>6. \A j, h \in 1..l : from(j) = from(h) => j = h
  BY <1>1
<1>7. DOMAIN c = 1..l
  BY <1>1, <1>4
<1>8. Distinct(c)
  <2> HIDE DEF from
  <2>1. SUFFICES ASSUME NEW j \in 1..l, NEW h \in 1..l, c[j].key = c[h].key
                 PROVE  j = h
    BY <1>7 DEF Distinct
  <2>2. from(j) \in DOMAIN b /\ from(h) \in DOMAIN b /\ c[j] = b[from(j)] /\ c[h] = b[from(h)]
    BY <1>1, <1>5
  <2>3. b[from(j)].key = b[from(h)].key
    BY <2>1, <2>2
  <2>4. from(j) = from(h)
    BY <1>1, <2>2, <2>3 DEF Distinct
  <2> QED BY <1>6, <2>4
<1>9. ToSet(c) = ToSet(b)
  <2>1. ToSet(c) \subseteq ToSet(b)
    <3> HIDE DEF from
    <3> QED BY <1>1, <1>5, <1>7 DEF ToSet
  <2>2. ASSUME NEW j \in 1..l PROVE b[j] \in ToSet(c)
    <3>1. PICK h \in 1..l : from(h) = j
      <4>1. CASE j = i
        <5>1. from(l) = j /\ l \in 1..l
          BY <1>1, <4>1
        <5> QED BY <5>1
      <4>2. CASE j < i
        <5>1. from(j) = j
          BY <1>1, <4>2
        <5> QED BY <5>1
      <4>3. CASE j > i
        <5>1. from(j - 1) = j /\ j - 1 \in 1..l
          BY <1>1, <4>3
        <5> QED BY <5>1
      <4> QED BY <1>1, <4>1, <4>2, <4>3
    <3> HIDE DEF from
    <3> QED BY <1>5, <1>7, <3>1 DEF ToSet
  <2> QED BY <1>1, <2>1, <2>2 DEF ToSet
<1>10. c \in Seq(ToSet(c))
  BY <1>4, <1>9
<1>11. ReportsOK(n, c)
  <2>1. Len(c) = Len(b)
    BY <1>4 DEF l
  <2> QED BY <1>8, <1>9, <1>10, <2>1 DEF ReportsOK, BacklogOK
<1>12. c # <<>> /\ Last(c) = b[i]
  BY <1>1, <1>4 DEF Last
<1> QED BY <1>9, <1>11, <1>12 DEF c, r

(* Time passes for a report.                                                *)
Older(n) == [n EXCEPT !.retryIn  = IF @ > 0 THEN @ - 1 ELSE @,
                      !.repeatIn = IF @ > 0 THEN @ - 1 ELSE @]

LEMMA OlderOK ==
  ASSUME NEW n, NoteOK(n)
  PROVE  NoteOK(Older(n)) /\ Older(n).key = n.key
<1> DEFINE m == Older(n)
<1>1. /\ DOMAIN m = DOMAIN n /\ m.key = n.key /\ m.outcome = n.outcome /\ m.tried = n.tried
      /\ m.retryIn = IF n.retryIn > 0 THEN n.retryIn - 1 ELSE n.retryIn
  BY Fields DEF NoteOK, Older
<1> HIDE DEF m
<1>2. m.retryIn \in Int /\ (m.retryIn = None <=> n.retryIn = None)
  BY <1>1 DEF NoteOK, None
<1>3. ReportValid(m)
  BY <1>1, <1>2 DEF ReportValid, NoteOK
<1> QED BY <1>1, <1>2, <1>3 DEF NoteOK, m

LEMMA OlderCurrentOK ==
  ASSUME NEW n, CurrentOK(n)
  PROVE  CurrentOK(Older(n))
<1>1. Older(NoNote) = NoNote
  <2> DEFINE k == NoNote.key
  <2>1. NoNote = [key |-> k, outcome |-> "pending", tried |-> FALSE, retryIn |-> -1,
                  repeatIn |-> -1, count |-> 0]
    BY DEF NoNote, Report, None
  <2> HIDE DEF k
  <2> DEFINE m == NoNote
  <2>2. m.retryIn = -1 /\ m.repeatIn = -1 /\ DOMAIN m = NoteFields
        /\ m = [x \in DOMAIN m |-> m[x]]
    BY <2>1 DEF NoteFields
  <2> HIDE DEF m
  <2>3. Older(m) = [m EXCEPT !.retryIn = m.retryIn, !.repeatIn = m.repeatIn]
    BY <2>2 DEF Older
  <2>4. Older(m) = [x \in DOMAIN m |-> m[x]]
    BY <2>2, <2>3, Fields
  <2> QED BY <2>2, <2>4 DEF m
<1> QED BY <1>1, OlderOK DEF CurrentOK

Up(a, m) == IF a = None THEN a ELSE Lesser(a + 1, m)

LEMMA AgedIs ==
  ASSUME NEW s, DOMAIN s = StateFields
  PROVE  /\ DOMAIN Aged(s) = StateFields /\ Aged(s).sid = s.sid
         /\ Aged(s).starts = [i \in DOMAIN s.starts |-> Up(s.starts[i], StartWindow + 1)]
         /\ Aged(s).note = Older(s.note)
         /\ Aged(s).backlog = [i \in DOMAIN s.backlog |-> Older(s.backlog[i])]
  BY Fields DEF Aged, Older, Up

LEMMA AgedOK ==
  ASSUME NEW s, StoreOK(s)
  PROVE  /\ StoreOK(Aged(s)) /\ Len(Aged(s).starts) = Len(s.starts)
         /\ \A i \in 1..Len(s.starts) :
              \/ Aged(s).starts[i] = s.starts[i] + 1
              \/ Aged(s).starts[i] > StartWindow /\ s.starts[i] + 1 > StartWindow
<1> DEFINE a == Aged(s)
<1>1. /\ DOMAIN a = StateFields
      /\ a.starts = [i \in DOMAIN s.starts |-> Up(s.starts[i], StartWindow + 1)]
      /\ a.note = Older(s.note)
      /\ a.backlog = [i \in DOMAIN s.backlog |-> Older(s.backlog[i])]
  BY AgedIs DEF StoreOK
<1> HIDE DEF a
<1>2. ReportsOK(s.note, s.backlog) /\ s.starts \in Seq(Nat) /\ Len(s.starts) <= StartLimit
  BY DEF StoreOK
<1>3. ASSUME NEW i \in 1..Len(s.starts)
      PROVE  /\ a.starts[i] \in Nat
             /\ \/ a.starts[i] = s.starts[i] + 1
                \/ a.starts[i] > StartWindow /\ s.starts[i] + 1 > StartWindow
  <2>1. s.starts[i] \in Nat /\ a.starts[i] = Up(s.starts[i], StartWindow + 1)
    BY <1>1, <1>2
  <2> QED BY <2>1, WindowIsNat DEF Up, Lesser, None
<1>4. Len(s.starts) \in Nat /\ DOMAIN s.starts = 1..Len(s.starts)
  BY <1>2
<1>5. a.starts = [i \in 1..Len(s.starts) |-> a.starts[i]]
  BY <1>1, <1>4
<1>6. a.starts \in Seq(Nat) /\ Len(a.starts) = Len(s.starts)
  <2> DEFINE l == Len(s.starts)
  <2>1. l \in Nat /\ a.starts = [i \in 1..l |-> a.starts[i]] /\ \A i \in 1..l : a.starts[i] \in Nat
    BY <1>3, <1>4, <1>5
  <2> DEFINE f == a.starts
  <2> HIDE DEF l, f
  <2>2. f = [i \in 1..l |-> f[i]] /\ \A i \in 1..l : f[i] \in Nat
    BY <2>1 DEF f
  <2>3. f \in Seq(Nat) /\ Len(f) = l
    BY <2>1, <2>2
  <2> QED BY <2>3 DEF f, l
<1>7. ReportsOK(a.note, a.backlog)
  <2> DEFINE b == s.backlog  c == a.backlog
  <2>1. b \in Seq(ToSet(b)) /\ \A m \in ToSet(b) : NoteOK(m)
    BY <1>2 DEF ReportsOK, BacklogOK, Retainable
  <2>2. \A i \in 1..Len(b) : b[i] \in ToSet(b)
    BY <2>1, OwnElements
  <2>3. DOMAIN b = 1..Len(b) /\ Len(b) \in Nat
    BY <2>1
  <2>4. c = [i \in 1..Len(b) |-> Older(b[i])]
    BY <1>1, <2>3
  <2>5. c \in Seq({Older(m) : m \in ToSet(b)}) /\ Len(c) = Len(b)
    <3>1. \A i \in 1..Len(b) : c[i] \in {Older(m) : m \in ToSet(b)}
      BY <2>2, <2>4
    <3> HIDE DEF b, c
    <3> QED BY <2>3, <2>4, <3>1
  <2>6. \A i \in 1..Len(b) : NoteOK(c[i]) /\ c[i].key = b[i].key
    BY <2>1, <2>2, <2>4, OlderOK
  <2>7. ReportsOK(s.note, c)
    <3> HIDE DEF c
    <3> QED BY <1>2, <2>5, <2>6, SameKeys
  <2>8. CurrentOK(a.note) /\ a.note.key = s.note.key
    BY <1>1, <1>2, OlderCurrentOK, OlderOK DEF ReportsOK, CurrentOK
  <2> QED BY <2>7, <2>8 DEF ReportsOK
<1> QED BY <1>1, <1>2, <1>3, <1>6, <1>7 DEF StoreOK, a

LEMMA BlankOK ==
  ASSUME NEW id
  PROVE  StoreOK(Blank(id))
<1> DEFINE b == Blank(id)
<1>1. /\ DOMAIN b = StateFields /\ b.note = NoNote /\ b.backlog = <<>> /\ b.starts = <<>>
  BY Fields DEF Blank
<1> HIDE DEF b
<1>2. <<>> \in Seq(Nat) /\ Len(<<>>) = 0 /\ ToSet(<<>>) = {} /\ <<>> \in Seq({})
  BY DEF ToSet
<1>3. BacklogOK(<<>>)
  <2>1. Distinct(<<>>)
    BY DEF Distinct
  <2>2. 0 <= BacklogLimit + 1 /\ ~(0 > BacklogLimit)
    BY LimitsAreNat
  <2> QED BY <1>2, <2>1, <2>2 DEF BacklogOK
<1>4. ReportsOK(b.note, b.backlog)
  BY <1>1, <1>2, <1>3, NoNoteOK DEF ReportsOK
<1> QED BY <1>1, <1>2, <1>4, WindowIsNat DEF StoreOK, b

(* The state a tick begins with.                                            *)
LEMMA ResumedOK ==
  ASSUME StoreOK(st)
  PROVE  StoreOK(Resumed) /\ Resumed.starts = st.starts
<1> DEFINE b == Blank(session.id)
<1>1. CASE st.sid = session.id
  BY <1>1 DEF Resumed
<1>2. CASE st.sid # session.id
  <2> DEFINE r == [b EXCEPT !.starts = st.starts, !.told = st.told]
  <2>1. Resumed = r
    BY <1>2 DEF Resumed
  <2>2. StoreOK(b)
    BY BlankOK
  <2> HIDE DEF b
  <2>3. /\ DOMAIN r = StateFields /\ r.starts = st.starts /\ r.note = b.note
        /\ r.backlog = b.backlog
    BY <2>2, Fields DEF StoreOK
  <2> HIDE DEF r
  <2>4. StoreOK(r)
    BY <2>2, <2>3 DEF StoreOK
  <2> QED BY <2>1, <2>3, <2>4
<1> QED BY <1>1, <1>2

-----------------------------------------------------------------------------
(* Classification and choice.                                               *)
LEMMA ClassIs ==
  ASSUME NEW state, NEW reason, NEW human \in BOOLEAN, state \in DOMAIN Allowed,
         human => /\ "notify" \in Allowed[state] /\ reason \notin {"none", "backlog_overflow"}
  PROVE  /\ ClassOK(Class(state, reason, human)) /\ Class(state, reason, human).human \in BOOLEAN
         /\ Class(state, reason, human).state = state
         /\ Class(state, reason, human).human = human
  BY Constants DEF ClassOK, Class

LEMMA AllowedIs ==
  /\ DOMAIN Allowed = {"ambiguous", "send_confirmed_capture", "healthy",
       "stalled_before_send", "crash_loop", "auth_challenge", "human_required_other",
       "startup", "power_sleep", "settled"}
  /\ \A x \in DOMAIN Allowed : "observe" \in Allowed[x]
  /\ \A x \in {"ambiguous", "send_confirmed_capture", "healthy", "stalled_before_send",
               "crash_loop", "auth_challenge", "human_required_other"} :
       "notify" \in Allowed[x]
  /\ \A x \in {"ambiguous", "send_confirmed_capture", "healthy", "stalled_before_send"} :
       "attach" \in Allowed[x]
  /\ "reconcile" \in Allowed["ambiguous"] /\ "start" \in Allowed["startup"]
<1> DEFINE A == Allowed
<1>1. A = [ ambiguous       |-> {"observe", "attach", "notify", "reconcile"},
     send_confirmed_capture |-> {"observe", "attach", "notify", "reconcile"},
     healthy                |-> {"observe", "attach", "notify"},
     stalled_before_send    |-> {"observe", "attach", "notify"},
     crash_loop             |-> {"observe", "notify"},
     auth_challenge         |-> {"observe", "notify"},
     human_required_other   |-> {"observe", "notify"},
     startup                |-> {"observe", "start"},
     power_sleep            |-> {"observe"},
     settled                |-> {"observe"} ]
  BY DEF Allowed, AttachAndNotify, Watch
<1> HIDE DEF A
<1>2. DOMAIN A = {"ambiguous", "send_confirmed_capture", "healthy",
       "stalled_before_send", "crash_loop", "auth_challenge", "human_required_other",
       "startup", "power_sleep", "settled"}
  BY <1>1
<1>3. /\ A.ambiguous = {"observe", "attach", "notify", "reconcile"}
      /\ A.send_confirmed_capture = {"observe", "attach", "notify", "reconcile"}
      /\ A.healthy = {"observe", "attach", "notify"}
      /\ A.stalled_before_send = {"observe", "attach", "notify"}
      /\ A.crash_loop = {"observe", "notify"} /\ A.auth_challenge = {"observe", "notify"}
      /\ A.human_required_other = {"observe", "notify"} /\ A.startup = {"observe", "start"}
      /\ A.power_sleep = {"observe"} /\ A.settled = {"observe"}
  BY <1>1
<1> QED BY <1>2, <1>3 DEF A

LEMMA SilentClass ==
  ASSUME NEW state \in DOMAIN Allowed, NEW reason
  PROVE  Judged(Class(state, reason, FALSE)) /\ Class(state, reason, FALSE).state = state
  BY ClassIs DEF Judged

Telling == {"ambiguous", "send_confirmed_capture", "stalled_before_send", "crash_loop",
            "auth_challenge", "human_required_other"}
LEMMA Told ==
  ASSUME NEW state \in Telling, NEW reason, reason \notin {"none", "backlog_overflow"}
  PROVE  Judged(Class(state, reason, TRUE)) /\ Class(state, reason, TRUE).state = state
<1>1. state \in DOMAIN Allowed /\ "notify" \in Allowed[state]
  BY AllowedIs DEF Telling
<1> QED BY <1>1, ClassIs DEF Judged

LEMMA Quietly ==
  {"healthy", "send_confirmed_capture", "stalled_before_send", "ambiguous", "settled",
   "power_sleep", "startup"} \subseteq DOMAIN Allowed
  BY AllowedIs

LEMMA SituationOK ==
  ASSUME NEW w \in DOMAIN Situation
  PROVE  Judged(Situation[w]) /\ Situation[w].state # "startup"
<1> DEFINE S == Situation
<1>1. DOMAIN S = {"progressing", "capturing", "overdue", "stuck", "escalated", "unconfirmed",
                  "ambiguous", "stopped", "challenged", "settled"}
  BY DEF Situation
<1>2. /\ S.progressing = Class("healthy", "workflow_progressing", FALSE)
      /\ S.capturing   = Class("send_confirmed_capture", "read_only_capture", FALSE)
      /\ S.overdue     = Class("send_confirmed_capture", "capture_stalled", TRUE)
      /\ S.stuck       = Class("stalled_before_send", "pre_send_stalled", FALSE)
      /\ S.escalated   = Class("stalled_before_send", "pre_send_escalated", TRUE)
      /\ S.unconfirmed = Class("ambiguous", "delivery_reconciling", FALSE)
      /\ S.ambiguous   = Class("ambiguous", "send_confirmation_ambiguous", TRUE)
      /\ S.stopped     = Class("human_required_other", "workflow_failed", TRUE)
      /\ S.challenged  = Class("auth_challenge", "authentication_required", TRUE)
      /\ S.settled     = Class("settled", "workflow_settled", FALSE)
  BY DEF Situation
<1> HIDE DEF S
<1>3. \A x \in DOMAIN S : Judged(S[x]) /\ S[x].state # "startup"
  <2>1. Judged(S.progressing) /\ S.progressing.state # "startup"
    BY <1>2, SilentClass, Quietly
  <2>2. Judged(S.capturing) /\ S.capturing.state # "startup"
    BY <1>2, SilentClass, Quietly
  <2>3. Judged(S.overdue) /\ S.overdue.state # "startup"
    BY <1>2, Told DEF Telling
  <2>4. Judged(S.stuck) /\ S.stuck.state # "startup"
    BY <1>2, SilentClass, Quietly
  <2>5. Judged(S.escalated) /\ S.escalated.state # "startup"
    BY <1>2, Told DEF Telling
  <2>6. Judged(S.unconfirmed) /\ S.unconfirmed.state # "startup"
    BY <1>2, SilentClass, Quietly
  <2>7. Judged(S.ambiguous) /\ S.ambiguous.state # "startup"
    BY <1>2, Told DEF Telling
  <2>8. Judged(S.stopped) /\ S.stopped.state # "startup"
    BY <1>2, Told DEF Telling
  <2>9. Judged(S.challenged) /\ S.challenged.state # "startup"
    BY <1>2, Told DEF Telling
  <2>10. Judged(S.settled) /\ S.settled.state # "startup"
    BY <1>2, SilentClass, Quietly
  <2> QED BY <1>1, <2>1, <2>2, <2>3, <2>4, <2>5, <2>6, <2>7, <2>8, <2>9, <2>10
<1> QED BY <1>3 DEF S

LEMMA UnresolvedOK == Judged(Unresolved) /\ Unresolved.state # "startup"
  BY Told DEF Unresolved, Telling

LEMMA FailureOK ==
  ASSUME NEW a \in {"start", "attach", "reconcile"}
  PROVE  Judged(Failure(a))
<1>1. Failed[a] \in {"start_failed", "attach_failed", "reconcile_failed"}
  BY DEF Failed
<1> QED BY <1>1, Told DEF Failure, Telling

LEMMA ClassifyOK ==
  ASSUME Shape, NEW wake \in BOOLEAN, NEW looping \in BOOLEAN, NEW expired \in BOOLEAN
  PROVE  /\ Judged(Classify(wake, looping, expired))
         /\ Classify(wake, looping, expired).state = "startup" => ~looping
<1> DEFINE c == Classify(wake, looping, expired)
<1>1. CASE wake
  <2>1. c = Class("power_sleep", "revalidation", FALSE)
    BY <1>1 DEF Classify
  <2> HIDE DEF c
  <2>2. Judged(c) /\ c.state = "power_sleep"
    BY <2>1, SilentClass, Quietly
  <2> QED BY <2>2 DEF c
<1>2. CASE ~wake /\ looping
  <2>1. c = Class("crash_loop", "broker_crash_loop", TRUE)
    BY <1>2 DEF Classify
  <2> HIDE DEF c
  <2>2. Judged(c) /\ c.state = "crash_loop"
    BY <2>1, Told DEF Telling
  <2> QED BY <2>2 DEF c
<1>3. CASE ~wake /\ ~looping
  <2>1. CASE world.broker = "dead"
    <3>1. c = Class("startup", "broker_dead", FALSE)
      BY <1>3, <2>1 DEF Classify
    <3> HIDE DEF c
    <3>2. Judged(c)
      BY <3>1, SilentClass, Quietly
    <3> QED BY <1>3, <3>2 DEF c
  <2>2. CASE world.broker = "unclear" /\ expired
    <3>1. c = Class("human_required_other", "ipc_unavailable", TRUE)
      BY <1>3, <2>2 DEF Classify
    <3> HIDE DEF c
    <3>2. Judged(c)
      BY <3>1, Told DEF Telling
    <3> QED BY <1>3, <3>2 DEF c
  <2>3. CASE world.broker = "unclear" /\ ~expired
    <3>1. c = Class("startup", "liveness_ambiguous", FALSE)
      BY <1>3, <2>3 DEF Classify
    <3> HIDE DEF c
    <3>2. Judged(c)
      BY <3>1, SilentClass, Quietly
    <3> QED BY <1>3, <3>2 DEF c
  <2>4. CASE world.broker \notin {"dead", "unclear"}
    <3>1. c = Situation[world.wf]
      BY <1>3, <2>4 DEF Classify
    <3>2. world.wf \in DOMAIN Situation
      BY DEF Shape
    <3> HIDE DEF c
    <3> QED BY <1>3, <3>1, <3>2, SituationOK DEF c
  <2> QED BY <2>1, <2>2, <2>3, <2>4
<1> QED BY <1>1, <1>2, <1>3

LEMMA ChooseOK ==
  ASSUME NEW c, Judged(c), NEW confirmed \in BOOLEAN
  PROVE  /\ Choose(c, confirmed) \in Allowed[c.state]
         /\ Choose(c, confirmed) = "start" => c.state = "startup"
<1>1. c.state \in DOMAIN Allowed /\ (c.human => "notify" \in Allowed[c.state])
  BY DEF Judged, ClassOK
<1>2. CASE c.state = "startup"
  <2>1. Choose(c, confirmed) \in {"start", "observe"}
    BY <1>2 DEF Choose
  <2> QED BY <1>2, <2>1, AllowedIs
<1>3. CASE c.state = "ambiguous"
  <2>1. c.state # "startup"
    BY <1>3
  <2>2. Choose(c, confirmed) = IF world.wf = "ambiguous" THEN "reconcile" ELSE "attach"
    BY <1>3, <2>1 DEF Choose
  <2> QED BY <1>3, <2>2, AllowedIs
<1>4. CASE c.state \notin {"startup", "ambiguous"} /\ c.human
  <2>1. Choose(c, confirmed) = "notify"
    BY <1>4 DEF Choose
  <2> QED BY <1>1, <1>4, <2>1
<1>5. CASE c.state \in {"healthy", "stalled_before_send", "send_confirmed_capture"} /\ ~c.human
  <2>1. Choose(c, confirmed) = "attach"
    BY <1>5 DEF Choose
  <2> QED BY <1>5, <2>1, AllowedIs
<1>6. CASE c.state \notin {"startup", "ambiguous", "healthy", "stalled_before_send",
                          "send_confirmed_capture"} /\ ~c.human
  <2>1. Choose(c, confirmed) = "observe"
    BY <1>6 DEF Choose
  <2> QED BY <1>1, <2>1, AllowedIs
<1>7. c.human \in BOOLEAN
  BY DEF Judged
<1> QED BY <1>2, <1>3, <1>4, <1>5, <1>6, <1>7

-----------------------------------------------------------------------------
(* The steps.                                                               *)
LEMMA NoTickFits ==
  ASSUME NEW p, p \notin Ticking
  PROVE  TickFits(NoTick, p)
<1>1. /\ DOMAIN NoTick = TickFields /\ NoTick.cls = Class("startup", "none", FALSE)
      /\ NoTick.starts = <<>> /\ NoTick.next = "finish" /\ NoTick.must = FALSE
  BY Fields DEF NoTick
<1>2. <<>> \in Seq(Nat) /\ Len(<<>>) = 0
  OBVIOUS
<1>3. Judged(NoTick.cls)
  BY <1>1, SilentClass, Quietly
<1>4. p \notin {"observed", "starting", "reconciling"}
  BY DEF Ticking
<1> DEFINE t == NoTick
<1>5. t.starts \in Seq(Nat) /\ Len(t.starts) <= StartLimit
  BY <1>1, <1>2, WindowIsNat
<1> HIDE DEF t
<1> QED BY <1>1, <1>3, <1>4, <1>5 DEF TickFits, t

LEMMA InitKeeps == Init => IInv
<1> SUFFICES ASSUME Init PROVE IInv
  OBVIOUS
<1>1. /\ world \in Worlds /\ st = Blank(1) /\ mem = Blank(0) /\ tick = NoTick /\ pc = "down"
      /\ spawned = <<>>
  BY DEF Init
<1>2. world \in [broker : {"up", "dead", "unclear"}, wf : DOMAIN Situation, stale : BOOLEAN]
  BY <1>1, WorldsAssumption
<1>3. Shape
  BY <1>1, <1>2, BlankOK, NoTickFits DEF Shape, Calls, Ticking
<1>4. st.starts = <<>>
  BY <1>1 DEF Blank
<1>5. AtLeast(<<>>, <<>>) /\ <<>> \in Seq(Nat)
  <2>1. <<>> \in Seq(Nat)
    OBVIOUS
  <2>2. ASSUME NEW s \in Seq(Nat) PROVE AtLeast(s, s)
    <3>1. ASSUME NEW w \in Ages PROVE Count(s, w) <= Count(s, w)
      BY CountIsNat
    <3> QED BY <3>1 DEF AtLeast
  <2> QED BY <2>1, <2>2
<1>6. Recorded
  BY <1>1, <1>4, <1>5 DEF Recorded, Noted, Ticking
<1> QED BY <1>3, <1>6 DEF IInv

(* The daemon is gone; the file stays.                                      *)
LEMMA GoneKeeps ==
  ASSUME IInv, Gone, st' = st, world' = world, spawned' = spawned
  PROVE  IInv'
<1>1. pc' = "down" /\ mem' = Blank(0) /\ tick' = NoTick
  BY DEF Gone
<1>2. Shape'
  BY <1>1, BlankOK, NoTickFits DEF Shape, Calls, Ticking, IInv
<1>3. Recorded'
  BY <1>1 DEF Recorded, Noted, Ticking, IInv
<1> QED BY <1>2, <1>3 DEF IInv

(* It is not in a tick and does not begin one.                              *)
LEMMA RestKeeps ==
  ASSUME IInv, pc \in {"down", "opened", "idle"}, pc' \in {"down", "opened", "idle"},
         UNCHANGED <<world, st, mem, tick, spawned>>
  PROVE  IInv'
<1>1. TickFits(tick, pc')
  BY DEF IInv, Shape, TickFits
<1>2. Shape'
  BY <1>1 DEF Shape, Calls, IInv
<1>3. Recorded'
  BY DEF Recorded, Noted, Ticking, IInv
<1> QED BY <1>2, <1>3 DEF IInv

(* Only the command line or the lease changes.                              *)
LEMMA StutterKeeps ==
  ASSUME IInv, UNCHANGED <<world, st, pc, tick, mem, spawned>>
  PROVE  IInv'
<1>1. Shape'
  BY DEF Shape, IInv
<1>2. Recorded'
  BY DEF Recorded, IInv
<1> QED BY <1>1, <1>2 DEF IInv

LEMMA ChangeKeeps == IInv /\ Change => IInv'
<1> SUFFICES ASSUME IInv, Change PROVE IInv'
  OBVIOUS
<1>1. world' \in Worlds /\ UNCHANGED <<pc, st, mem, tick, spawned>>
  BY DEF Change
<1>2. world' \in [broker : {"up", "dead", "unclear"}, wf : DOMAIN Situation, stale : BOOLEAN]
  BY <1>1, WorldsAssumption
<1>3. Shape'
  BY <1>1, <1>2 DEF Shape, IInv
<1>4. Recorded'
  BY <1>1 DEF Recorded, IInv
<1> QED BY <1>3, <1>4 DEF IInv

LEMMA PassKeeps == IInv /\ Pass => IInv'
<1> SUFFICES ASSUME IInv, Pass PROVE IInv'
  OBVIOUS
<1> DEFINE older == [i \in DOMAIN spawned |-> spawned[i] + 1]
<1>1. /\ pc \in {"down", "idle"} /\ st' = Aged(st) /\ spawned' = Recent(older)
      /\ UNCHANGED <<world, pc, mem, tick>>
  BY DEF Pass, env
<1>2. StoreOK(st) /\ spawned \in Seq(Nat) /\ AtLeast(st.starts, spawned)
  BY DEF IInv, Shape, Recorded, Noted
<1>3. st.starts \in Seq(Nat) /\ StoreOK(st') /\ st'.starts \in Seq(Nat)
      /\ Len(st'.starts) = Len(st.starts)
  BY <1>1, <1>2, AgedOK DEF StoreOK
<1>4. older \in Seq(Nat) /\ Len(older) = Len(spawned)
      /\ \A i \in 1..Len(spawned) : older[i] = spawned[i] + 1
  BY <1>2
<1>5. \A i \in 1..Len(st.starts) :
        \/ st'.starts[i] = st.starts[i] + 1
        \/ st'.starts[i] > StartWindow /\ st.starts[i] + 1 > StartWindow
  BY <1>1, <1>2, AgedOK
<1> HIDE DEF older
<1>6. AtLeast(st'.starts, older)
  BY <1>2, <1>3, <1>4, <1>5, AtLeastOlder
<1>7. AtLeast(st'.starts, spawned') /\ spawned' \in Seq(Nat)
  BY <1>1, <1>3, <1>4, <1>6, AtLeastRecent, OnlyKeeps DEF Recent
<1>8. Shape'
  BY <1>1, <1>3 DEF Shape, IInv
<1>9. Recorded'
  BY <1>1, <1>7 DEF Recorded, Noted, Ticking
<1> QED BY <1>8, <1>9 DEF IInv

(* A tick goes on without a call.                                           *)
LEMMA GoesOn ==
  ASSUME IInv, pc \in Ticking, UNCHANGED <<world, st, mem, tick, spawned>>,
         pc' \in {"report", "semantic", "backlog", "finish"}
  PROVE  IInv'
<1>1. TickFits(tick, pc')
  BY DEF IInv, Shape, TickFits
<1>2. Shape'
  BY <1>1 DEF Shape, Calls, Ticking, IInv
<1>3. Recorded'
  BY DEF Recorded, Noted, Ticking, IInv
<1> QED BY <1>2, <1>3 DEF IInv

LEMMA ObserveKeeps == IInv /\ Observe => IInv'
<1> SUFFICES ASSUME IInv, Observe PROVE IInv'
  OBVIOUS
<1>1. PICK e : e \in (IF world.broker = "unclear" THEN {None, epoch} ELSE {epoch}) /\
       LET s      == Resumed
           starts == Recent(s.starts)
           out    == Outage(s, e)
           recon  == IF s.recon = Snapshot THEN s.recon ELSE <<>>
           cls    == IF recon # <<>> THEN Unresolved
                     ELSE Classify(fresh /\ s.ticked, Len(starts) >= StartLimit,
                                   out.for >= AlertAfter)
           act    == Choose(cls, DeadFor(s) >= DeadConfirm)
       IN  /\ mem' = [s EXCEPT !.outage = out, !.recon = recon]
           /\ tick' = [NoTick EXCEPT
                !.cls = cls, !.act = act, !.must = act = "notify", !.snap = Snapshot,
                !.epoch = IF out.epoch # None THEN out.epoch ELSE e,
                !.stale = world.stale, !.starts = starts, !.deadFor = DeadFor(s)]
  BY Zenon DEF Observe
<1> DEFINE s == Resumed
           starts == Recent(s.starts)
           out == Outage(s, e)
           recon == IF s.recon = Snapshot THEN s.recon ELSE <<>>
           looping == Len(starts) >= StartLimit
           wake == fresh /\ s.ticked
           expired == out.for >= AlertAfter
           cls == IF recon # <<>> THEN Unresolved ELSE Classify(wake, looping, expired)
           confirmed == DeadFor(s) >= DeadConfirm
           act == Choose(cls, confirmed)
           t == [NoTick EXCEPT
                !.cls = cls, !.act = act, !.must = act = "notify", !.snap = Snapshot,
                !.epoch = IF out.epoch # None THEN out.epoch ELSE e,
                !.stale = world.stale, !.starts = starts, !.deadFor = DeadFor(s)]
           m == [s EXCEPT !.outage = out, !.recon = recon]
<1>2. mem' = m /\ tick' = t
  BY <1>1, Zenon
<1>3. /\ pc = "idle" /\ pc' \in {"observed", "finish"} /\ UNCHANGED <<world, st, spawned>>
  BY DEF Observe, env
<1>4. StoreOK(st) /\ Shape
  BY DEF IInv, Shape
<1>5. StoreOK(s) /\ s.starts = st.starts
  BY <1>4, ResumedOK
<1>6. Judged(cls) /\ (cls.state = "startup" => ~looping)
  <2> HIDE DEF s, starts, out, recon
  <2>1. CASE recon # <<>>
    BY <2>1, UnresolvedOK
  <2>2. CASE recon = <<>>
    <3>1. cls = Classify(wake, looping, expired)
      BY <2>2
    <3>2. wake \in BOOLEAN /\ looping \in BOOLEAN /\ expired \in BOOLEAN
      OBVIOUS
    <3> HIDE DEF wake, looping, expired, cls
    <3> QED BY <1>4, <3>1, <3>2, ClassifyOK
  <2> QED BY <2>1, <2>2
<1>7. act \in Allowed[cls.state] /\ (act = "start" => cls.state = "startup")
  <2>1. confirmed \in BOOLEAN
    OBVIOUS
  <2> HIDE DEF cls, confirmed
  <2> QED BY <1>6, <2>1, ChooseOK
<1>8. /\ starts \in Seq(Nat) /\ Len(starts) <= StartLimit /\ Len(starts) \in Nat
      /\ AtLeast(starts, spawned)
  <2>1. st.starts \in Seq(Nat) /\ Len(st.starts) <= StartLimit /\ spawned \in Seq(Nat)
        /\ AtLeast(st.starts, spawned)
    BY DEF IInv, Shape, StoreOK, Recorded, Noted
  <2>2. Recent(st.starts) \in Seq(Nat) /\ Len(Recent(st.starts)) <= Len(st.starts)
    BY <2>1, OnlyKeeps DEF Recent
  <2>3. AtLeast(Recent(st.starts), spawned)
    BY <2>1, AtLeastRecent
  <2>4. Len(Recent(st.starts)) \in Nat /\ Len(st.starts) \in Nat
    BY <2>1, <2>2
  <2> HIDE DEF s
  <2> QED BY <1>5, <2>1, <2>2, <2>3, <2>4, WindowIsNat
<1> HIDE DEF s
<1>9. DOMAIN m = StateFields /\ m.note = s.note /\ m.backlog = s.backlog /\ m.starts = s.starts
  <2> HIDE DEF out, recon
  <2> QED BY <1>5, Fields DEF StoreOK
<1>10. StoreOK(m)
  <2> HIDE DEF m
  <2> QED BY <1>5, <1>9 DEF StoreOK
<1>11. /\ DOMAIN t = TickFields /\ t.cls = cls /\ t.act = act /\ t.starts = starts
       /\ t.must \in BOOLEAN /\ t.next = "finish"
  <2> HIDE DEF cls, act, starts, out
  <2> QED BY Fields DEF NoTick
<1> HIDE DEF t, m, cls, act, looping
<1>12. act = "start" => Len(starts) < StartLimit
  BY <1>6, <1>7, <1>8, WindowIsNat DEF looping
<1> HIDE DEF starts
<1>13. TickFits(t, pc')
  BY <1>3, <1>6, <1>7, <1>8, <1>11, <1>12 DEF TickFits
<1>14. Shape'
  BY <1>2, <1>3, <1>10, <1>13 DEF Shape, IInv, Calls, Ticking
<1>15. Recorded'
  <2>1. m.starts = st.starts /\ tick'.starts = starts /\ mem' = m
    BY <1>2, <1>5, <1>9, <1>11
  <2> QED BY <1>3, <1>8, <2>1 DEF Recorded, Noted, IInv
<1> QED BY <1>14, <1>15 DEF IInv

LEMMA RecordStartKeeps == IInv /\ RecordStart => IInv'
<1> SUFFICES ASSUME IInv, RecordStart PROVE IInv'
  OBVIOUS
<1> DEFINE more == Append(tick.starts, 0)
           t == [tick EXCEPT !.starts = more]
           m == [mem EXCEPT !.starts = more]
<1>1. /\ pc = "observed" /\ tick.act = "start" /\ pc' = "starting"
      /\ UNCHANGED <<world, spawned>>
  BY DEF RecordStart, env
<1>2. /\ TickFits(tick, pc) /\ StoreOK(mem) /\ spawned \in Seq(Nat)
      /\ AtLeast(tick.starts, spawned) /\ tick.starts \in Seq(Nat) /\ Len(tick.starts) < StartLimit
  BY <1>1 DEF IInv, Shape, TickFits, Recorded, Noted, Ticking
<1>3. tick' = t
  BY DEF RecordStart
<1>4. more \in Seq(Nat) /\ Len(more) <= StartLimit
      /\ AtLeast(more, spawned) /\ AtLeast(more, Append(spawned, 0))
  BY <1>2, AtLeastAppend, WindowIsNat
<1> HIDE DEF more
<1>5. /\ DOMAIN t = TickFields /\ t.starts = more /\ t.cls = tick.cls /\ t.next = tick.next
      /\ t.must = tick.must /\ t.act = tick.act
  BY <1>2, Fields DEF TickFits
<1>6. mem' = m /\ st' = m
  BY <1>3, <1>5 DEF RecordStart
<1>7. DOMAIN m = StateFields /\ m.note = mem.note /\ m.backlog = mem.backlog /\ m.starts = more
  BY <1>2, Fields DEF StoreOK
<1> HIDE DEF t, m
<1>8. StoreOK(m)
  BY <1>2, <1>4, <1>7 DEF StoreOK
<1>9. TickFits(t, pc')
  BY <1>1, <1>2, <1>4, <1>5 DEF TickFits
<1>10. Shape'
  BY <1>1, <1>3, <1>6, <1>8, <1>9 DEF Shape, IInv, Calls, Ticking
<1>11. Recorded'
  BY <1>1, <1>2, <1>3, <1>4, <1>5, <1>6, <1>7 DEF Recorded, Noted
<1> QED BY <1>10, <1>11 DEF IInv

(* A step that failed is told of.                                           *)
LEMMA FailFits ==
  ASSUME IInv, tick.act \in {"start", "attach", "reconcile"}, Fail,
         NEW q, q \notin {"observed", "starting", "reconciling"}
  PROVE  TickFits(tick', q) /\ tick'.starts = tick.starts
<1> DEFINE c == Failure(tick.act)
           t == [tick EXCEPT !.cls = c, !.must = TRUE]
<1>1. tick' = t
  BY DEF Fail
<1>2. Judged(c)
  BY FailureOK
<1>3. TickFits(tick, pc)
  BY DEF IInv, Shape
<1> HIDE DEF c
<1>4. /\ DOMAIN t = TickFields /\ t.starts = tick.starts /\ t.cls = c /\ t.next = tick.next
      /\ t.must = TRUE
  BY <1>3, Fields DEF TickFits
<1> HIDE DEF t
<1> QED BY <1>1, <1>2, <1>3, <1>4 DEF TickFits

LEMMA StartBrokerKeeps == IInv /\ StartBroker => IInv'
<1> SUFFICES ASSUME IInv, StartBroker PROVE IInv'
  OBVIOUS
<1>1. pc = "starting" /\ pc' = "report" /\ UNCHANGED <<st, mem>>
  BY DEF StartBroker
<1>2. /\ spawned \in Seq(Nat) /\ tick.act = "start" /\ TickFits(tick, pc)
      /\ Noted(spawned, st.starts, mem.starts, tick.starts, pc)
      /\ Noted(Append(spawned, 0), st.starts, mem.starts, tick.starts, pc)
  BY <1>1 DEF IInv, Shape, Recorded, TickFits
<1>3. TickFits(tick', pc') /\ tick'.starts = tick.starts
  <2>1. tick' = tick \/ Fail
    BY DEF StartBroker
  <2>2. CASE tick' = tick
    BY <1>1, <1>2, <2>2 DEF TickFits
  <2>3. CASE Fail
    BY <1>1, <1>2, <2>3, FailFits
  <2> QED BY <2>1, <2>2, <2>3
<1>4. world' \in [broker : {"up", "dead", "unclear"}, wf : DOMAIN Situation, stale : BOOLEAN]
  <2>1. world \in [broker : {"up", "dead", "unclear"}, wf : DOMAIN Situation, stale : BOOLEAN]
    BY DEF IInv, Shape
  <2>2. world' = world \/ world' = [world EXCEPT !.broker = "up"]
    BY DEF StartBroker
  <2> QED BY <2>1, <2>2
<1>5. spawned' \in {spawned, Append(spawned, 0)}
  BY DEF StartBroker
<1>6. Shape'
  BY <1>1, <1>3, <1>4 DEF Shape, IInv, Calls, Ticking
<1>7. spawned' \in Seq(Nat) /\ Noted(spawned', st.starts, mem.starts, tick.starts, pc)
  <2>1. CASE spawned' = spawned
    BY <1>2, <2>1
  <2>2. CASE spawned' = Append(spawned, 0)
    <3>1. Append(spawned, 0) \in Seq(Nat)
      BY <1>2
    <3> QED BY <1>2, <2>2, <3>1
  <2> QED BY <1>5, <2>1, <2>2
<1>8. Recorded'
  BY <1>1, <1>3, <1>7 DEF Recorded, Noted, Ticking
<1> QED BY <1>6, <1>8 DEF IInv

LEMMA AttachKeeps == IInv /\ Attach => IInv'
<1> SUFFICES ASSUME IInv, Attach PROVE IInv'
  OBVIOUS
<1>1. pc = "observed" /\ pc' = "report" /\ tick.act = "attach"
      /\ UNCHANGED <<world, st, mem, spawned>>
  BY DEF Attach, env
<1>2. TickFits(tick', pc') /\ tick'.starts = tick.starts
  <2>1. tick' = tick \/ Fail
    BY DEF Attach
  <2>2. CASE tick' = tick
    BY <1>1, <2>2 DEF TickFits, IInv, Shape
  <2>3. CASE Fail
    BY <1>1, <2>3, FailFits
  <2> QED BY <2>1, <2>2, <2>3
<1>3. Shape'
  BY <1>1, <1>2 DEF Shape, IInv, Calls, Ticking
<1>4. Recorded'
  BY <1>1, <1>2 DEF Recorded, Noted, Ticking, IInv
<1> QED BY <1>3, <1>4 DEF IInv

LEMMA RecordReconcileKeeps == IInv /\ RecordReconcile => IInv'
<1> SUFFICES ASSUME IInv, RecordReconcile PROVE IInv'
  OBVIOUS
<1>1. pc = "observed" /\ pc' = "reconciling" /\ tick.act = "reconcile" /\ st' = mem
      /\ UNCHANGED <<world, tick, mem, spawned>>
  BY DEF RecordReconcile, env
<1>2. TickFits(tick, pc')
  BY <1>1 DEF IInv, Shape, TickFits
<1>3. Shape'
  BY <1>1, <1>2 DEF Shape, IInv, Calls, Ticking
<1>4. Recorded'
  BY <1>1 DEF Recorded, Noted, Ticking, IInv
<1> QED BY <1>3, <1>4 DEF IInv

LEMMA ReconcileKeeps == IInv /\ Reconcile => IInv'
<1> SUFFICES ASSUME IInv, Reconcile PROVE IInv'
  OBVIOUS
<1>1. pc = "reconciling" /\ pc' = "report" /\ UNCHANGED <<world, st, spawned>>
  BY DEF Reconcile, env
<1>2. TickFits(tick, pc) /\ tick.act = "reconcile" /\ StoreOK(mem)
  BY <1>1 DEF IInv, Shape, TickFits
<1>3. /\ TickFits(tick', pc') /\ tick'.starts = tick.starts
      /\ StoreOK(mem') /\ mem'.starts = mem.starts
  <2>1. CASE Fail /\ mem' = mem
    BY <1>1, <1>2, <2>1, FailFits
  <2>2. CASE /\ mem' = [mem EXCEPT !.recon = tick.snap]
             /\ tick' = [tick EXCEPT !.cls = Unresolved, !.must = TRUE]
    <3> DEFINE m == [mem EXCEPT !.recon = tick.snap]
               c == Unresolved
               t == [tick EXCEPT !.cls = c, !.must = TRUE]
    <3>1. DOMAIN m = StateFields /\ m.note = mem.note /\ m.backlog = mem.backlog
          /\ m.starts = mem.starts
      BY <1>2, Fields DEF StoreOK
    <3>2. Judged(c)
      BY UnresolvedOK
    <3> HIDE DEF m, c
    <3>3. /\ DOMAIN t = TickFields /\ t.starts = tick.starts /\ t.cls = c /\ t.next = tick.next
          /\ t.must = TRUE
      BY <1>2, Fields DEF TickFits
    <3>4. mem' = m /\ tick' = t
      BY <2>2 DEF m, c
    <3> HIDE DEF t
    <3>5. StoreOK(m)
      BY <1>2, <3>1 DEF StoreOK
    <3>6. TickFits(t, pc')
      BY <1>1, <1>2, <3>2, <3>3 DEF TickFits
    <3> QED BY <3>1, <3>3, <3>4, <3>5, <3>6
  <2> QED BY <2>1, <2>2 DEF Reconcile
<1>4. Shape'
  BY <1>1, <1>3 DEF Shape, IInv, Calls, Ticking
<1>5. Recorded'
  BY <1>1, <1>3 DEF Recorded, Noted, Ticking, IInv
<1> QED BY <1>4, <1>5 DEF IInv

LEMMA WatchesKeeps == IInv /\ Watches => IInv'
<1> SUFFICES ASSUME IInv, Watches PROVE IInv'
  OBVIOUS
<1>1. pc = "observed" /\ pc' = "report" /\ UNCHANGED <<world, st, tick, mem, spawned>>
  BY DEF Watches, env
<1> QED BY <1>1, GoesOn DEF Ticking

(* What a call is about is a report.                                        *)
LEMMA AtOK ==
  ASSUME NEW s, StoreOK(s), NEW w, w # "note" => s.backlog # <<>>
  PROVE  NoteOK(At(s, w))
<1>1. CASE w = "note"
  BY <1>1 DEF At, StoreOK, ReportsOK, CurrentOK
<1>2. CASE w # "note"
  <2> DEFINE b == s.backlog
  <2>1. b \in Seq(ToSet(b)) /\ b # <<>> /\ \A x \in ToSet(b) : NoteOK(x)
    BY <1>2 DEF StoreOK, ReportsOK, BacklogOK, Retainable
  <2>2. Len(b) \in 1..Len(b)
    BY <2>1
  <2>3. b[Len(b)] \in ToSet(b)
    BY <2>1, <2>2, OwnElements
  <2> QED BY <1>2, <2>1, <2>3 DEF At, Last
<1> QED BY <1>1, <1>2

(* A report is submitted, or may wait.                                      *)
LEMMA SubmitKeeps ==
  ASSUME IInv, pc \in {"report", "semantic", "backlog"},
         NEW s, StoreOK(s), s.starts = mem.starts,
         NEW w, w = "note" => s.note.key # NoNote.key, w # "note" => s.backlog # <<>>,
         NEW next \in {"semantic", "backlog", "finish"},
         Submit(s, w, next), UNCHANGED <<world, spawned>>
  PROVE  IInv'
<1>1. TickFits(tick, pc) /\ Noted(spawned, st.starts, mem.starts, tick.starts, pc)
      /\ spawned \in Seq(Nat) /\ pc \in Ticking
  BY DEF IInv, Shape, Recorded, Ticking
<1>2. CASE Skipped(At(s, w))
  <2>1. mem' = s /\ pc' = next /\ UNCHANGED <<st, tick>>
    BY <1>2 DEF Submit
  <2>2. TickFits(tick, pc')
    BY <1>1, <2>1 DEF TickFits
  <2>3. Shape'
    BY <2>1, <2>2 DEF Shape, IInv, Calls, Ticking
  <2>4. Recorded'
    BY <1>1, <2>1 DEF Recorded, Noted, Ticking
  <2> QED BY <2>3, <2>4 DEF IInv
<1>3. CASE ~Skipped(At(s, w))
  <2> DEFINE n == Dispatched(At(s, w))
             m == Put(s, w, n)
             t == [tick EXCEPT !.where = w, !.next = next]
  <2>1. mem' = m /\ st' = m /\ pc' = "calling" /\ tick' = t
    BY <1>3 DEF Submit
  <2>2. NoteOK(At(s, w))
    BY AtOK
  <2>3. NoteOK(n) /\ n.key = At(s, w).key /\ n.outcome = "dispatching"
    BY <2>2, DispatchedOK
  <2> HIDE DEF n
  <2>4. /\ StoreOK(m) /\ m.starts = s.starts /\ At(m, w) = n
        /\ w = "note" => m.note.key # NoNote.key
        /\ w # "note" => m.backlog # <<>>
    BY <2>3, PutOK
  <2>5. /\ DOMAIN t = TickFields /\ t.starts = tick.starts /\ t.cls = tick.cls
        /\ t.next = next /\ t.must = tick.must /\ t.where = w
    BY <1>1, Fields DEF TickFits
  <2> HIDE DEF m, t
  <2>6. TickFits(t, pc')
    BY <1>1, <2>1, <2>5 DEF TickFits
  <2>7. Calls(m, w, pc')
    BY <2>1, <2>3, <2>4 DEF Calls
  <2>8. Shape'
    BY <2>1, <2>4, <2>5, <2>6, <2>7 DEF Shape, IInv, Ticking
  <2>9. Recorded'
    BY <1>1, <2>1, <2>4, <2>5 DEF Recorded, Noted, Ticking
  <2> QED BY <2>8, <2>9 DEF IInv
<1> QED BY <1>2, <1>3

(* What a tick tells of has a key of its own.                               *)
LEMMA KeyIs ==
  ASSUME NEW c, NEW e, NEW snap, NEW live
  PROVE  Key(c, e, snap, live).reason = c.reason /\ Key(c, e, snap, live).state = c.state
  BY DEF Key

LEMMA JudgedIncident ==
  ASSUME NEW c, Judged(c), c.human, NEW e, NEW snap, NEW live
  PROVE  IncidentOK(Key(c, e, snap, live))
<1> DEFINE k == Key(c, e, snap, live)
<1>1. k.reason = c.reason /\ k.state = c.state
  BY KeyIs
<1> HIDE DEF k
<1> QED BY <1>1 DEF IncidentOK, Judged, ClassOK, k

LEMMA StagnantIncident ==
  ASSUME NEW state \in {"healthy", "send_confirmed_capture"}, NEW e, NEW snap, NEW live
  PROVE  IncidentOK(Key(Class(state, "semantic_stagnant", TRUE), e, snap, live))
<1> DEFINE c == Class(state, "semantic_stagnant", TRUE)
           k == Key(c, e, snap, live)
<1>1. c.reason = "semantic_stagnant" /\ c.state = state
  BY DEF Class
<1> HIDE DEF c
<1>2. k.reason = "semantic_stagnant" /\ k.state = state
  BY <1>1, KeyIs
<1> HIDE DEF k
<1>3. "notify" \in Allowed[state]
  BY AllowedIs
<1> QED BY <1>2, <1>3, Constants DEF IncidentOK, k, c

LEMMA ReportIncidentKeeps == IInv /\ ReportIncident => IInv'
<1> SUFFICES ASSUME IInv, ReportIncident PROVE IInv'
  OBVIOUS
<1>1. pc = "report" /\ UNCHANGED <<world, spawned>>
  BY DEF ReportIncident, env
<1>2. StoreOK(mem) /\ TickFits(tick, pc) /\ Judged(tick.cls)
  BY DEF IInv, Shape, TickFits
<1> DEFINE k == Key(tick.cls, tick.epoch, tick.snap, <<>>)
           s == Placed(mem, k)
<1>3. CASE tick.must /\ tick.cls.human /\ Submit(s, "note", "semantic")
  <2>1. IncidentOK(k)
    BY <1>2, <1>3, JudgedIncident
  <2> HIDE DEF k
  <2>2. StoreOK(s) /\ s.note.key = k /\ s.starts = mem.starts
    BY <1>2, <2>1, PlacedOK
  <2>3. s.note.key # NoNote.key
    BY <2>1, <2>2 DEF IncidentOK
  <2> HIDE DEF s
  <2> QED BY <1>1, <1>3, <2>2, <2>3, SubmitKeeps
<1>4. CASE Open(mem.note) /\ Submit(mem, "note", "semantic")
  <2>1. mem.note.key # NoNote.key
    BY <1>2, <1>4 DEF Open, StoreOK, ReportsOK, CurrentOK
  <2> QED BY <1>1, <1>2, <1>4, <2>1, SubmitKeeps
<1>5. CASE /\ mem' = IF tick.cls.state \in Quiet THEN [mem EXCEPT !.note = NoNote] ELSE mem
           /\ pc' = "semantic" /\ UNCHANGED <<st, tick>>
  <2> DEFINE m == [mem EXCEPT !.note = NoNote]
  <2>1. /\ DOMAIN m = StateFields /\ m.note = NoNote /\ m.backlog = mem.backlog
        /\ m.starts = mem.starts
    BY <1>2, Fields DEF StoreOK
  <2>2. mem' = m \/ mem' = mem
    BY <1>5
  <2> HIDE DEF m
  <2>3. StoreOK(m)
    <3>1. ReportsOK(NoNote, mem.backlog)
      BY <1>2, NoNoteOK DEF StoreOK, ReportsOK, BacklogOK, Retainable
    <3> QED BY <1>2, <2>1, <3>1 DEF StoreOK
  <2>4. StoreOK(mem') /\ mem'.starts = mem.starts
    BY <1>2, <2>1, <2>2, <2>3
  <2>5. TickFits(tick, pc')
    BY <1>1, <1>2, <1>5 DEF TickFits
  <2>6. Shape'
    BY <1>1, <1>5, <2>4, <2>5 DEF Shape, IInv, Calls, Ticking
  <2>7. Recorded'
    BY <1>1, <1>5, <2>4 DEF Recorded, Noted, Ticking, IInv
  <2> QED BY <2>6, <2>7 DEF IInv
<1> QED BY <1>3, <1>4, <1>5 DEF ReportIncident

LEMMA ReportStagnationKeeps == IInv /\ ReportStagnation => IInv'
<1> SUFFICES ASSUME IInv, ReportStagnation PROVE IInv'
  OBVIOUS
<1>1. pc = "semantic" /\ UNCHANGED <<world, spawned>>
  BY DEF ReportStagnation, env
<1>2. StoreOK(mem)
  BY DEF IInv, Shape
<1> DEFINE c == Class(tick.cls.state, "semantic_stagnant", TRUE)
           k == Key(c, tick.epoch, tick.snap, <<tick.epoch>>)
           s == Placed(mem, k)
<1>3. CASE Stagnant /\ Submit(s, "note", "backlog")
  <2>1. IncidentOK(k)
    BY <1>3, StagnantIncident DEF Stagnant
  <2> HIDE DEF k
  <2>2. StoreOK(s) /\ s.note.key = k /\ s.starts = mem.starts
    BY <1>2, <2>1, PlacedOK
  <2>3. s.note.key # NoNote.key
    BY <2>1, <2>2 DEF IncidentOK
  <2> HIDE DEF s
  <2> QED BY <1>1, <1>3, <2>2, <2>3, SubmitKeeps
<1>4. CASE pc' = "backlog" /\ UNCHANGED <<st, tick, mem>>
  BY <1>1, <1>4, GoesOn DEF Ticking
<1> QED BY <1>3, <1>4 DEF ReportStagnation

(* Among some places there is a first one.                                  *)
LEMMA Earliest ==
  ASSUME NEW S \in SUBSET Nat, S # {}
  PROVE  \E i \in S : \A j \in S : i <= j
<1> DEFINE first == \E i \in S : \A j \in S : i <= j
           P == {n \in Nat : (\E i \in S : i <= n) => first}
<1>1. 0 \in P
  <2>1. ASSUME NEW i \in S, i <= 0 PROVE \A j \in S : i <= j
    BY <2>1
  <2> QED BY <2>1
<1>2. ASSUME NEW n \in P PROVE n + 1 \in P
  <2>1. CASE \E i \in S : i <= n
    BY <2>1
  <2>2. CASE ~\E i \in S : i <= n
    <3>1. ASSUME NEW i \in S, i <= n + 1 PROVE \A j \in S : i <= j
      BY <2>2, <3>1
    <3> QED BY <3>1
  <2> QED BY <2>1, <2>2
<1>3. P \in SUBSET Nat
  OBVIOUS
<1>4. \A n \in Nat : (\E i \in S : i <= n) => first
  <2> HIDE DEF P
  <2>1. \A n \in Nat : n \in P
    BY <1>1, <1>2, <1>3, Induction
  <2> QED BY <2>1 DEF P
<1>5. PICK n \in S : TRUE
  OBVIOUS
<1>6. \E i \in S : i <= n
  OBVIOUS
<1> QED BY <1>4, <1>6

LEMMA ReportBacklogKeeps == IInv /\ ReportBacklog => IInv'
<1> SUFFICES ASSUME IInv, ReportBacklog PROVE IInv'
  OBVIOUS
<1>1. pc = "backlog" /\ UNCHANGED <<world, spawned>>
  BY DEF ReportBacklog, env
<1>2. StoreOK(mem)
  BY DEF IInv, Shape
<1> DEFINE b == mem.backlog
           due == {i \in DOMAIN b : Open(b[i]) /\ b[i].retryIn <= 0}
           i == CHOOSE j \in due : \A k \in due : j <= k
           c == Append(RemoveAt(b, i), b[i])
           s == [mem EXCEPT !.backlog = c]
<1>3. CASE pc' = "finish" /\ UNCHANGED <<st, tick, mem>>
  BY <1>1, <1>3, GoesOn DEF Ticking
<1>4. CASE due # {} /\ Submit(s, "backlog", "finish")
  <2>1. b \in Seq(ToSet(b)) /\ ReportsOK(mem.note, b) /\ DOMAIN mem = StateFields
    BY <1>2 DEF StoreOK, ReportsOK, BacklogOK
  <2>2. i \in due
    <3>1. due \in SUBSET Nat
      BY <2>1
    <3> HIDE DEF due
    <3>2. \E j \in due : \A k \in due : j <= k
      BY <1>4, <3>1, Earliest
    <3> QED BY <3>2, Zenon
  <2>3. i \in DOMAIN b
    BY <2>2
  <2> HIDE DEF i, due
  <2>4. ReportsOK(mem.note, c) /\ c # <<>>
    <3> HIDE DEF b, c
    <3> QED BY <2>1, <2>3, RotatedOK DEF c
  <2> HIDE DEF c
  <2>5. DOMAIN s = StateFields /\ s.note = mem.note /\ s.backlog = c /\ s.starts = mem.starts
    BY <2>1, Fields
  <2> HIDE DEF s
  <2>6. StoreOK(s)
    BY <1>2, <2>4, <2>5 DEF StoreOK
  <2> QED BY <1>1, <1>4, <2>4, <2>5, <2>6, SubmitKeeps
<1>5. CASE due = {}
  BY <1>3, <1>5 DEF ReportBacklog
<1>6. CASE due # {}
  <2>1. Submit([mem EXCEPT !.backlog = Append(RemoveAt(@, i), @[i])], "backlog", "finish")
    BY <1>6, Zenon DEF ReportBacklog
  <2> QED BY <1>4, <1>6, <2>1
<1> QED BY <1>5, <1>6

LEMMA AnswerKeeps == IInv /\ Answer => IInv'
<1> SUFFICES ASSUME IInv, Answer PROVE IInv'
  OBVIOUS
<1>1. pc = "calling" /\ pc' = "answered" /\ UNCHANGED <<world, st, tick, spawned>>
  BY DEF Answer, env
<1> DEFINE w == tick.where  n == At(mem, w)
<1>2. /\ StoreOK(mem) /\ TickFits(tick, pc) /\ n.outcome = "dispatching"
      /\ w = "note" => mem.note.key # NoNote.key
      /\ w # "note" => mem.backlog # <<>>
  BY <1>1 DEF IInv, Shape, Calls
<1>3. NoteOK(n)
  BY <1>2, AtOK
<1>4. mem' \in {Put(mem, w, Accepted(n)), Put(mem, w, Refused(n))}
  BY DEF Answer
<1> HIDE DEF n
<1>5. ASSUME NEW r, NoteOK(r), r.key = n.key, mem' = Put(mem, w, r)
      PROVE  /\ StoreOK(mem') /\ mem'.starts = mem.starts
             /\ w = "note" => mem'.note.key # NoNote.key
             /\ w # "note" => mem'.backlog # <<>>
  BY <1>2, <1>5, PutOK DEF n
<1>6. /\ StoreOK(mem') /\ mem'.starts = mem.starts
      /\ w = "note" => mem'.note.key # NoNote.key
      /\ w # "note" => mem'.backlog # <<>>
  BY <1>2, <1>3, <1>4, <1>5, AcceptedOK, RefusedOK
<1>7. TickFits(tick, pc')
  BY <1>1, <1>2 DEF TickFits
<1>8. Calls(mem', w, pc')
  BY <1>1, <1>6 DEF Calls
<1>9. Shape'
  BY <1>1, <1>6, <1>7, <1>8 DEF Shape, IInv, Ticking
<1>10. Recorded'
  BY <1>1, <1>6 DEF Recorded, Noted, Ticking, IInv
<1> QED BY <1>9, <1>10 DEF IInv

LEMMA StoreAnswerKeeps == IInv /\ StoreAnswer => IInv'
<1> SUFFICES ASSUME IInv, StoreAnswer PROVE IInv'
  OBVIOUS
<1>1. pc = "answered" /\ st' = mem /\ pc' = tick.next /\ UNCHANGED <<world, tick, mem, spawned>>
  BY DEF StoreAnswer, env
<1>2. TickFits(tick, pc) /\ pc' \in {"semantic", "backlog", "finish"}
  BY <1>1 DEF IInv, Shape, TickFits
<1>3. TickFits(tick, pc')
  BY <1>2 DEF TickFits
<1>4. Shape'
  BY <1>1, <1>2, <1>3 DEF Shape, IInv, Calls, Ticking
<1>5. Recorded'
  BY <1>1, <1>2 DEF Recorded, Noted, Ticking, IInv
<1> QED BY <1>4, <1>5 DEF IInv

LEMMA FinishKeeps == IInv /\ Finish => IInv'
<1> SUFFICES ASSUME IInv, Finish PROVE IInv'
  OBVIOUS
<1> DEFINE b == IF session.mode = "safe" THEN Only(mem.backlog, Opened(mem)) ELSE mem.backlog
           told == IF Stagnant THEN mem.told \cup {tick.epoch} ELSE mem.told
           s == [mem EXCEPT !.backlog = b, !.told = told, !.starts = tick.starts,
                            !.deadFor = tick.deadFor, !.ticked = TRUE]
<1>1. /\ pc = "finish" /\ pc' = "idle" /\ mem' = Blank(0) /\ tick' = NoTick
      /\ UNCHANGED <<world, spawned>>
  BY DEF Finish, env
<1>2. /\ StoreOK(mem) /\ tick.starts \in Seq(Nat) /\ Len(tick.starts) <= StartLimit
      /\ AtLeast(tick.starts, spawned)
  BY <1>1 DEF IInv, Shape, TickFits, Recorded, Noted, Ticking
<1>3. st' = s
  BY Zenon DEF Finish
<1>4. ReportsOK(mem.note, b)
  BY <1>2, OpenOnlyOK DEF StoreOK
<1> HIDE DEF b, told
<1>5. DOMAIN s = StateFields /\ s.note = mem.note /\ s.backlog = b /\ s.starts = tick.starts
  BY <1>2, Fields DEF StoreOK
<1> HIDE DEF s
<1>6. StoreOK(s)
  BY <1>2, <1>4, <1>5 DEF StoreOK
<1>7. Shape'
  BY <1>1, <1>3, <1>6, BlankOK, NoTickFits DEF Shape, IInv, Calls, Ticking
<1>8. Recorded'
  BY <1>1, <1>2, <1>3, <1>5 DEF Recorded, Noted, Ticking, IInv
<1> QED BY <1>7, <1>8 DEF IInv

LEMMA NextKeeps == IInv /\ [Next]_vars => IInv'
<1> SUFFICES ASSUME IInv, [Next]_vars PROVE IInv'
  OBVIOUS
<1>1. CASE OpenLock
  BY <1>1, RestKeeps DEF OpenLock, env
<1>2. CASE Claim
  BY <1>2, RestKeeps DEF Claim, env
<1>3. CASE Pass
  BY <1>3, PassKeeps
<1>4. CASE Change
  BY <1>4, ChangeKeeps
<1>5. CASE Die
  BY <1>5, GoneKeeps DEF Die, env
<1>6. CASE CliStop
  BY <1>6, GoneKeeps DEF CliStop, env
<1>7. CASE \E m \in {"shadow", "safe"} : CliStart(m)
  <2>1. UNCHANGED <<world, st, pc, tick, mem, spawned>>
    BY <1>7 DEF CliStart, env
  <2> QED BY <2>1, StutterKeeps
<1>8. CASE UNCHANGED vars
  <2>1. UNCHANGED <<world, st, pc, tick, mem, spawned>>
    BY <1>8 DEF vars
  <2> QED BY <2>1, StutterKeeps
<1> QED BY <1>1, <1>2, <1>3, <1>4, <1>5, <1>6, <1>7, <1>8, ObserveKeeps, RecordStartKeeps,
           StartBrokerKeeps, AttachKeeps, RecordReconcileKeeps, ReconcileKeeps, WatchesKeeps,
           ReportIncidentKeeps, ReportStagnationKeeps, ReportBacklogKeeps, AnswerKeeps,
           StoreAnswerKeeps, FinishKeeps
        DEF Next, Daemon

THEOREM Inductive == Spec => []IInv
<1>1. Init => IInv
  BY InitKeeps
<1>2. IInv /\ [Next]_vars => IInv'
  BY NextKeeps
<1> QED BY <1>1, <1>2, PTL DEF Spec

-----------------------------------------------------------------------------
(* What the invariant says of the stored state.                             *)
LEMMA StoreValid ==
  ASSUME NEW s, StoreOK(s)
  PROVE  Valid(s)
<1> DEFINE b == s.backlog  n == s.note
<1>1. CurrentOK(n) /\ BacklogOK(b) /\ \A m \in ToSet(b) : m.key # n.key
  BY DEF StoreOK, ReportsOK
<1>2. b \in Seq(ToSet(b)) /\ DOMAIN b = 1..Len(b) /\ \A i \in DOMAIN b : b[i] \in ToSet(b)
  BY <1>1, OwnElements DEF BacklogOK
<1>3. ReportValid(n)
  BY <1>1 DEF CurrentOK, NoteOK
<1>4. ASSUME NEW i \in DOMAIN b
      PROVE  /\ ReportValid(b[i]) /\ b[i].key # n.key
             /\ \A j \in DOMAIN b : b[i].key = b[j].key => i = j
  BY <1>1, <1>2 DEF BacklogOK, Retainable, NoteOK, Distinct
<1>5. Len(b) > BacklogLimit => Overflow.key \in Keys(s)
  BY <1>1 DEF BacklogOK, Keys
<1>6. Len(b) <= BacklogLimit + 1 /\ Len(s.starts) <= StartLimit
  BY <1>1 DEF BacklogOK, StoreOK
<1> QED BY <1>3, <1>4, <1>5, <1>6 DEF Valid

(* For every number of sessions, changes of the world and faults, every limit  *)
(* and every interval: the file the daemon leaves at whatever step it dies is  *)
(* one the next tick accepts, and no tick acts or alerts against its policy.   *)
THEOREM StateValidHolds == Spec => []StateValid
<1>1. IInv => StateValid
  <2> SUFFICES ASSUME IInv PROVE StateValid
    OBVIOUS
  <2>1. Valid(st)
    BY StoreValid DEF IInv, Shape
  <2>2. pc = "observed" => tick.act \in Allowed[tick.cls.state]
    BY DEF IInv, Shape, TickFits
  <2>3. ASSUME pc \in {"calling", "answered"}
        PROVE  "notify" \in Allowed[At(mem, tick.where).key.state]
    <3>1. StoreOK(mem) /\ Calls(mem, tick.where, pc)
      BY DEF IInv, Shape
    <3>2. NoteOK(At(mem, tick.where))
      BY <2>3, <3>1, AtOK DEF Calls
    <3> QED BY <3>2 DEF NoteOK, ReportValid
  <2> QED BY <2>1, <2>2, <2>3 DEF StateValid
<1> QED BY <1>1, Inductive, PTL

(* For every number of deaths between recording, starting and reporting, and    *)
(* of sessions stopped and configured: never more broker starts in a window     *)
(* than the limit.                                                              *)
THEOREM StartsBoundedHolds == Spec => []StartsBounded
<1>1. IInv => StartsBounded
  <2> SUFFICES ASSUME IInv PROVE StartsBounded
    OBVIOUS
  <2>1. /\ spawned \in Seq(Nat) /\ st.starts \in Seq(Nat) /\ Len(st.starts) <= StartLimit
        /\ AtLeast(st.starts, spawned)
    BY DEF IInv, Shape, StoreOK, Recorded, Noted
  <2>2. StartWindow \in Ages
    BY WindowIsNat DEF Ages
  <2>3. Count(spawned, StartWindow) <= Count(st.starts, StartWindow)
    BY <2>1, <2>2 DEF AtLeast
  <2>4. Count(st.starts, StartWindow) <= Len(st.starts)
        /\ Count(st.starts, StartWindow) \in Nat /\ Count(spawned, StartWindow) \in Nat
    BY <2>1, CountIsNat
  <2>5. Len(Recent(spawned)) = Count(spawned, StartWindow)
    BY DEF Recent, Count, Upto
  <2>6. Len(st.starts) \in Nat
    BY <2>1
  <2> QED BY <2>1, <2>3, <2>4, <2>5, <2>6, WindowIsNat DEF StartsBounded
<1> QED BY <1>1, Inductive, PTL

-----------------------------------------------------------------------------
(* What is still to be told.  The state a tick builds holds every report    *)
(* that is open in the file, or the summary in its place.                   *)
Covered(s, m) ==
  \A n \in Opened(s) : \E o \in Opened(m) : o.key \in {n.key, Overflow.key}
Held(s, m) == m.sid # s.sid \/ Spent(s) \/ Covered(s, m)
Building == Ticking \ {"calling", "answered"}

(* During a call only the receipt changes, not what the reports are of.     *)
Holding(s, m, p) ==
  /\ p \in Building => Held(s, m) /\ (Spent(m) => Spent(s))
  /\ p \in {"calling", "answered"} => Keys(s) \subseteq Keys(m)
HInv == IInv /\ Holding(st, mem, pc)

Kept(s, m) ==
  \A n \in Opened(s) : \/ {n.key, Overflow.key} \cap Keys(m) # {}
                       \/ m.sid # s.sid
                       \/ Spent(s)
Keep == Kept(st, st')

LEMMA CoveredRefl ==
  ASSUME NEW s, NEW m, Opened(s) \subseteq Opened(m)
  PROVE  Covered(s, m)
  BY DEF Covered

LEMMA HeldKept ==
  ASSUME NEW s, NEW m, Held(s, m), NEW k, Keys(m) \subseteq Keys(k), k.sid = m.sid
  PROVE  Kept(s, k)
<1>1. ASSUME NEW o \in Opened(m) PROVE o.key \in Keys(k)
  BY DEF Opened, Keys
<1> QED BY <1>1 DEF Kept, Held, Covered

LEMMA KeysKept ==
  ASSUME NEW s, NEW m, Keys(s) \subseteq Keys(m)
  PROVE  Kept(s, m)
  BY DEF Kept, Opened, Keys

LEMMA OpenConstants == Open(Overflow) /\ ~Open(NoNote)
<1>1. Overflow.outcome = "pending" /\ Overflow # NoNote
  BY Constants DEF Overflow, Report
<1> QED BY <1>1 DEF Open

(* An incident takes the place of another report.                           *)
LEMMA PlacedCovers ==
  ASSUME NEW s, StoreOK(s), NEW k, IncidentOK(k)
  PROVE  /\ Spent(s) \/ Covered(s, Placed(s, k))
         /\ Spent(Placed(s, k)) => Spent(s)
<1> DEFINE p == Placed(s, k)
<1>1. CASE s.note.key = k
  <2>1. p = s
    BY <1>1 DEF Placed
  <2> QED BY <2>1, CoveredRefl
<1>2. CASE s.note.key # k
  <2> DEFINE a == s.backlog  b == Retained(s)
  <2>1. BacklogOK(b) /\ BacklogOK(a) /\ \A m \in ToSet(a) : m.key # s.note.key
    BY RetainedOK DEF StoreOK, ReportsOK
  <2>2. b = IF ~Open(s.note) \/ \E i \in DOMAIN a : a[i].key = s.note.key THEN a
            ELSE IF Len(a) < BacklogLimit THEN Append(a, s.note)
            ELSE IF \E i \in DOMAIN a : a[i].key = Overflow.key THEN a
            ELSE Append(a, Overflow)
    BY DEF Retained
  <2>3. a \in Seq(ToSet(a)) /\ \A i \in DOMAIN a : a[i] \in ToSet(a)
    BY <2>1, OwnElements DEF BacklogOK
  <2>4. ToSet(Append(a, s.note)) = ToSet(a) \cup {s.note}
        /\ ToSet(Append(a, Overflow)) = ToSet(a) \cup {Overflow}
    BY <2>3, ToSetAppend
  <2>5. p = IF s.note.key = k THEN s
             ELSE LET back == {m \in ToSet(b) : m.key = k}
                  IN  [s EXCEPT !.note = IF back = {} THEN Report(k)
                                         ELSE CHOOSE m \in back : TRUE,
                                !.backlog = Only(b, {m \in ToSet(b) : m.key # k})]
    BY DEF Placed
  <2> HIDE DEF a, b
  <2>6. ToSet(a) \subseteq ToSet(b)
        /\ \A m \in ToSet(b) : m \in ToSet(a) \/ Open(m)
    BY <2>2, <2>4, OpenConstants
  <2>7. \/ ~Open(s.note) \/ s.note \in ToSet(b)
        \/ \E o \in ToSet(b) : o.key = Overflow.key
    BY <2>1, <2>2, <2>3, <2>4, <2>6
  <2> DEFINE back == {m \in ToSet(b) : m.key = k}
             n == IF back = {} THEN Report(k) ELSE CHOOSE m \in back : TRUE
             others == {m \in ToSet(b) : m.key # k}
             c == Only(b, others)
  <2>8. p = [s EXCEPT !.note = n, !.backlog = c]
    BY <1>2, <2>5, Zenon
  <2>9. p.note = n /\ p.backlog = c
    <3> HIDE DEF n, c, p
    <3> QED BY <2>8, Fields DEF StoreOK
  <2>10. ToSet(c) = others
    <3>1. b \in Seq(ToSet(b))
      BY <2>1 DEF BacklogOK
    <3>2. ToSet(c) = ToSet(b) \cap others
      BY <3>1, OnlyKeeps
    <3> QED BY <3>2
  <2>11. ASSUME NEW m \in ToSet(b), m.key = k PROVE n = m
    <3>1. n \in back
      <4>1. back # {}
        BY <2>11
      <4> QED BY <4>1, Zenon
    <3>2. n \in ToSet(b) /\ n.key = m.key
      BY <2>11, <3>1
    <3> HIDE DEF n
    <3>3. PICK i \in DOMAIN b, j \in DOMAIN b : b[i] = m /\ b[j] = n
      BY <3>2 DEF ToSet
    <3> QED BY <2>1, <3>2, <3>3 DEF BacklogOK, Distinct
  <2>12. ASSUME NEW m \in ToSet(b), Open(m) PROVE m \in Opened(p)
    <3>1. CASE m.key = k
      BY <2>9, <2>11, <2>12, <3>1 DEF Opened
    <3>2. CASE m.key # k
      BY <2>9, <2>10, <2>12, <3>2 DEF Opened
    <3> QED BY <3>1, <3>2
  <2> HIDE DEF p, n, c, back
  <2>13. Spent(p) => Spent(s)
    BY <2>6, <2>9, <2>10 DEF Spent, a
  <2>14. ASSUME ~Spent(s), NEW m \in Opened(s)
         PROVE  \E o \in Opened(p) : o.key \in {m.key, Overflow.key}
    <3>1. m = s.note \/ m \in ToSet(a)
      BY DEF Opened, a
    <3>2. Open(m)
      BY DEF Opened
    <3>3. CASE m \in ToSet(b)
      BY <2>12, <3>2, <3>3
    <3>4. CASE m \notin ToSet(b)
      <4>1. PICK o \in ToSet(b) : o.key = Overflow.key
        BY <2>6, <2>7, <3>1, <3>2, <3>4
      <4>2. Open(o)
        BY <2>6, <2>14, <4>1 DEF Spent, a
      <4> QED BY <2>12, <4>1, <4>2
    <3> QED BY <3>3, <3>4
  <2> QED BY <2>13, <2>14 DEF Covered, p
<1> QED BY <1>1, <1>2

(* Another state is put under the tick: what it covers stays covered.       *)
LEMMA CoveredAgain ==
  ASSUME NEW s, NEW m, Held(s, m), NEW k, k.sid = m.sid,
         Spent(m) \/ Covered(m, k), Spent(m) => Spent(s), Spent(k) => Spent(m)
  PROVE  Held(s, k) /\ (Spent(k) => Spent(s))
  BY DEF Held, Covered

(* A submission writes down what it is about to tell.                       *)
LEMMA PutKeys ==
  ASSUME NEW s, StoreOK(s), NEW w, w # "note" => s.backlog # <<>>,
         NEW n, n.key = At(s, w).key
  PROVE  Keys(Put(s, w, n)) = Keys(s) /\ Put(s, w, n).sid = s.sid
<1> DEFINE p == Put(s, w, n)
<1>1. CASE w = "note"
  <2>1. p = [s EXCEPT !.note = n] /\ At(s, w) = s.note
    BY <1>1 DEF Put, At
  <2>2. p.note = n /\ p.backlog = s.backlog /\ p.sid = s.sid
    BY <2>1, Fields DEF StoreOK
  <2> HIDE DEF p
  <2> QED BY <2>1, <2>2 DEF Keys, p
<1>2. CASE w # "note"
  <2> DEFINE b == s.backlog  l == Len(b)
  <2>1. p = [s EXCEPT !.backlog[l] = n] /\ At(s, w) = b[l]
    BY <1>2 DEF Put, At, Last
  <2>2. b \in Seq(ToSet(b)) /\ b # <<>>
    BY <1>2 DEF StoreOK, ReportsOK, BacklogOK
  <2>3. l \in DOMAIN b
    BY <2>2
  <2>4. p.note = s.note /\ p.backlog = [b EXCEPT ![l] = n] /\ p.sid = s.sid
    BY <2>1, Fields DEF StoreOK
  <2> HIDE DEF p, l
  <2> DEFINE c == [b EXCEPT ![l] = n]
  <2>5. DOMAIN c = DOMAIN b /\ c[l] = n /\ \A i \in DOMAIN b : i # l => c[i] = b[i]
    BY <2>3
  <2> HIDE DEF b, c
  <2>6. \A i \in DOMAIN b : c[i].key = b[i].key
    BY <2>1, <2>5
  <2>7. {m.key : m \in ToSet(c)} = {m.key : m \in ToSet(b)}
    BY <2>5, <2>6 DEF ToSet
  <2>8. Keys(p) = {s.note.key} \cup {m.key : m \in ToSet(c)}
        /\ Keys(s) = {s.note.key} \cup {m.key : m \in ToSet(b)}
    BY <2>4 DEF Keys, b, c
  <2> QED BY <2>4, <2>7, <2>8 DEF p
<1> QED BY <1>1, <1>2

(* The same reports.                                                        *)
LEMMA SameReports ==
  ASSUME NEW s, NEW k, k.note = s.note, k.backlog = s.backlog, k.sid = s.sid
  PROVE  /\ Opened(k) = Opened(s) /\ Keys(k) = Keys(s) /\ (Spent(k) <=> Spent(s))
         /\ \A x : Held(x, s) => Held(x, k)
  BY DEF Opened, Keys, Spent, Held, Covered

(* The file is left alone, and no tick is being built.                      *)
LEMMA RestHolds ==
  ASSUME st' = st, pc' \notin Ticking
  PROVE  Holding(st, mem, pc)' /\ Keep
<1>1. Keep
  BY KeysKept DEF Keep
<1> QED BY <1>1 DEF Holding, Building, Ticking

(* The tick goes on; the file and what it builds stay.                      *)
LEMMA GoesOnHolds ==
  ASSUME HInv, st' = st, pc \in Building, pc' \in Building,
         mem'.note = mem.note, mem'.backlog = mem.backlog, mem'.sid = mem.sid
  PROVE  Holding(st, mem, pc)' /\ Keep
<1>1. Held(st, mem) /\ (Spent(mem) => Spent(st))
  BY DEF HInv, Holding
<1>2. Held(st, mem') /\ (Spent(mem') => Spent(st))
  BY <1>1, SameReports
<1>3. Keep
  BY KeysKept DEF Keep
<1> QED BY <1>2, <1>3 DEF Holding, Building

(* What the tick builds is written down.                                    *)
LEMMA WrittenHolds ==
  ASSUME HInv, st' = mem', pc \in Building, pc' \in Building,
         mem'.note = mem.note, mem'.backlog = mem.backlog, mem'.sid = mem.sid
  PROVE  Holding(st, mem, pc)' /\ Keep
<1>1. Held(st, mem)
  BY DEF HInv, Holding
<1>2. Held(mem', mem')
  BY CoveredRefl DEF Held
<1>3. Keep
  BY <1>1, SameReports, HeldKept DEF Keep
<1> QED BY <1>2, <1>3 DEF Holding, Building

LEMMA SubmitHolds ==
  ASSUME HInv, pc \in {"report", "semantic", "backlog"},
         NEW s, StoreOK(s), s.sid = mem.sid,
         Spent(mem) \/ Covered(mem, s), Spent(s) => Spent(mem),
         NEW w, w # "note" => s.backlog # <<>>,
         NEW next \in {"semantic", "backlog", "finish"}, Submit(s, w, next)
  PROVE  Holding(st, mem, pc)' /\ Keep
<1>1. Held(st, mem) /\ (Spent(mem) => Spent(st))
  BY DEF HInv, Holding, Building, Ticking
<1>2. Held(st, s) /\ (Spent(s) => Spent(st))
  BY <1>1, CoveredAgain
<1>3. CASE Skipped(At(s, w))
  <2>1. mem' = s /\ pc' = next /\ st' = st
    BY <1>3 DEF Submit
  <2>2. Keep
    BY <2>1, KeysKept DEF Keep
  <2> QED BY <1>2, <2>1, <2>2 DEF Holding
<1>4. CASE ~Skipped(At(s, w))
  <2> DEFINE n == Dispatched(At(s, w))
  <2>1. mem' = Put(s, w, n) /\ st' = Put(s, w, n) /\ pc' = "calling"
    BY <1>4 DEF Submit
  <2>2. n.key = At(s, w).key
    BY AtOK, DispatchedOK
  <2> HIDE DEF n
  <2>3. Keys(Put(s, w, n)) = Keys(s) /\ Put(s, w, n).sid = s.sid
    BY <2>2, PutKeys
  <2>4. Keep
    BY <1>2, <2>1, <2>3, HeldKept DEF Keep
  <2> QED BY <2>1, <2>4 DEF Holding, Building
<1> QED BY <1>3, <1>4

LEMMA ObserveHolds == HInv /\ Observe => Holding(st, mem, pc)' /\ Keep
<1> SUFFICES ASSUME HInv, Observe PROVE Holding(st, mem, pc)' /\ Keep
  OBVIOUS
<1> DEFINE s == Resumed
           recon == IF s.recon = Snapshot THEN s.recon ELSE <<>>
<1>1. /\ st' = st /\ pc' \in {"observed", "finish"}
      /\ \E e : mem' = [s EXCEPT !.outage = Outage(s, e), !.recon = recon]
  <2>1. st' = st /\ pc' \in {"observed", "finish"}
    BY DEF Observe
  <2>2. \E e \in IF world.broker = "unclear" THEN {None, epoch} ELSE {epoch} :
          mem' = [s EXCEPT !.outage = Outage(s, e), !.recon = recon]
    BY Zenon DEF Observe
  <2> QED BY <2>1, <2>2, Zenon
<1>2. StoreOK(st)
  BY DEF HInv, IInv, Shape
<1>3. StoreOK(s)
  BY <1>2, ResumedOK
<1>4. mem'.note = s.note /\ mem'.backlog = s.backlog /\ mem'.sid = s.sid
  <2> HIDE DEF s, recon
  <2> QED BY <1>1, <1>3, Fields DEF StoreOK
<1>5. Held(st, s) /\ (Spent(s) => Spent(st))
  <2>1. CASE st.sid = session.id
    BY <2>1, CoveredRefl DEF Held, Resumed
  <2>2. CASE st.sid # session.id
    <3> DEFINE b == Blank(session.id)
    <3>1. s = [b EXCEPT !.starts = st.starts, !.told = st.told]
      BY <2>2 DEF Resumed
    <3>2. DOMAIN b = StateFields /\ b.sid = session.id /\ b.backlog = <<>>
      BY Fields DEF Blank
    <3> HIDE DEF b, s
    <3>3. s.sid = session.id /\ s.backlog = <<>>
      BY <3>1, <3>2, Fields
    <3> QED BY <2>2, <3>3 DEF Held, Spent, ToSet
  <2> QED BY <2>1, <2>2
<1> HIDE DEF s
<1>6. Held(st, mem') /\ (Spent(mem') => Spent(st))
  BY <1>4, <1>5, SameReports
<1>7. Keep
  BY <1>1, KeysKept DEF Keep
<1> QED BY <1>1, <1>6, <1>7 DEF Holding, Building

LEMMA RecordStartHolds == HInv /\ RecordStart => Holding(st, mem, pc)' /\ Keep
<1> SUFFICES ASSUME HInv, RecordStart PROVE Holding(st, mem, pc)' /\ Keep
  OBVIOUS
<1>1. pc = "observed" /\ pc' = "starting" /\ st' = mem'
      /\ mem' = [mem EXCEPT !.starts = tick'.starts]
  BY DEF RecordStart
<1>2. DOMAIN mem = StateFields
  BY DEF HInv, IInv, Shape, StoreOK
<1>3. mem'.note = mem.note /\ mem'.backlog = mem.backlog /\ mem'.sid = mem.sid
  BY <1>1, <1>2, Fields
<1> QED BY <1>1, <1>3, WrittenHolds DEF Building, Ticking

LEMMA ReconcileHolds == HInv /\ Reconcile => Holding(st, mem, pc)' /\ Keep
<1> SUFFICES ASSUME HInv, Reconcile PROVE Holding(st, mem, pc)' /\ Keep
  OBVIOUS
<1>1. pc = "reconciling" /\ pc' = "report" /\ st' = st
      /\ (mem' = mem \/ mem' = [mem EXCEPT !.recon = tick.snap])
  BY DEF Reconcile
<1>2. DOMAIN mem = StateFields
  BY DEF HInv, IInv, Shape, StoreOK
<1>3. mem'.note = mem.note /\ mem'.backlog = mem.backlog /\ mem'.sid = mem.sid
  BY <1>1, <1>2, Fields
<1> QED BY <1>1, <1>3, GoesOnHolds DEF Building, Ticking

LEMMA ReportIncidentHolds == HInv /\ ReportIncident => Holding(st, mem, pc)' /\ Keep
<1> SUFFICES ASSUME HInv, ReportIncident PROVE Holding(st, mem, pc)' /\ Keep
  OBVIOUS
<1>1. pc = "report"
  BY DEF ReportIncident
<1>2. StoreOK(mem) /\ Judged(tick.cls)
  BY DEF HInv, IInv, Shape, TickFits
<1> DEFINE k == Key(tick.cls, tick.epoch, tick.snap, <<>>)
           s == Placed(mem, k)
<1>3. CASE tick.must /\ tick.cls.human /\ Submit(s, "note", "semantic")
  <2>1. IncidentOK(k)
    BY <1>2, <1>3, JudgedIncident
  <2> HIDE DEF k
  <2>2. StoreOK(s) /\ s.sid = mem.sid /\ (Spent(mem) \/ Covered(mem, s))
        /\ (Spent(s) => Spent(mem))
    BY <1>2, <2>1, PlacedOK, PlacedCovers
  <2> HIDE DEF s
  <2> QED BY <1>1, <1>3, <2>2, SubmitHolds
<1>4. CASE Submit(mem, "note", "semantic")
  <2>1. Covered(mem, mem)
    BY CoveredRefl
  <2> QED BY <1>1, <1>2, <1>4, <2>1, SubmitHolds
<1>5. CASE /\ ~Open(mem.note)
           /\ mem' = IF tick.cls.state \in Quiet THEN [mem EXCEPT !.note = NoNote] ELSE mem
           /\ pc' = "semantic" /\ UNCHANGED <<st, tick>>
  <2> DEFINE m == [mem EXCEPT !.note = NoNote]
  <2>1. m.note = NoNote /\ m.backlog = mem.backlog /\ m.sid = mem.sid
    BY <1>2, Fields DEF StoreOK
  <2>2. mem' = m \/ mem' = mem
    BY <1>5
  <2> HIDE DEF m
  <2>3. Opened(m) = Opened(mem) /\ (Spent(m) <=> Spent(mem))
    BY <1>5, <2>1, OpenConstants DEF Opened, Spent
  <2>4. Held(st, mem) /\ (Spent(mem) => Spent(st))
    BY <1>1 DEF HInv, Holding, Building, Ticking
  <2>5. Held(st, mem') /\ (Spent(mem') => Spent(st))
    BY <2>1, <2>2, <2>3, <2>4 DEF Held, Covered
  <2>6. Keep
    BY <1>5, KeysKept DEF Keep
  <2> QED BY <1>5, <2>5, <2>6 DEF Holding, Building
<1> QED BY <1>3, <1>4, <1>5 DEF ReportIncident

LEMMA ReportStagnationHolds == HInv /\ ReportStagnation => Holding(st, mem, pc)' /\ Keep
<1> SUFFICES ASSUME HInv, ReportStagnation PROVE Holding(st, mem, pc)' /\ Keep
  OBVIOUS
<1>1. pc = "semantic" /\ StoreOK(mem)
  BY DEF ReportStagnation, HInv, IInv, Shape
<1> DEFINE c == Class(tick.cls.state, "semantic_stagnant", TRUE)
           k == Key(c, tick.epoch, tick.snap, <<tick.epoch>>)
           s == Placed(mem, k)
<1>2. CASE Stagnant /\ Submit(s, "note", "backlog")
  <2>1. IncidentOK(k)
    BY <1>2, StagnantIncident DEF Stagnant
  <2> HIDE DEF k
  <2>2. StoreOK(s) /\ s.sid = mem.sid /\ (Spent(mem) \/ Covered(mem, s))
        /\ (Spent(s) => Spent(mem))
    BY <1>1, <2>1, PlacedOK, PlacedCovers
  <2> HIDE DEF s
  <2> QED BY <1>1, <1>2, <2>2, SubmitHolds
<1>3. CASE pc' = "backlog" /\ UNCHANGED <<st, tick, mem>>
  BY <1>1, <1>3, GoesOnHolds DEF Building, Ticking
<1> QED BY <1>2, <1>3 DEF ReportStagnation

LEMMA ReportBacklogHolds == HInv /\ ReportBacklog => Holding(st, mem, pc)' /\ Keep
<1> SUFFICES ASSUME HInv, ReportBacklog PROVE Holding(st, mem, pc)' /\ Keep
  OBVIOUS
<1>1. pc = "backlog" /\ StoreOK(mem)
  BY DEF ReportBacklog, HInv, IInv, Shape
<1> DEFINE b == mem.backlog
<1>2. CASE pc' = "finish" /\ UNCHANGED <<st, tick, mem>>
  BY <1>1, <1>2, GoesOnHolds DEF Building, Ticking
<1>3. ASSUME NEW i \in DOMAIN b,
             Submit([mem EXCEPT !.backlog = Append(RemoveAt(b, i), b[i])], "backlog", "finish")
      PROVE  Holding(st, mem, pc)' /\ Keep
  <2> DEFINE c == Append(RemoveAt(b, i), b[i])
             s == [mem EXCEPT !.backlog = c]
  <2>1. ReportsOK(mem.note, b) /\ DOMAIN mem = StateFields
    BY <1>1 DEF StoreOK
  <2>2. ReportsOK(mem.note, c) /\ c # <<>> /\ ToSet(c) = ToSet(b)
    <3> HIDE DEF b, c
    <3> QED BY <2>1, RotatedOK DEF c
  <2> HIDE DEF c
  <2>3. /\ DOMAIN s = StateFields /\ s.note = mem.note /\ s.backlog = c
        /\ s.starts = mem.starts /\ s.sid = mem.sid
    BY <2>1, Fields
  <2> HIDE DEF s
  <2>4. StoreOK(s)
    BY <1>1, <2>2, <2>3 DEF StoreOK
  <2>5. Opened(s) = Opened(mem) /\ (Spent(s) <=> Spent(mem))
    BY <2>2, <2>3 DEF Opened, Spent
  <2>6. Covered(mem, s)
    BY <2>5, CoveredRefl
  <2>7. Submit(s, "backlog", "finish")
    BY <1>3 DEF s, c
  <2> QED BY <1>1, <2>2, <2>3, <2>4, <2>5, <2>6, <2>7, SubmitHolds
<1> DEFINE due == {i \in DOMAIN b : Open(b[i]) /\ b[i].retryIn <= 0}
           first == CHOOSE j \in due : \A k \in due : j <= k
<1>4. CASE due = {}
  BY <1>2, <1>4 DEF ReportBacklog
<1>5. CASE due # {}
  <2>1. Submit([mem EXCEPT !.backlog = Append(RemoveAt(@, first), @[first])],
               "backlog", "finish")
    BY <1>5, Zenon DEF ReportBacklog
  <2>2. first \in due
    <3>1. b \in Seq(ToSet(b))
      BY <1>1 DEF StoreOK, ReportsOK, BacklogOK
    <3>2. due \in SUBSET Nat
      BY <3>1
    <3> HIDE DEF due
    <3>3. \E j \in due : \A k \in due : j <= k
      BY <1>5, <3>2, Earliest
    <3> QED BY <3>3, Zenon
  <2>3. first \in DOMAIN b
    BY <2>2
  <2> HIDE DEF first, due
  <2> QED BY <1>1, <1>3, <2>1, <2>3
<1> QED BY <1>4, <1>5

LEMMA AnswerHolds == HInv /\ Answer => Holding(st, mem, pc)' /\ Keep
<1> SUFFICES ASSUME HInv, Answer PROVE Holding(st, mem, pc)' /\ Keep
  OBVIOUS
<1> DEFINE w == tick.where  n == At(mem, w)
<1>1. pc = "calling" /\ pc' = "answered" /\ st' = st
      /\ mem' \in {Put(mem, w, Accepted(n)), Put(mem, w, Refused(n))}
  BY DEF Answer
<1>2. /\ StoreOK(mem) /\ n.outcome = "dispatching" /\ (w # "note" => mem.backlog # <<>>)
      /\ Keys(st) \subseteq Keys(mem)
  BY <1>1 DEF HInv, Holding, IInv, Shape, Calls
<1>3. NoteOK(n)
  BY <1>2, AtOK
<1>4. Accepted(n).key = n.key /\ Refused(n).key = n.key
  BY <1>2, <1>3, AcceptedOK, RefusedOK
<1>5. ASSUME NEW r, r.key = n.key, mem' = Put(mem, w, r) PROVE Keys(mem') = Keys(mem)
  BY <1>2, <1>5, PutKeys
<1> HIDE DEF n
<1>6. Keys(mem') = Keys(mem)
  BY <1>1, <1>4, <1>5
<1>7. Keep
  BY <1>1, KeysKept DEF Keep
<1> QED BY <1>1, <1>2, <1>6, <1>7 DEF Holding, Building

LEMMA StoreAnswerHolds == HInv /\ StoreAnswer => Holding(st, mem, pc)' /\ Keep
<1> SUFFICES ASSUME HInv, StoreAnswer PROVE Holding(st, mem, pc)' /\ Keep
  OBVIOUS
<1>1. pc = "answered" /\ st' = mem /\ mem' = mem /\ pc' = tick.next
  BY DEF StoreAnswer
<1>2. Keys(st) \subseteq Keys(mem) /\ tick.next \in {"semantic", "backlog", "finish"}
  BY <1>1 DEF HInv, Holding, IInv, Shape, TickFits
<1>3. Keep
  BY <1>1, <1>2, KeysKept DEF Keep
<1>4. Held(mem, mem)
  BY CoveredRefl DEF Held
<1> QED BY <1>1, <1>2, <1>3, <1>4 DEF Holding

LEMMA FinishHolds == HInv /\ Finish => Holding(st, mem, pc)' /\ Keep
<1> SUFFICES ASSUME HInv, Finish PROVE Holding(st, mem, pc)' /\ Keep
  OBVIOUS
<1> DEFINE b == IF session.mode = "safe" THEN Only(mem.backlog, Opened(mem)) ELSE mem.backlog
           told == IF Stagnant THEN mem.told \cup {tick.epoch} ELSE mem.told
           s == [mem EXCEPT !.backlog = b, !.told = told, !.starts = tick.starts,
                            !.deadFor = tick.deadFor, !.ticked = TRUE]
<1>1. pc = "finish" /\ pc' = "idle"
  BY DEF Finish
<1>2. StoreOK(mem) /\ Held(st, mem)
  BY <1>1 DEF HInv, Holding, Building, Ticking, IInv, Shape
<1>3. st' = s
  BY Zenon DEF Finish
<1>4. ASSUME NEW o \in Opened(mem) PROVE o = mem.note \/ o \in ToSet(b)
  <2>1. mem.backlog \in Seq(ToSet(mem.backlog))
    BY <1>2 DEF StoreOK, ReportsOK, BacklogOK
  <2>2. ToSet(Only(mem.backlog, Opened(mem))) = ToSet(mem.backlog) \cap Opened(mem)
    BY <2>1, OnlyKeeps
  <2>3. o = mem.note \/ o \in ToSet(mem.backlog)
    BY DEF Opened
  <2> QED BY <1>4, <2>2, <2>3
<1> HIDE DEF b, told
<1>5. s.note = mem.note /\ s.backlog = b /\ s.sid = mem.sid
  BY <1>2, Fields DEF StoreOK
<1> HIDE DEF s
<1>6. ASSUME NEW o \in Opened(mem) PROVE o.key \in Keys(s)
  BY <1>4, <1>5, <1>6 DEF Keys
<1>7. Keep
  BY <1>2, <1>3, <1>5, <1>6 DEF Keep, Kept, Held, Covered
<1> QED BY <1>1, <1>7 DEF Holding, Building, Ticking

LEMMA PassHolds == HInv /\ Pass => Holding(st, mem, pc)' /\ Keep
<1> SUFFICES ASSUME HInv, Pass PROVE Holding(st, mem, pc)' /\ Keep
  OBVIOUS
<1>1. pc \in {"down", "idle"} /\ pc' = pc /\ st' = Aged(st) /\ StoreOK(st)
  BY DEF Pass, HInv, IInv, Shape
<1> DEFINE b == st.backlog  c == Aged(st).backlog
<1>2. Aged(st).note = Older(st.note) /\ c = [i \in DOMAIN b |-> Older(b[i])]
  BY <1>1, AgedIs DEF StoreOK
<1>3. NoteOK(st.note) /\ \A i \in DOMAIN b : NoteOK(b[i])
  <2>1. b \in Seq(ToSet(b)) /\ \A m \in ToSet(b) : NoteOK(m)
    BY <1>1 DEF StoreOK, ReportsOK, BacklogOK, Retainable
  <2>2. \A i \in DOMAIN b : b[i] \in ToSet(b)
    BY <2>1, OwnElements
  <2> QED BY <1>1, <2>1, <2>2 DEF StoreOK, ReportsOK, CurrentOK
<1>4. Older(st.note).key = st.note.key
  BY <1>3, OlderOK
<1>5. \A i \in DOMAIN b : c[i].key = b[i].key
  BY <1>2, <1>3, OlderOK
<1>6. DOMAIN c = DOMAIN b
  BY <1>2
<1> HIDE DEF b, c
<1>7. {m.key : m \in ToSet(c)} = {m.key : m \in ToSet(b)}
  BY <1>5, <1>6 DEF ToSet
<1>8. Keys(st) = {st.note.key} \cup {m.key : m \in ToSet(b)}
      /\ Keys(Aged(st)) = {st.note.key} \cup {m.key : m \in ToSet(c)}
  BY <1>2, <1>4 DEF Keys, b, c
<1>9. Keep
  BY <1>1, <1>7, <1>8, KeysKept DEF Keep
<1> QED BY <1>1, <1>9 DEF Holding, Building, Ticking

LEMMA StepHolds == HInv /\ [Next]_vars => HInv' /\ Keep
<1> SUFFICES ASSUME HInv, [Next]_vars PROVE Holding(st, mem, pc)' /\ Keep
  BY NextKeeps DEF HInv
<1>1. CASE OpenLock \/ Claim \/ Die \/ CliStop
  BY <1>1, RestHolds DEF OpenLock, Claim, Die, CliStop, Gone, Ticking
<1>2. CASE StartBroker \/ Attach \/ Watches
  <2>1. st' = st /\ mem' = mem /\ pc \in Building /\ pc' \in Building
    BY <1>2 DEF StartBroker, Attach, Watches, Building, Ticking
  <2> QED BY <2>1, GoesOnHolds
<1>3. CASE RecordReconcile
  <2>1. st' = mem' /\ mem' = mem /\ pc \in Building /\ pc' \in Building
    BY <1>3 DEF RecordReconcile, Building, Ticking
  <2> QED BY <2>1, WrittenHolds
<1>4. CASE \/ Change \/ UNCHANGED vars
           \/ \E m \in {"shadow", "safe"} : CliStart(m)
  <2>1. UNCHANGED <<st, mem, pc>>
    BY <1>4 DEF Change, CliStart, vars
  <2>2. Keep
    BY <2>1, KeysKept DEF Keep
  <2> QED BY <2>1, <2>2 DEF HInv, Holding
<1> QED BY <1>1, <1>2, <1>3, <1>4, ObserveHolds, RecordStartHolds, ReconcileHolds,
           ReportIncidentHolds, ReportStagnationHolds, ReportBacklogHolds, AnswerHolds,
           StoreAnswerHolds, FinishHolds, PassHolds
        DEF Next, Daemon

(* For every number of deaths, refused alerts, sessions and changes of the     *)
(* world, and every limit of the backlog: a report once written down stays     *)
(* until it is accepted or the summary stands for it; only another session     *)
(* forgets it, or a summary that was accepted and that a death left behind.    *)
THEOREM NothingDroppedHolds == Spec => NothingDropped
<1>1. Init => HInv
  BY InitKeeps DEF Init, HInv, Holding, Building, Ticking
<1>2. HInv /\ [Next]_vars => HInv' /\ Keep
  BY StepHolds
<1>3. Keep <=> \A n \in Opened(st) : \/ {n.key, Overflow.key} \cap Keys(st') # {}
                                     \/ st'.sid # st.sid
                                     \/ Spent(st)
  BY DEF Keep, Kept
<1>4. NothingDropped <=> [][\A n \in Opened(st) : \/ {n.key, Overflow.key} \cap Keys(st') # {}
                                                  \/ st'.sid # st.sid
                                                  \/ Spent(st)]_vars
  BY DEF NothingDropped
<1> QED BY <1>1, <1>2, <1>3, <1>4, PTL DEF Spec

-----------------------------------------------------------------------------
(* The semantic liveness.  Its state is judged from itself alone, so the     *)
(* inductive invariant is about one record: what is retained, what the last  *)
(* observation left in it, and that doubt is counted exactly while nothing   *)
(* speaks for the workflow.                                                  *)

(* What is retained of waits, and what of them the state says.              *)
WaitsOK(waits) ==
  /\ waits \in Waits /\ IsFiniteSet(DOMAIN waits)
  /\ Cardinality(DOMAIN waits) <= WaitLimit
  /\ \A w \in DOMAIN waits : WaitValid(waits[w])

(* Observing the same instant again leaves the waits as they are.           *)
WaitOK(s) ==
  /\ WaitsOK(s.waits) /\ s.lease = LeaseOf(s.waits, s.source)
  /\ NextWaits(s.waits, s.source, s.at) = s.waits

(* Evidence: what was shown last has been taken in, or there is no room.    *)
UsefulOK(useful, seen, at) ==
  useful # Void =>
    /\ useful \in Lease /\ useful.evidence # {} /\ useful.evidence \subseteq seen
    /\ useful.expires = useful.renewed + Useful /\ useful.renewed <= at
SeenOK(seen) == seen \in SUBSET Evidence /\ Cardinality(seen) <= EvidenceLimit
TableOK(s) ==
  /\ SeenOK(s.seen) /\ UsefulOK(s.useful, s.seen, s.at)
  /\ s.checkpoint.evidence \subseteq s.seen \/ Cardinality(s.seen) = EvidenceLimit

(* The window ends with what was shown last.                                *)
WindowOK(s) ==
  /\ Len(s.history) \in 1..History /\ Len(s.history) <= s.count
  /\ Last(s.history) = Fingerprint(s.checkpoint)

(* Doubts are counted exactly while nothing speaks for the workflow.        *)
Waiting(s)  == Covers(s.waits, s.lease, s.at)
Backed(s)   == s.useful # Void /\ s.at <= s.useful.expires
Doubtful(s) == ~s.settled /\ ~s.human /\ ~Waiting(s) /\ ~Backed(s)
DoubtOK(s) ==
  /\ s.suspects <= s.count /\ (s.suspects > 0 <=> Doubtful(s))
  /\ Doubtful(s) => s.class \in {"suspect", "stagnant", "looping"}

Sound(s) ==
  /\ s \in State(Waits)
  /\ WaitOK(s) /\ TableOK(s) /\ WindowOK(s) /\ DoubtOK(s)
Standing == sem # Void => Sound(sem)

-----------------------------------------------------------------------------
(* The retained waits.                                                      *)
LEMMA SemanticConstants ==
  /\ History \in Nat /\ History >= 6 /\ EvidenceLimit \in Nat /\ WaitLimit \in Nat
  /\ Useful \in Nat /\ Duration \in Nat /\ Extension \in Nat /\ Epochs \in Nat
  /\ \A g \in Gaps : g \in Nat
  /\ \A c \in Checkpoints : c.evidence \in SUBSET Evidence /\ c.wait \in Wait \cup {Void}
BY SemanticAssumption

LEMMA NoWaits == WaitsOK(<<>>) /\ DOMAIN <<>> = {}
<1>1. DOMAIN <<>> = {}
  OBVIOUS
<1>2. <<>> \in [{} -> Entry]
  BY <1>1
<1>3. <<>> \in Waits
  BY <1>2 DEF Waits
<1> QED BY <1>1, <1>3, FS_EmptySet, SemanticConstants DEF WaitsOK

\* A pinned entry, extended or not, is one of the wait's own deadline; to
\* extend it at the same time again changes nothing.
LEMMA ExtendedOK ==
  ASSUME NEW e \in Entry, WaitValid(e), NEW t \in Nat
  PROVE  /\ Extended(e, t) \in Entry /\ WaitValid(Extended(e, t))
         /\ Extended(e, t).start = e.start /\ Extended(e, t).deadline = e.deadline
         /\ Extended(Extended(e, t), t) = Extended(e, t)
<1>1. CASE t > e.effective /\ ~e.extended
           /\ Extension > 0 /\ t <= e.deadline + Extension
  <2> DEFINE x == [e EXCEPT !.effective = e.deadline + Extension, !.extended = TRUE]
  <2>1. Extended(e, t) = x
    BY <1>1 DEF Extended
  <2>2. x \in Entry /\ x.extended = TRUE /\ x.effective = e.deadline + Extension
        /\ x.start = e.start /\ x.deadline = e.deadline
    <3>1. e.deadline + Extension \in Nat /\ TRUE \in BOOLEAN
      BY SemanticConstants DEF Entry
    <3> QED BY <3>1 DEF Entry
  <2> HIDE DEF x
  <2>3. Extended(x, t) = x
    BY <2>2 DEF Extended
  <2>4. WaitValid(x)
    BY <2>2, SemanticConstants DEF WaitValid, Entry
  <2> QED BY <2>1, <2>2, <2>3, <2>4
<1>2. CASE ~(t > e.effective /\ ~e.extended
             /\ Extension > 0 /\ t <= e.deadline + Extension)
  <2>1. Extended(e, t) = e
    BY <1>2 DEF Extended
  <2> QED BY <2>1
<1> QED BY <1>1, <1>2

LEMMA PinnedOK ==
  ASSUME NEW waits, WaitsOK(waits), NEW source \in Source, source.start <= source.deadline
  PROVE  /\ Pinned(waits, source) \in Entry /\ WaitValid(Pinned(waits, source))
         /\ source.id \in DOMAIN waits => Pinned(waits, source) = waits[source.id]
<1>1. CASE source.id \in DOMAIN waits
  <2>1. waits[source.id] \in Entry
    BY <1>1 DEF WaitsOK, Waits
  <2> QED BY <1>1, <2>1 DEF Pinned, WaitsOK
<1>2. CASE source.id \notin DOMAIN waits
  BY <1>2 DEF Pinned, Entry, WaitValid, Source
<1> QED BY <1>1, <1>2

LEMMA NextWaitsOK ==
  ASSUME NEW waits, WaitsOK(waits), NEW source \in Source \cup {Void}, NEW t \in Nat,
         source # Void => source.start <= source.deadline
  PROVE  /\ WaitsOK(NextWaits(waits, source, t))
         /\ \A w \in DOMAIN waits :
              /\ w \in DOMAIN NextWaits(waits, source, t)
              /\ NextWaits(waits, source, t)[w].start = waits[w].start
              /\ NextWaits(waits, source, t)[w].deadline = waits[w].deadline
         /\ NextWaits(NextWaits(waits, source, t), source, t)
              = NextWaits(waits, source, t)
<1> DEFINE Full == \/ source = Void
                   \/ source.id \notin DOMAIN waits
                      /\ Cardinality(DOMAIN waits) >= WaitLimit
           next == NextWaits(waits, source, t)
           e == Extended(Pinned(waits, source), t)
<1>1. CASE Full
  <2>1. next = waits
    BY <1>1 DEF NextWaits
  <2> QED BY <2>1
<1>2. CASE ~Full
  <2>1. source \in Source /\ source.start <= source.deadline
    BY <1>2
  <2>2. /\ e \in Entry /\ WaitValid(e) /\ Extended(e, t) = e
        /\ source.id \in DOMAIN waits =>
             e.start = waits[source.id].start /\ e.deadline = waits[source.id].deadline
    BY <2>1, PinnedOK, ExtendedOK
  <2>3. next = [w \in DOMAIN waits \cup {source.id} |->
                  IF w = source.id THEN e ELSE waits[w]]
    BY <1>2 DEF NextWaits
  <2>4. /\ DOMAIN next = DOMAIN waits \cup {source.id} /\ next[source.id] = e
        /\ \A w \in DOMAIN waits : w # source.id => next[w] = waits[w]
    BY <2>3
  <2>5. IsFiniteSet(DOMAIN next) /\ Cardinality(DOMAIN next) <= WaitLimit
    <3>1. IsFiniteSet(DOMAIN waits) /\ Cardinality(DOMAIN waits) <= WaitLimit
          /\ Cardinality(DOMAIN waits) \in Nat
      BY FS_CardinalityType DEF WaitsOK
    <3>2. /\ IsFiniteSet(DOMAIN next)
          /\ Cardinality(DOMAIN next) = IF source.id \in DOMAIN waits
               THEN Cardinality(DOMAIN waits) ELSE Cardinality(DOMAIN waits) + 1
      BY <2>4, <3>1, FS_AddElement
    <3> QED BY <1>2, <3>1, <3>2, SemanticConstants
  <2>6. /\ \A w \in DOMAIN waits : waits[w] \in Entry /\ WaitValid(waits[w])
        /\ DOMAIN waits \subseteq Wait /\ source.id \in Wait
    BY <2>1 DEF WaitsOK, Waits, Source
  <2>7. \A w \in DOMAIN next : next[w] \in Entry /\ WaitValid(next[w])
    BY <2>2, <2>4, <2>6
  <2>8. next \in Waits
    <3>1. DOMAIN next \in SUBSET Wait
      BY <2>4, <2>6
    <3>2. next \in [DOMAIN next -> Entry]
      BY <2>3, <2>7
    <3> QED BY <3>1, <3>2 DEF Waits
  <2>9. NextWaits(next, source, t) = next
    <3> HIDE DEF next, e
    <3>1. Pinned(next, source) = e
      BY <2>4 DEF Pinned
    <3>2. source # Void /\ source.id \in DOMAIN next
      BY <1>2, <2>4
    <3>3. NextWaits(next, source, t)
            = [w \in DOMAIN next \cup {source.id} |->
                 IF w = source.id THEN e ELSE next[w]]
      BY <2>2, <3>1, <3>2 DEF NextWaits
    <3>4. DOMAIN next \cup {source.id} = DOMAIN next
      BY <3>2
    <3>5. next = [w \in DOMAIN next |-> next[w]]
      BY <2>3, <2>4
    <3> QED BY <2>4, <3>3, <3>4, <3>5
  <2>10. WaitsOK(next)
    BY <2>5, <2>7, <2>8 DEF WaitsOK
  <2>11. \A w \in DOMAIN waits :
           next[w].start = waits[w].start /\ next[w].deadline = waits[w].deadline
    BY <2>2, <2>4
  <2> QED BY <2>4, <2>9, <2>10, <2>11
<1> QED BY <1>1, <1>2

-----------------------------------------------------------------------------
(* The evidence taken in.                                                   *)
LEMMA CappedIs ==
  ASSUME NEW n \in Nat, NEW m \in Nat
  PROVE  /\ Capped(n, m) \in Nat /\ Capped(n, m) <= m /\ Capped(n, m) <= n
         /\ Capped(n, m) = n \/ Capped(n, m) = m
BY DEF Capped

LEMMA AdmittedOK ==
  ASSUME NEW evidence \in SUBSET Evidence, SeenOK(Prior("seen", {})),
         NEW admitted \in Admitted(evidence)
  PROVE  /\ IsFiniteSet(admitted) /\ Cardinality(admitted) \in Nat
         /\ admitted \in SUBSET evidence
         /\ SeenOK(Prior("seen", {}) \cup admitted)
         /\ \/ evidence \subseteq Prior("seen", {}) \cup admitted
            \/ Cardinality(Prior("seen", {}) \cup admitted) = EvidenceLimit
         /\ \/ evidence \subseteq Prior("seen", {})
            \/ Cardinality(Prior("seen", {})) = EvidenceLimit
            => admitted = {}
<1> DEFINE seen == Prior("seen", {})
           unseen == evidence \ seen
<1> HIDE DEF seen
<1>1. IsFiniteSet(Evidence) /\ EvidenceLimit \in Nat
  BY SemanticAssumption
<1>2. /\ IsFiniteSet(seen) /\ Cardinality(seen) \in Nat
      /\ Cardinality(seen) <= EvidenceLimit /\ seen \in SUBSET Evidence
  BY <1>1, FS_Subset, FS_CardinalityType DEF SeenOK, seen
<1>3. IsFiniteSet(unseen) /\ Cardinality(unseen) \in Nat
  <2>1. unseen \in SUBSET Evidence
    OBVIOUS
  <2> QED BY <1>1, <2>1, FS_Subset, FS_CardinalityType
<1>4. /\ admitted \in SUBSET unseen
      /\ Cardinality(admitted)
           = Capped(Cardinality(unseen), EvidenceLimit - Cardinality(seen))
  BY DEF Admitted, seen
<1>5. IsFiniteSet(admitted) /\ Cardinality(admitted) \in Nat
  BY <1>3, <1>4, FS_Subset, FS_CardinalityType
<1>6. EvidenceLimit - Cardinality(seen) \in Nat
  BY <1>1, <1>2
<1>7. /\ Cardinality(admitted) <= EvidenceLimit - Cardinality(seen)
      /\ \/ Cardinality(admitted) = Cardinality(unseen)
         \/ Cardinality(admitted) = EvidenceLimit - Cardinality(seen)
  BY <1>3, <1>4, <1>6, CappedIs
<1>8. Cardinality(seen \cup admitted) = Cardinality(seen) + Cardinality(admitted)
  <2>1. seen \cap admitted = {}
    BY <1>4
  <2>2. Cardinality(seen \cup admitted)
          = Cardinality(seen) + Cardinality(admitted) - Cardinality(seen \cap admitted)
    BY <1>2, <1>5, FS_Union
  <2>3. Cardinality(seen \cap admitted) = 0
    BY <2>1, FS_EmptySet
  <2> QED BY <1>2, <1>5, <2>2, <2>3
<1>9. SeenOK(seen \cup admitted)
  BY <1>1, <1>2, <1>4, <1>5, <1>7, <1>8 DEF SeenOK
<1>10. \/ evidence \subseteq seen \cup admitted
       \/ Cardinality(seen \cup admitted) = EvidenceLimit
  <2>1. CASE Cardinality(admitted) = Cardinality(unseen)
    <3>1. admitted = unseen
      BY <1>3, <1>4, <2>1, FS_Subset
    <3> QED BY <3>1
  <2>2. CASE Cardinality(admitted) = EvidenceLimit - Cardinality(seen)
    BY <1>1, <1>2, <1>8, <2>2
  <2> QED BY <1>7, <2>1, <2>2
<1>11. ASSUME evidence \subseteq seen \/ Cardinality(seen) = EvidenceLimit
       PROVE  admitted = {}
  <2>1. CASE evidence \subseteq seen
    BY <1>4, <2>1
  <2>2. CASE Cardinality(seen) = EvidenceLimit
    <3>1. Cardinality(admitted) = 0
      BY <1>1, <1>5, <1>7, <2>2
    <3> QED BY <1>5, <3>1, FS_EmptySet
  <2> QED BY <1>11, <2>1, <2>2
<1>12. admitted \in SUBSET evidence
  BY <1>4
<1> QED BY <1>5, <1>9, <1>10, <1>11, <1>12 DEF seen

-----------------------------------------------------------------------------
(* The window.                                                              *)
LEMMA LoopPatternOK ==
  ASSUME NEW h \in Seq(Steps)
  PROVE  LoopPattern(h) \in Loops /\ (Len(h) < 3 => LoopPattern(h) = "none")
<1>1. Len(h) \in Nat
  OBVIOUS
<1>2. CASE Len(h) < 3
  <2>1. ~(Len(h) >= 3) /\ Len(h) < 6
    BY <1>1, <1>2
  <2> QED BY <2>1 DEF LoopPattern, Loops
<1>3. CASE ~(Len(h) < 3)
  BY <1>3 DEF LoopPattern, Loops
<1> QED BY <1>2, <1>3

LEMMA ShiftedOK ==
  ASSUME NEW h \in Seq(Steps), Len(h) <= History, NEW step \in Steps
  PROVE  /\ Shifted(h, step) \in Seq(Steps) /\ Last(Shifted(h, step)) = step
         /\ Len(Shifted(h, step)) = Capped(Len(h) + 1, History)
<1> DEFINE all == Append(h, step)
           m == IF Len(all) > History THEN 2 ELSE 1
           s == SubSeq(all, m, Len(all))
<1>1. /\ all \in Seq(Steps) /\ Len(all) = Len(h) + 1 /\ Len(all) \in Nat
      /\ all[Len(all)] = step /\ Len(h) \in Nat
  OBVIOUS
<1>2. m \in 1..2 /\ (m = 2 => Len(all) > History) /\ (m = 1 => Len(all) <= History)
  BY <1>1, SemanticConstants
<1>3. Shifted(h, step) = s
  BY DEF Shifted
<1> HIDE DEF all, m
<1>4. m <= Len(all)
  BY <1>1, <1>2, SemanticConstants
<1>5. \A i \in m..Len(all) : all[i] \in Steps
  BY <1>1, <1>2
<1>6. /\ s \in Seq(Steps) /\ Len(s) = Len(all) - m + 1
      /\ \A i \in 1..Len(all) - m + 1 : s[i] = all[m + i - 1]
  BY <1>1, <1>2, <1>4, <1>5, SubSeqProperties
<1> HIDE DEF s
<1>7. Len(s) = Capped(Len(h) + 1, History)
  BY <1>1, <1>2, <1>6, SemanticConstants DEF Capped
<1>8. s[Len(s)] = all[Len(all)]
  <2>1. Len(s) \in 1..Len(all) - m + 1 /\ m + Len(s) - 1 = Len(all)
    BY <1>1, <1>2, <1>4, <1>6
  <2> QED BY <1>6, <2>1
<1> QED BY <1>1, <1>3, <1>6, <1>7, <1>8 DEF Last

-----------------------------------------------------------------------------
(* What one observation makes of the state: classifyEagleSemanticLiveness   *)
(* read off the record it returns.                                          *)
KeptWindow(gen, admitted) ==
  IF Fenced(gen) /\ admitted = {} THEN sem.history ELSE <<>>
Unconfirmed(c, source, gen, t) ==
  Capped((IF Fenced(gen) THEN sem.suspects ELSE 0)
         + (IF Fresh(c, source, gen, t) THEN 1 ELSE 0), 2)
Found(r, admitted) == IF admitted # {} THEN "none" ELSE LoopPattern(r.history)
IncidentOf(r) ==
  IF r.class \notin IncidentClasses THEN Void
  ELSE [epoch |-> r.epoch, class |-> r.class,
        window |-> IF r.useful = Void THEN {} ELSE r.useful.evidence,
        loop |-> IF r.class = "looping" THEN r.loop ELSE "none",
        step |-> Fingerprint(r.checkpoint)]

WholeRecord(r) ==
  r = [epoch |-> r.epoch, at |-> r.at, checkpoint |-> r.checkpoint,
       source |-> r.source, class |-> r.class, human |-> r.human,
       settled |-> r.settled, waits |-> r.waits, lease |-> r.lease,
       history |-> r.history, loop |-> r.loop, incident |-> r.incident,
       seen |-> r.seen, unseen |-> r.unseen, useful |-> r.useful,
       suspects |-> r.suspects, count |-> r.count]

KeptOn(r, c, source, gen, t, admitted) ==
  LET kept == KeptWindow(gen, admitted)
      shifted == Shifted(kept, Fingerprint(c))
  IN  /\ ~Fresh(c, source, gen, t) => r.history = kept
      /\ r.history = kept \/ r.history = shifted
      /\ Fresh(c, source, gen, t) /\ (kept = <<>> \/ Last(kept) # Fingerprint(c))
           => r.history = shifted

Reads(r, c, source, gen, t, human, settled, admitted) ==
  /\ WholeRecord(r)
  /\ r.epoch = gen /\ r.at = t /\ r.checkpoint = c /\ r.source = source
  /\ r.human = human /\ r.settled = settled
  /\ r.waits = NextWaits(Prior("waits", <<>>), source, t)
  /\ r.lease = LeaseOf(r.waits, source)
  /\ r.seen = Prior("seen", {}) \cup admitted
  /\ r.unseen = Cardinality(admitted)
  /\ r.useful = IF admitted # {}
                THEN [evidence |-> admitted, renewed |-> t, expires |-> t + Useful]
                ELSE Prior("useful", Void)
  /\ r.count = Capped((IF Fenced(gen) THEN sem.count ELSE 0)
                      + (IF Fresh(c, source, gen, t) THEN 1 ELSE 0), History)
  /\ KeptOn(r, c, source, gen, t, admitted)
  /\ r.loop = "none" \/ r.loop = Found(r, admitted)
  /\ ~Waiting(r) => r.loop = Found(r, admitted)
  /\ r.class = ClassOf(settled, human, admitted # {}, Waiting(r), r.loop,
                       Backed(r), Unconfirmed(c, source, gen, t))
  /\ r.suspects = IF Doubtful(r) /\ admitted = {}
                  THEN Unconfirmed(c, source, gen, t) ELSE 0
  /\ r.incident = IncidentOf(r)

LEMMA ClassifiedIs ==
  ASSUME NEW c, NEW source, NEW gen, NEW t, NEW human, NEW settled, NEW admitted,
         NEW r, r = Classified(c, source, gen, t, human, settled, admitted)
  PROVE  Reads(r, c, source, gen, t, human, settled, admitted)
<1> DEFINE anew == Fresh(c, source, gen, t)
           new == admitted # {}
           useful == IF new THEN [evidence |-> admitted, renewed |-> t,
                                  expires |-> t + Useful]
                     ELSE Prior("useful", Void)
           waits == NextWaits(Prior("waits", <<>>), source, t)
           lease == LeaseOf(waits, source)
           old == Prior("lease", Void)
           restored == lease # Void /\ lease \in DOMAIN Prior("waits", <<>>)
                       /\ old # lease
           waiting == Covers(waits, lease, t)
           moved == waiting /\ old # Void /\ old # lease
           kept == KeptWindow(gen, admitted)
           meaningful == moved \/ restored \/ kept = <<>>
                         \/ Last(kept) # Fingerprint(c)
           history == IF anew /\ (~waiting \/ meaningful)
                      THEN Shifted(kept, Fingerprint(c)) ELSE kept
           found == IF new THEN "none" ELSE LoopPattern(history)
           loop == IF waiting /\ ~moved /\ ~restored THEN "none" ELSE found
           covered == useful # Void /\ t <= useful.expires
           unconfirmed == Unconfirmed(c, source, gen, t)
           class == ClassOf(settled, human, new, waiting, loop, covered, unconfirmed)
           doubtful == ~settled /\ ~human /\ ~new /\ ~waiting /\ ~covered
           incident == IF class \notin IncidentClasses THEN Void
                       ELSE [epoch |-> gen, class |-> class,
                             window |-> IF useful = Void THEN {} ELSE useful.evidence,
                             loop |-> IF class = "looping" THEN loop ELSE "none",
                             step |-> Fingerprint(c)]
           seen == Prior("seen", {}) \cup admitted
           unseen == Cardinality(admitted)
           suspects == IF doubtful THEN unconfirmed ELSE 0
           count == Capped((IF Fenced(gen) THEN sem.count ELSE 0)
                           + (IF anew THEN 1 ELSE 0), History)
<1>1. r = [epoch |-> gen, at |-> t, checkpoint |-> c, source |-> source,
           class |-> class, human |-> human, settled |-> settled,
           waits |-> waits, lease |-> lease, history |-> history, loop |-> loop,
           incident |-> incident, seen |-> seen, unseen |-> unseen,
           useful |-> useful, suspects |-> suspects, count |-> count]
  BY Zenon DEF Classified, KeptWindow, Unconfirmed
<1> HIDE DEF anew, new, useful, waits, lease, old, restored, waiting, moved, kept,
             meaningful, history, found, loop, covered, unconfirmed, class, doubtful,
             incident, seen, unseen, suspects, count
<1>2. /\ r.epoch = gen /\ r.at = t /\ r.checkpoint = c /\ r.source = source
      /\ r.class = class /\ r.human = human /\ r.settled = settled
      /\ r.waits = waits /\ r.lease = lease /\ r.history = history /\ r.loop = loop
      /\ r.incident = incident /\ r.seen = seen /\ r.unseen = unseen
      /\ r.useful = useful /\ r.suspects = suspects /\ r.count = count
  BY <1>1
<1>3. WholeRecord(r)
  BY <1>1, <1>2 DEF WholeRecord
<1>4. (Waiting(r) <=> waiting) /\ (Backed(r) <=> covered)
  BY <1>2 DEF Waiting, Backed, waiting, covered
<1>5. r.waits = NextWaits(Prior("waits", <<>>), source, t)
      /\ r.lease = LeaseOf(r.waits, source)
  BY <1>2 DEF waits, lease
<1>6. r.seen = Prior("seen", {}) \cup admitted /\ r.unseen = Cardinality(admitted)
  BY <1>2 DEF seen, unseen
<1>7. r.useful = IF admitted # {}
                 THEN [evidence |-> admitted, renewed |-> t, expires |-> t + Useful]
                 ELSE Prior("useful", Void)
  BY <1>2 DEF useful, new
<1>8. r.count = Capped((IF Fenced(gen) THEN sem.count ELSE 0)
                       + (IF Fresh(c, source, gen, t) THEN 1 ELSE 0), History)
  BY <1>2 DEF count, anew
<1>9. KeptOn(r, c, source, gen, t, admitted)
  BY <1>2 DEF KeptOn, history, meaningful, kept, anew
<1>10. found = Found(r, admitted)
  BY <1>2 DEF Found, found, new
<1>11. /\ r.loop = "none" \/ r.loop = Found(r, admitted)
       /\ ~Waiting(r) => r.loop = Found(r, admitted)
  BY <1>2, <1>4, <1>10 DEF loop
<1>12. r.class = ClassOf(settled, human, admitted # {}, Waiting(r), r.loop,
                         Backed(r), Unconfirmed(c, source, gen, t))
  <2>1. r.class = ClassOf(settled, human, new, waiting, r.loop, covered, unconfirmed)
    BY <1>2 DEF class
  <2> QED BY <1>4, <2>1 DEF ClassOf, new, unconfirmed
<1>13. r.suspects = IF Doubtful(r) /\ admitted = {}
                    THEN Unconfirmed(c, source, gen, t) ELSE 0
  <2>1. doubtful <=> Doubtful(r) /\ admitted = {}
    BY <1>2, <1>4 DEF Doubtful, doubtful, new
  <2> QED BY <1>2, <2>1 DEF suspects, unconfirmed
<1>14. r.incident = IncidentOf(r)
  BY <1>2 DEF IncidentOf, incident
<1> QED BY <1>2, <1>3, <1>5, <1>6, <1>7, <1>8, <1>9, <1>11, <1>12, <1>13, <1>14
    DEF Reads

-----------------------------------------------------------------------------
(* What an observation finds: the previous state, or the defaults.          *)
LEMMA PriorOK ==
  ASSUME Standing
  PROVE  /\ WaitsOK(Prior("waits", <<>>)) /\ SeenOK(Prior("seen", {}))
         /\ Prior("useful", Void) # Void => Prior("useful", Void) \in Lease
         /\ UsefulOK(Prior("useful", Void), Prior("seen", {}), Prior("at", 0))
         /\ Prior("at", 0) \in Nat /\ Prior("epoch", 1) \in Nat
         /\ Prior("epoch", 1) >= 1
<1>1. CASE sem = Void
  <2>1. SeenOK({})
    BY FS_EmptySet, SemanticConstants DEF SeenOK
  <2> QED BY <1>1, <2>1, NoWaits DEF Prior, UsefulOK
<1>2. CASE sem # Void
  <2>1. Sound(sem)
    BY <1>2 DEF Standing
  <2>2. sem.at \in Nat /\ sem.epoch \in 1..Epochs
    BY <2>1 DEF Sound, State
  <2> QED BY <1>2, <2>1, <2>2, SemanticConstants
          DEF Prior, Sound, WaitOK, TableOK, UsefulOK
<1> QED BY <1>1, <1>2

(* What the guards of a tick say of its arguments.                          *)
Given(c, source, gen, t, human, settled, admitted) ==
  /\ c \in Checkpoints /\ source \in Source \cup {Void}
  /\ source # Void => source.start <= source.deadline
  /\ gen \in 1..Epochs /\ t \in Nat /\ Prior("at", 0) <= t
  /\ human \in BOOLEAN /\ settled \in BOOLEAN /\ ~(human /\ settled)
  /\ admitted \in Admitted(c.evidence)
  /\ sem # Void /\ t = sem.at =>
       c = sem.checkpoint /\ source = sem.source
       /\ human = sem.human /\ settled = sem.settled

LEMMA TickGives ==
  ASSUME Standing, ObserveTick
  PROVE  \E c, source, gen, t, human, settled, admitted :
           /\ Given(c, source, gen, t, human, settled, admitted)
           /\ sem' = Classified(c, source, gen, t, human, settled, admitted)
<1>1. PICK gap \in Gaps, c \in Checkpoints, gen \in Prior("epoch", 1)..Epochs,
           human \in BOOLEAN, settled \in BOOLEAN :
        /\ ~(human /\ settled)
        /\ \E source \in Sources(c, Prior("at", 0) + gap), admitted \in Admitted(c.evidence) :
             /\ sem # Void /\ gap = 0 =>
                  /\ c = sem.checkpoint /\ source = sem.source
                  /\ human = sem.human /\ settled = sem.settled
             /\ sem' = Classified(c, source, gen, Prior("at", 0) + gap,
                                  human, settled, admitted)
  BY DEF ObserveTick
<1> DEFINE t == Prior("at", 0) + gap
<1>1a. PICK source \in Sources(c, t), admitted \in Admitted(c.evidence) :
         /\ sem # Void /\ gap = 0 =>
              /\ c = sem.checkpoint /\ source = sem.source
              /\ human = sem.human /\ settled = sem.settled
         /\ sem' = Classified(c, source, gen, t, human, settled, admitted)
  BY <1>1
<1>2. gap \in Nat /\ t \in Nat /\ Prior("at", 0) \in Nat /\ Prior("at", 0) <= t
      /\ Prior("epoch", 1) \in Nat /\ Prior("epoch", 1) >= 1
  BY PriorOK, SemanticConstants
<1>3. gen \in 1..Epochs
  BY <1>2, SemanticConstants
<1>4. source \in Source \cup {Void} /\ (source # Void => source.start <= source.deadline)
  <2> HIDE DEF t
  <2>1. CASE c.wait = Void
    <3>1. source = Void
      BY <2>1 DEF Sources, t
    <3> QED BY <3>1
  <2>2. CASE c.wait # Void
    <3>1. PICK s \in {t - 1, t} \cap Nat :
            source = [id |-> c.wait, start |-> s, deadline |-> s + Duration]
      BY <2>2 DEF Sources, t
    <3>2. c.wait \in Wait /\ s \in Nat /\ s + Duration \in Nat /\ s <= s + Duration
      BY <2>2, SemanticConstants
    <3> QED BY <3>1, <3>2 DEF Source
  <2> QED BY <2>1, <2>2
<1>5. sem # Void /\ t = sem.at => gap = 0
  BY <1>2 DEF Prior
<1>6. Given(c, source, gen, t, human, settled, admitted)
  <2> HIDE DEF t
  <2> QED BY <1>1, <1>1a, <1>2, <1>3, <1>4, <1>5 DEF Given
<1> QED BY <1>1a, <1>6

-----------------------------------------------------------------------------
(* The observation of the same instant once more shows nothing new, and     *)
(* casts doubt exactly when the one before it did.                          *)
LEMMA TakenIn ==
  ASSUME Standing, NEW c, NEW source, NEW gen, NEW t, NEW human, NEW settled,
         NEW admitted, Given(c, source, gen, t, human, settled, admitted)
  PROVE  /\ IsFiniteSet(admitted) /\ Cardinality(admitted) \in Nat
         /\ admitted \in SUBSET Evidence
         /\ SeenOK(Prior("seen", {}) \cup admitted)
         /\ \/ c.evidence \subseteq Prior("seen", {}) \cup admitted
            \/ Cardinality(Prior("seen", {}) \cup admitted) = EvidenceLimit
         /\ \/ c.evidence \subseteq Prior("seen", {})
            \/ Cardinality(Prior("seen", {})) = EvidenceLimit
            => admitted = {}
<1>1. c.evidence \in SUBSET Evidence
  BY SemanticConstants DEF Given
<1>2. SeenOK(Prior("seen", {})) /\ admitted \in Admitted(c.evidence)
  BY PriorOK DEF Given
<1> QED BY <1>1, <1>2, AdmittedOK

LEMMA SameInstant ==
  ASSUME Standing, NEW c, NEW source, NEW gen, NEW t, NEW human, NEW settled,
         NEW admitted, Given(c, source, gen, t, human, settled, admitted),
         NEW r, r = Classified(c, source, gen, t, human, settled, admitted),
         ~Fresh(c, source, gen, t)
  PROVE  /\ sem # Void /\ sem.epoch = gen /\ Fenced(gen) /\ admitted = {}
         /\ t = sem.at /\ c = sem.checkpoint
         /\ Doubtful(r) <=> Doubtful(sem)
<1>1. /\ sem # Void /\ sem.epoch = gen /\ Fenced(gen)
      /\ c = sem.checkpoint /\ source = sem.source /\ ~(t > sem.at)
  BY Zenon DEF Fresh, Fenced
<1>2. Sound(sem)
  BY <1>1 DEF Standing
<1>3. sem.at = Prior("at", 0) /\ sem.at \in Nat /\ t \in Nat /\ Prior("at", 0) <= t
  BY <1>1, PriorOK DEF Given, Prior
<1>4. t = sem.at
  BY <1>1, <1>3
<1>5. human = sem.human /\ settled = sem.settled
  BY <1>1, <1>4 DEF Given
<1>6. admitted = {}
  <2>1. \/ c.evidence \subseteq sem.seen
        \/ Cardinality(sem.seen) = EvidenceLimit
    BY <1>1, <1>2 DEF Sound, TableOK
  <2>2. Prior("seen", {}) = sem.seen
    BY <1>1 DEF Prior
  <2>3. \/ c.evidence \subseteq Prior("seen", {})
        \/ Cardinality(Prior("seen", {})) = EvidenceLimit
        => admitted = {}
    BY TakenIn
  <2> QED BY <2>1, <2>2, <2>3
<1>7. r.waits = sem.waits /\ r.lease = sem.lease /\ r.useful = sem.useful /\ r.at = sem.at
      /\ r.human = sem.human /\ r.settled = sem.settled
  <2>1. /\ r.waits = NextWaits(Prior("waits", <<>>), source, t)
        /\ r.lease = LeaseOf(r.waits, source) /\ r.at = t
        /\ r.human = human /\ r.settled = settled
        /\ r.useful = IF admitted # {}
                      THEN [evidence |-> admitted, renewed |-> t, expires |-> t + Useful]
                      ELSE Prior("useful", Void)
    <3>1. Reads(r, c, source, gen, t, human, settled, admitted)
      BY ClassifiedIs, Zenon
    <3> QED BY <3>1 DEF Reads
  <2>2. Prior("waits", <<>>) = sem.waits /\ Prior("useful", Void) = sem.useful
    BY <1>1 DEF Prior
  <2>3. sem.lease = LeaseOf(sem.waits, sem.source)
        /\ NextWaits(sem.waits, sem.source, sem.at) = sem.waits
    BY <1>2 DEF Sound, WaitOK
  <2> QED BY <1>1, <1>4, <1>5, <1>6, <2>1, <2>2, <2>3
<1>8. Doubtful(r) <=> Doubtful(sem)
  BY <1>7 DEF Doubtful, Waiting, Backed
<1> QED BY <1>1, <1>4, <1>6, <1>8

(* The waits and the evidence after an observation.                         *)
LEMMA ObservedWaits ==
  ASSUME Standing, NEW c, NEW source, NEW gen, NEW t, NEW human, NEW settled,
         NEW admitted, Given(c, source, gen, t, human, settled, admitted),
         NEW r, r = Classified(c, source, gen, t, human, settled, admitted)
  PROVE  /\ WaitOK(r) /\ r.lease \in DOMAIN r.waits \cup {Void}
         /\ r.lease \in Wait \cup {Void}
         /\ \A w \in DOMAIN Prior("waits", <<>>) :
              /\ w \in DOMAIN r.waits
              /\ r.waits[w].start = Prior("waits", <<>>)[w].start
              /\ r.waits[w].deadline = Prior("waits", <<>>)[w].deadline
<1>1. /\ r.waits = NextWaits(Prior("waits", <<>>), source, t)
      /\ r.lease = LeaseOf(r.waits, source) /\ r.source = source /\ r.at = t
  <2>1. Reads(r, c, source, gen, t, human, settled, admitted)
    BY ClassifiedIs, Zenon
  <2> QED BY <2>1 DEF Reads
<1> DEFINE old == Prior("waits", <<>>)
<1>2. r.waits = NextWaits(old, source, t) /\ WaitsOK(old) /\ source \in Source \cup {Void} /\ t \in Nat
      /\ (source # Void => source.start <= source.deadline)
  BY <1>1, PriorOK DEF Given
<1> HIDE DEF old
<1>3. /\ WaitsOK(NextWaits(old, source, t))
      /\ \A w \in DOMAIN old :
           /\ w \in DOMAIN NextWaits(old, source, t)
           /\ NextWaits(old, source, t)[w].start = old[w].start
           /\ NextWaits(old, source, t)[w].deadline = old[w].deadline
      /\ NextWaits(NextWaits(old, source, t), source, t) = NextWaits(old, source, t)
  BY <1>2, NextWaitsOK
<1>4. WaitOK(r)
  BY <1>1, <1>2, <1>3 DEF WaitOK
<1>5. r.lease \in DOMAIN r.waits \cup {Void}
  BY <1>1 DEF LeaseOf
<1>6. DOMAIN r.waits \subseteq Wait
  BY <1>2, <1>3 DEF WaitsOK, Waits
<1> QED BY <1>2, <1>3, <1>4, <1>5, <1>6 DEF old

LEMMA ObservedEvidence ==
  ASSUME Standing, NEW c, NEW source, NEW gen, NEW t, NEW human, NEW settled,
         NEW admitted, Given(c, source, gen, t, human, settled, admitted),
         NEW r, r = Classified(c, source, gen, t, human, settled, admitted)
  PROVE  /\ TableOK(r) /\ r.unseen \in Nat /\ r.useful \in Lease \cup {Void}
         /\ r.unseen = 0 <=> admitted = {}
         /\ admitted # {} => /\ Backed(r) /\ r.useful.renewed = r.at
                             /\ Cardinality(r.useful.evidence) = r.unseen
<1>1. /\ IsFiniteSet(admitted) /\ Cardinality(admitted) \in Nat
      /\ admitted \in SUBSET Evidence
      /\ SeenOK(Prior("seen", {}) \cup admitted)
      /\ \/ c.evidence \subseteq Prior("seen", {}) \cup admitted
         \/ Cardinality(Prior("seen", {}) \cup admitted) = EvidenceLimit
  BY TakenIn
<1>2. /\ r.seen = Prior("seen", {}) \cup admitted /\ r.unseen = Cardinality(admitted)
      /\ r.at = t /\ r.checkpoint = c
      /\ r.useful = IF admitted # {}
                    THEN [evidence |-> admitted, renewed |-> t, expires |-> t + Useful]
                    ELSE Prior("useful", Void)
  <2>1. Reads(r, c, source, gen, t, human, settled, admitted)
    BY ClassifiedIs, Zenon
  <2> QED BY <2>1 DEF Reads
<1>3. t \in Nat /\ Prior("at", 0) <= t /\ Prior("at", 0) \in Nat
  BY PriorOK DEF Given
<1>4. r.unseen = 0 <=> admitted = {}
  BY <1>1, <1>2, FS_EmptySet
<1>5. CASE admitted # {}
  <2>1. r.useful = [evidence |-> admitted, renewed |-> t, expires |-> t + Useful]
    BY <1>2, <1>5
  <2>2. r.useful \in Lease
    BY <1>1, <1>3, <2>1, SemanticConstants DEF Lease
  <2>3. r.useful # Void
    BY <2>2, SemanticVoidAssumption
  <2>4. r.useful.evidence = admitted /\ r.useful.renewed = t /\ r.useful.expires = t + Useful
    BY <2>1
  <2>5. Backed(r)
    BY <1>2, <1>3, <2>3, <2>4, SemanticConstants DEF Backed
  <2>6. UsefulOK(r.useful, r.seen, r.at)
    BY <1>2, <1>3, <1>5, <2>2, <2>4 DEF UsefulOK
  <2> QED BY <1>1, <1>2, <1>4, <2>2, <2>4, <2>5, <2>6 DEF TableOK
<1>6. CASE admitted = {}
  <2>1. r.useful = Prior("useful", Void)
    BY <1>2, <1>6
  <2>2. /\ r.useful # Void => r.useful \in Lease
        /\ UsefulOK(r.useful, Prior("seen", {}), Prior("at", 0))
    BY <2>1, PriorOK
  <2>3. UsefulOK(r.useful, r.seen, r.at)
    <3>1. r.useful # Void => r.useful.renewed \in Nat
      BY <2>2 DEF Lease
    <3> QED BY <1>2, <1>3, <2>2, <3>1 DEF UsefulOK
  <2> QED BY <1>1, <1>2, <1>4, <1>6, <2>2, <2>3 DEF TableOK
<1> QED BY <1>5, <1>6

(* The counts after an observation: a final verdict takes a doubt before it. *)
LEMMA ObservedCounts ==
  ASSUME Standing, NEW c, NEW source, NEW gen, NEW t, NEW human, NEW settled,
         NEW admitted, Given(c, source, gen, t, human, settled, admitted),
         NEW r, r = Classified(c, source, gen, t, human, settled, admitted),
         NEW u, u = Unconfirmed(c, source, gen, t)
  PROVE  /\ u \in 0..2 /\ r.count \in 1..History /\ u <= r.count
         /\ Doubtful(r) => u > 0
         /\ u = 2 => Fenced(gen) /\ sem.suspects > 0
         /\ Fenced(gen) /\ sem.suspects > 0 /\ Fresh(c, source, gen, t) => u = 2
<1> DEFINE x == IF Fenced(gen) THEN sem.suspects ELSE 0
           y == IF Fenced(gen) THEN sem.count ELSE 0
           n == IF Fresh(c, source, gen, t) THEN 1 ELSE 0
<1>1. u = Capped(x + n, 2)
  BY DEF Unconfirmed
<1>2. r.count = Capped(y + n, History)
  <2>1. Reads(r, c, source, gen, t, human, settled, admitted)
    BY ClassifiedIs, Zenon
  <2> QED BY <2>1 DEF Reads
<1>3. Fenced(gen) => Sound(sem)
  BY DEF Fenced, Standing
<1>4. Fenced(gen) => /\ sem.suspects \in 0..2 /\ sem.count \in 1..History
                       /\ sem.suspects <= sem.count
                       /\ (sem.suspects > 0 <=> Doubtful(sem))
  BY <1>3 DEF Sound, State, DoubtOK
<1>5. x \in 0..2 /\ y \in 0..History /\ x <= y /\ n \in 0..1
  <2>1. CASE Fenced(gen)
    <3>1. x = sem.suspects /\ y = sem.count
      BY <2>1
    <3>2. y \in 0..History
      BY <1>4, <2>1, <3>1, SemanticConstants
    <3> QED BY <1>4, <2>1, <3>1, <3>2
  <2>2. CASE ~Fenced(gen)
    BY <2>2, SemanticConstants
  <2> QED BY <2>1, <2>2
<1>6. n = 1 \/ (n = 0 /\ Fenced(gen) /\ y > 0 /\ (Doubtful(r) => x > 0))
  <2>1. CASE Fresh(c, source, gen, t)
    BY <2>1
  <2>2. CASE ~Fresh(c, source, gen, t)
    <3>1. Fenced(gen) /\ (Doubtful(r) <=> Doubtful(sem))
      BY <2>2, SameInstant
    <3> QED BY <1>4, <2>2, <3>1
  <2> QED BY <2>1, <2>2
<1>7. x > 0 => Fenced(gen) /\ sem.suspects > 0
  OBVIOUS
<1>8. Fenced(gen) /\ sem.suspects > 0 => x > 0
  OBVIOUS
<1>9. Fresh(c, source, gen, t) => n = 1
  OBVIOUS
<1> HIDE DEF x, y, n
<1> QED BY <1>1, <1>2, <1>5, <1>6, <1>7, <1>8, <1>9, SemanticConstants DEF Capped

(* The window after an observation.                                         *)
LEMMA ObservedWindow ==
  ASSUME Standing, NEW c, NEW source, NEW gen, NEW t, NEW human, NEW settled,
         NEW admitted, Given(c, source, gen, t, human, settled, admitted),
         NEW r, r = Classified(c, source, gen, t, human, settled, admitted)
  PROVE  /\ r.history \in Seq(Steps) /\ WindowOK(r)
         /\ (Fenced(gen) /\ admitted = {}) \/ Len(r.history) = 1
<1> DEFINE kept == KeptWindow(gen, admitted)
           step == Fingerprint(c)
           y == IF Fenced(gen) THEN sem.count ELSE 0
           n == IF Fresh(c, source, gen, t) THEN 1 ELSE 0
<1>1. /\ r.checkpoint = c /\ r.count = Capped(y + n, History)
      /\ ~Fresh(c, source, gen, t) => r.history = kept
      /\ r.history = kept \/ r.history = Shifted(kept, step)
      /\ Fresh(c, source, gen, t) /\ (kept = <<>> \/ Last(kept) # step)
           => r.history = Shifted(kept, step)
  <2>1. Reads(r, c, source, gen, t, human, settled, admitted)
    BY ClassifiedIs, Zenon
  <2> QED BY <2>1 DEF Reads, KeptOn
<1>2. step \in Steps
  BY DEF Steps, Given
<1>3. Fenced(gen) => /\ sem.history \in Seq(Steps) /\ Len(sem.history) \in 1..History
                       /\ Len(sem.history) <= sem.count /\ sem.count \in 1..History
                       /\ Last(sem.history) = Fingerprint(sem.checkpoint)
  BY DEF Fenced, Standing, Sound, State, WindowOK
<1>4. /\ kept \in Seq(Steps) /\ Len(kept) \in 0..History /\ Len(kept) <= y
      /\ kept # <<>> => Len(kept) >= 1
      /\ kept = <<>> => Len(kept) = 0
      /\ y \in 0..History
      /\ (Fenced(gen) /\ admitted = {}) \/ kept = <<>>
  <2>1. CASE Fenced(gen) /\ admitted = {}
    <3>1. kept = sem.history /\ y = sem.count
      BY <2>1 DEF KeptWindow
    <3>2. Len(kept) \in 0..History /\ y \in 0..History
      BY <1>3, <2>1, <3>1, SemanticConstants
    <3> HIDE DEF kept
    <3> QED BY <1>3, <2>1, <3>1, <3>2, EmptySeq
  <2>2. CASE ~(Fenced(gen) /\ admitted = {})
    <3>1. kept = <<>>
      BY <2>2 DEF KeptWindow
    <3>2. y \in 0..History
      BY <1>3, SemanticConstants
    <3>3. 0 \in 0..History
      BY SemanticConstants
    <3> HIDE DEF kept, y
    <3> QED BY <3>1, <3>2, <3>3, EmptySeq
  <2> QED BY <2>1, <2>2
<1>5. n \in 0..1 /\ (Fresh(c, source, gen, t) <=> n = 1)
  OBVIOUS
<1>6. ~Fresh(c, source, gen, t) =>
        kept # <<>> /\ Last(kept) = step /\ Fenced(gen) /\ admitted = {}
  <2>1. SUFFICES ASSUME ~Fresh(c, source, gen, t)
                 PROVE  kept # <<>> /\ Last(kept) = step /\ Fenced(gen) /\ admitted = {}
    OBVIOUS
  <2>2. Fenced(gen) /\ admitted = {} /\ c = sem.checkpoint
    BY <2>1, SameInstant
  <2>3. kept = sem.history
    BY <2>2 DEF KeptWindow
  <2>4. kept # <<>>
    BY <1>3, <2>2, <2>3, EmptySeq
  <2> QED BY <1>3, <2>2, <2>3, <2>4
<1> HIDE DEF kept, step, y, n
<1>7. CASE Fresh(c, source, gen, t) /\ r.history = Shifted(kept, step)
  <2>1. /\ r.history \in Seq(Steps) /\ Last(r.history) = step
        /\ Len(r.history) = Capped(Len(kept) + 1, History)
    <3>1. Len(kept) <= History
      BY <1>4, SemanticConstants
    <3> QED BY <1>2, <1>4, <1>7, <3>1, ShiftedOK
  <2>2. Len(r.history) \in 1..History /\ Len(r.history) <= r.count
    BY <1>1, <1>4, <1>5, <1>7, <2>1, SemanticConstants DEF Capped
  <2>3. kept = <<>> => Len(r.history) = 1
    BY <1>4, <2>1, SemanticConstants DEF Capped
  <2> QED BY <1>1, <1>4, <2>1, <2>2, <2>3 DEF WindowOK, step
<1>8. CASE ~(Fresh(c, source, gen, t) /\ r.history = Shifted(kept, step))
  <2>1. r.history = kept /\ kept # <<>> /\ Last(kept) = step
    BY <1>1, <1>6, <1>8
  <2>2. Len(kept) \in 1..History /\ Len(kept) <= r.count
    BY <1>1, <1>4, <1>5, <2>1, SemanticConstants DEF Capped
  <2> QED BY <1>1, <1>4, <2>1, <2>2 DEF WindowOK, step
<1> QED BY <1>7, <1>8

(* The class of an observation, by the arms of the classifier.              *)
ClassSays(class, settled, human, new, waiting, loop, covered, u) ==
  /\ class \in Classes
  /\ class = "settled" <=> settled
  /\ class = "human_required" => human
  /\ human => class \in {"human_required", "settled"}
  /\ class = "expected_wait" => waiting /\ ~new /\ loop = "none"
  /\ class = "progressing" => new \/ (covered /\ ~waiting)
  /\ class = "suspect" => ~new /\ ~waiting /\ ~covered /\ u < 2
  /\ class = "stagnant" =>
       ~new /\ ~waiting /\ ~covered /\ u = 2 /\ loop = "none"
  /\ class = "looping" =>
       /\ ~new /\ loop # "none" /\ ~settled /\ ~human
       /\ ~waiting => ~covered /\ u = 2
  /\ ~settled /\ ~human /\ ~new /\ ~waiting /\ ~covered =>
       /\ class \in {"suspect", "stagnant", "looping"}
       /\ u = 2 => class \in {"stagnant", "looping"}

LEMMA ObservedClass ==
  ASSUME Standing, NEW c, NEW source, NEW gen, NEW t, NEW human, NEW settled,
         NEW admitted, Given(c, source, gen, t, human, settled, admitted),
         NEW r, r = Classified(c, source, gen, t, human, settled, admitted),
         NEW u, u = Unconfirmed(c, source, gen, t)
  PROVE  /\ r.class \in Classes /\ r.loop \in Loops /\ r.incident = IncidentOf(r)
         /\ r.human = human /\ r.settled = settled
         /\ r.suspects = IF Doubtful(r) THEN u ELSE 0
         /\ r.class = "settled" <=> settled
         /\ r.class = "human_required" => human
         /\ human => r.class \in {"human_required", "settled"}
         /\ r.class = "expected_wait" => Waiting(r) /\ r.loop = "none"
         /\ r.class = "progressing" => Backed(r)
         /\ r.class = "suspect" => Doubtful(r) /\ u < 2
         /\ r.class = "stagnant" => Doubtful(r) /\ u = 2 /\ r.loop = "none"
         /\ r.class = "looping" =>
              /\ r.loop # "none" /\ admitted = {} /\ r.loop = LoopPattern(r.history)
              /\ Waiting(r) \/ (Doubtful(r) /\ u = 2)
         /\ r.class = "progressing" /\ admitted = {} => ~Waiting(r)
         /\ Doubtful(r) => /\ r.class \in {"suspect", "stagnant", "looping"}
                           /\ u = 2 => r.class \in {"stagnant", "looping"}
         /\ admitted # {} => r.loop = "none"
         /\ ~Waiting(r) /\ admitted = {} => r.loop = LoopPattern(r.history)
<1>1. /\ r.human = human /\ r.settled = settled /\ r.incident = IncidentOf(r)
      /\ r.loop = "none" \/ r.loop = Found(r, admitted)
      /\ ~Waiting(r) => r.loop = Found(r, admitted)
      /\ r.class = ClassOf(settled, human, admitted # {}, Waiting(r), r.loop,
                           Backed(r), u)
      /\ r.suspects = IF Doubtful(r) /\ admitted = {} THEN u ELSE 0
  <2>1. Reads(r, c, source, gen, t, human, settled, admitted)
    BY ClassifiedIs, Zenon
  <2> QED BY <2>1 DEF Reads
<1>2. human \in BOOLEAN /\ settled \in BOOLEAN /\ ~(human /\ settled)
  BY DEF Given
<1>3. u \in 0..2
  BY ObservedCounts
<1>4. admitted # {} => Backed(r)
  BY ObservedEvidence
<1>5. r.loop \in Loops
  <2>1. r.history \in Seq(Steps)
    BY ObservedWindow
  <2>2. LoopPattern(r.history) \in Loops
    BY <2>1, LoopPatternOK
  <2> QED BY <1>1, <2>2 DEF Found, Loops
<1>6. /\ admitted # {} => Found(r, admitted) = "none"
      /\ admitted = {} => Found(r, admitted) = LoopPattern(r.history)
  BY DEF Found
<1> DEFINE new == admitted # {}  waiting == Waiting(r)  covered == Backed(r)
           class == r.class  loop == r.loop
<1>7. /\ new \in BOOLEAN /\ waiting \in BOOLEAN /\ covered \in BOOLEAN
      /\ class = ClassOf(settled, human, new, waiting, loop, covered, u)
  BY <1>1 DEF Waiting, Backed, Covers
<1>8. Doubtful(r) <=> ~settled /\ ~human /\ ~waiting /\ ~covered
  BY <1>1 DEF Doubtful
<1>9. loop \in Loops
  BY <1>5
<1> HIDE DEF new, waiting, covered, class, loop
<1>10. ClassSays(class, settled, human, new, waiting, loop, covered, u)
  <2>1. CASE settled
    BY <1>2, <1>3, <1>7, <1>9, <2>1 DEF ClassOf, ClassSays, Classes
  <2>2. CASE ~settled /\ human
    BY <1>2, <1>3, <1>7, <1>9, <2>2 DEF ClassOf, ClassSays, Classes
  <2>3. CASE ~settled /\ ~human /\ new
    BY <1>2, <1>3, <1>7, <1>9, <2>3 DEF ClassOf, ClassSays, Classes
  <2>4. CASE ~settled /\ ~human /\ ~new /\ waiting
    BY <1>2, <1>3, <1>7, <1>9, <2>4 DEF ClassOf, ClassSays, Classes
  <2>5. CASE ~settled /\ ~human /\ ~new /\ ~waiting /\ covered
    BY <1>2, <1>3, <1>7, <1>9, <2>5 DEF ClassOf, ClassSays, Classes
  <2>6. CASE ~settled /\ ~human /\ ~new /\ ~waiting /\ ~covered
    BY <1>2, <1>3, <1>7, <1>9, <2>6 DEF ClassOf, ClassSays, Classes
  <2> QED BY <2>1, <2>2, <2>3, <2>4, <2>5, <2>6
<1>11. class \in {"suspect", "stagnant"} => ~settled /\ ~human
  BY <1>10 DEF ClassSays
<1> QED BY <1>1, <1>2, <1>4, <1>5, <1>6, <1>8, <1>10, <1>11
        DEF ClassSays, new, waiting, covered, class, loop

(* An incident is opened by the classes that call for one.                  *)
LEMMA IncidentOfOK ==
  ASSUME NEW r, r.class \in Classes, r.loop \in Loops, r.useful \in Lease \cup {Void},
         r.checkpoint \in Checkpoints, r.epoch \in 1..Epochs
  PROVE  /\ IncidentOf(r) \in IncidentKey \cup {Void}
         /\ IncidentOf(r) # Void <=> r.class \in IncidentClasses
<1>1. CASE r.class \notin IncidentClasses
  BY <1>1 DEF IncidentOf
<1>2. CASE r.class \in IncidentClasses
  <2> DEFINE window == IF r.useful = Void THEN {} ELSE r.useful.evidence
             loop == IF r.class = "looping" THEN r.loop ELSE "none"
             step == Fingerprint(r.checkpoint)
  <2>1. IncidentOf(r) = [epoch |-> r.epoch, class |-> r.class, window |-> window,
                         loop |-> loop, step |-> step]
    BY <1>2 DEF IncidentOf
  <2>2. window \in SUBSET Evidence
    BY DEF Lease
  <2>3. loop \in Loops
    BY DEF Loops
  <2>4. step \in Steps
    BY DEF Steps
  <2> HIDE DEF window, loop, step
  <2>5. IncidentOf(r) \in IncidentKey
    BY <2>1, <2>2, <2>3, <2>4 DEF IncidentKey
  <2> QED BY <1>2, <2>5, SemanticVoidAssumption
<1> QED BY <1>1, <1>2

(* After an observation the state is sound, and what is written is valid.   *)
LEMMA ObservedSound ==
  ASSUME Standing, NEW c, NEW source, NEW gen, NEW t, NEW human, NEW settled,
         NEW admitted, Given(c, source, gen, t, human, settled, admitted),
         NEW r, r = Classified(c, source, gen, t, human, settled, admitted)
  PROVE  Sound(r)
<1> DEFINE u == Unconfirmed(c, source, gen, t)
<1>1. /\ WholeRecord(r) /\ r.epoch = gen /\ r.at = t /\ r.checkpoint = c
      /\ r.source = source /\ r.human = human /\ r.settled = settled
  <2>1. Reads(r, c, source, gen, t, human, settled, admitted)
    BY ClassifiedIs, Zenon
  <2> QED BY <2>1 DEF Reads
<1>2. /\ WaitOK(r) /\ r.lease \in Wait \cup {Void}
  BY ObservedWaits
<1>3. /\ TableOK(r) /\ r.unseen \in Nat /\ r.useful \in Lease \cup {Void}
  BY ObservedEvidence
<1>4. r.history \in Seq(Steps) /\ WindowOK(r)
  BY ObservedWindow
<1>5. /\ u \in 0..2 /\ r.count \in 1..History /\ u <= r.count
      /\ Doubtful(r) => u > 0
  BY ObservedCounts
<1>6. /\ r.class \in Classes /\ r.loop \in Loops /\ r.incident = IncidentOf(r)
      /\ r.suspects = IF Doubtful(r) THEN u ELSE 0
      /\ Doubtful(r) => r.class \in {"suspect", "stagnant", "looping"}
  BY ObservedClass
<1> HIDE DEF u
<1>7. r.suspects \in 0..2 /\ DoubtOK(r)
  BY <1>5, <1>6, SemanticConstants DEF DoubtOK
<1>8. /\ r.epoch \in 1..Epochs /\ r.at \in Nat /\ r.checkpoint \in Checkpoints
      /\ r.source \in Source \cup {Void} /\ r.human \in BOOLEAN /\ r.settled \in BOOLEAN
  BY <1>1 DEF Given
<1>9. r.incident \in IncidentKey \cup {Void}
  BY <1>3, <1>6, <1>8, IncidentOfOK
<1>10. r.waits \in Waits /\ r.seen \in SUBSET Evidence
  BY <1>2, <1>3 DEF WaitOK, WaitsOK, TableOK, SeenOK
<1>11. r \in State(Waits)
  <2>1. r = [epoch |-> r.epoch, at |-> r.at, checkpoint |-> r.checkpoint,
             source |-> r.source, class |-> r.class, human |-> r.human,
             settled |-> r.settled, waits |-> r.waits, lease |-> r.lease,
             history |-> r.history, loop |-> r.loop, incident |-> r.incident,
             seen |-> r.seen, unseen |-> r.unseen, useful |-> r.useful,
             suspects |-> r.suspects, count |-> r.count]
    BY <1>1 DEF WholeRecord
  <2> QED BY <1>2, <1>3, <1>4, <1>5, <1>6, <1>7, <1>8, <1>9, <1>10, <2>1, Zenon DEF State
<1> QED BY <1>2, <1>3, <1>4, <1>7, <1>11 DEF Sound

LEMMA SoundValid ==
  ASSUME NEW r, Sound(r), r.incident = IncidentOf(r), r.lease \in DOMAIN r.waits \cup {Void}
  PROVE  r # Void /\ LeasesValid(r) /\ WindowValid(r)
<1>1. r # Void
  BY SemanticVoidAssumption DEF Sound
<1>2. LeasesValid(r)
  BY DEF Sound, LeasesValid, WaitOK, WaitsOK, TableOK, SeenOK, UsefulOK
<1>3. WindowValid(r)
  BY DEF Sound, WindowValid, WindowOK, DoubtOK, IncidentOf
<1> QED BY <1>1, <1>2, <1>3

LEMMA ObservedRelations ==
  ASSUME Standing, NEW c, NEW source, NEW gen, NEW t, NEW human, NEW settled,
         NEW admitted, Given(c, source, gen, t, human, settled, admitted),
         NEW r, r = Classified(c, source, gen, t, human, settled, admitted)
  PROVE  RelationsValid(r)
<1> DEFINE u == Unconfirmed(c, source, gen, t)
<1>1. /\ u \in 0..2
      /\ Doubtful(r) => u > 0
  BY ObservedCounts
<1>2. /\ r.class \in Classes /\ r.loop \in Loops /\ r.incident = IncidentOf(r)
      /\ r.human = human /\ r.settled = settled
      /\ r.suspects = IF Doubtful(r) THEN u ELSE 0
      /\ r.class = "settled" <=> settled
      /\ r.class = "human_required" => human
      /\ human => r.class \in {"human_required", "settled"}
      /\ r.class = "expected_wait" => Waiting(r) /\ r.loop = "none"
      /\ r.class = "progressing" => Backed(r)
      /\ r.class = "suspect" => Doubtful(r) /\ u < 2
      /\ r.class = "stagnant" => Doubtful(r) /\ u = 2 /\ r.loop = "none"
      /\ r.class = "looping" =>
           /\ r.loop # "none" /\ admitted = {} /\ r.loop = LoopPattern(r.history)
           /\ Waiting(r) \/ (Doubtful(r) /\ u = 2)
      /\ r.class = "progressing" /\ admitted = {} => ~Waiting(r)
      /\ admitted # {} => r.loop = "none"
      /\ ~Waiting(r) /\ admitted = {} => r.loop = LoopPattern(r.history)
  BY ObservedClass
<1>3. /\ r.unseen \in Nat /\ (r.unseen = 0 <=> admitted = {})
      /\ admitted # {} => /\ Backed(r) /\ r.useful.renewed = r.at
                          /\ Cardinality(r.useful.evidence) = r.unseen
  BY ObservedEvidence
<1>4. (Fenced(gen) /\ admitted = {}) \/ Len(r.history) = 1
  BY ObservedWindow
<1>5. /\ r.incident # Void <=> r.class \in IncidentClasses
      /\ r.settled \in BOOLEAN /\ r.history \in Seq(Steps)
  <2>1. Sound(r)
    BY ObservedSound
  <2>2. /\ r.class \in Classes /\ r.loop \in Loops /\ r.useful \in Lease \cup {Void}
        /\ r.checkpoint \in Checkpoints /\ r.epoch \in 1..Epochs
        /\ r.settled \in BOOLEAN /\ r.history \in Seq(Steps)
    BY <2>1 DEF Sound, State
  <2>3. IncidentOf(r) # Void <=> r.class \in IncidentClasses
    BY <2>2, IncidentOfOK
  <2> QED BY <1>2, <2>2, <2>3
<1> HIDE DEF u
<1>6. /\ (r.class = "settled") = r.settled
      /\ (r.incident # Void) = (r.class \in IncidentClasses)
  BY <1>2, <1>5
<1>7. /\ Doubtful(r) => ~Waiting(r) /\ ~Backed(r) /\ ~r.human
      /\ Waiting(r) => ~Doubtful(r)
      /\ Backed(r) => ~Doubtful(r)
      /\ r.human => ~Doubtful(r)
      /\ r.settled => ~Doubtful(r)
  BY DEF Doubtful
<1>8. /\ r.class \in {"stagnant", "suspect"} => ~Waiting(r) /\ ~Backed(r)
      /\ r.class \in {"expected_wait", "human_required", "progressing", "settled"}
           => r.suspects = 0
  BY <1>2, <1>7
<1>9. r.class = "suspect" => r.suspects = 1 /\ r.loop = LoopPattern(r.history)
  <2>1. SUFFICES ASSUME r.class = "suspect"
                 PROVE  r.suspects = 1 /\ r.loop = LoopPattern(r.history)
    OBVIOUS
  <2>2. Doubtful(r) /\ u = 1 /\ admitted = {}
    BY <1>1, <1>2, <1>3, <1>7, <2>1
  <2> QED BY <1>2, <1>7, <2>2
<1>10. r.class = "stagnant" =>
         r.suspects >= 2 /\ r.loop = "none" /\ LoopPattern(r.history) = "none"
  <2>1. SUFFICES ASSUME r.class = "stagnant"
                 PROVE  /\ r.suspects >= 2 /\ r.loop = "none"
                        /\ LoopPattern(r.history) = "none"
    OBVIOUS
  <2>2. Doubtful(r) /\ u = 2 /\ admitted = {} /\ r.loop = "none"
    BY <1>2, <1>3, <1>7, <2>1
  <2> QED BY <1>2, <1>7, <2>2
<1>11. r.class = "looping" =>
         /\ r.loop # "none" /\ r.loop = LoopPattern(r.history) /\ r.suspects # 1
         /\ r.suspects = 0 => Waiting(r)
         /\ r.suspects >= 2 => ~Waiting(r) /\ ~Backed(r)
  <2>1. SUFFICES ASSUME r.class = "looping"
                 PROVE  /\ r.suspects # 1 /\ (r.suspects = 0 => Waiting(r))
                        /\ r.suspects >= 2 => ~Waiting(r) /\ ~Backed(r)
    BY <1>2
  <2>2. CASE Waiting(r)
    BY <1>2, <1>7, <2>2
  <2>3. CASE Doubtful(r) /\ u = 2
    BY <1>2, <1>7, <2>3
  <2> QED BY <1>2, <2>1, <2>2, <2>3
<1>12. r.class = "progressing" /\ r.unseen = 0 => r.loop = LoopPattern(r.history)
  BY <1>2, <1>3
<1>13. r.class = "progressing" /\ r.unseen > 0 =>
         /\ Len(r.history) = 1 /\ r.loop = "none" /\ r.useful.renewed = r.at
         /\ Cardinality(r.useful.evidence) = r.unseen
  BY <1>2, <1>3, <1>4
<1>14. /\ r.class = "human_required" => r.human
       /\ r.class \notin {"human_required", "settled"} => ~r.human
       /\ r.class = "expected_wait" => Waiting(r) /\ r.loop = "none"
       /\ r.class = "progressing" => Backed(r)
  BY <1>2
<1> QED BY <1>6, <1>8, <1>9, <1>10, <1>11, <1>12, <1>13, <1>14, Zenon
        DEF RelationsValid, Waiting, Backed

-----------------------------------------------------------------------------
LEMMA SemanticInitKeeps == SemanticInit => Standing /\ SemanticValid
BY DEF SemanticInit, Standing, SemanticValid, TypeOK

LEMMA ObserveTickKeeps == Standing /\ ObserveTick => (Standing /\ SemanticValid)'
<1> SUFFICES ASSUME Standing, ObserveTick PROVE (Standing /\ SemanticValid)'
  OBVIOUS
<1>1. PICK c, source, gen, t, human, settled, admitted :
        /\ Given(c, source, gen, t, human, settled, admitted)
        /\ sem' = Classified(c, source, gen, t, human, settled, admitted)
  BY TickGives
<1>2. Sound(sem')
  BY <1>1, ObservedSound
<1>3. RelationsValid(sem')
  BY <1>1, ObservedRelations
<1>4. sem'.incident = IncidentOf(sem')
  BY <1>1, ObservedClass
<1>5. sem'.lease \in DOMAIN sem'.waits \cup {Void}
  BY <1>1, ObservedWaits
<1>6. LeasesValid(sem') /\ WindowValid(sem')
  BY <1>2, <1>4, <1>5, SoundValid
<1>7. TypeOK'
  <2>1. sem' \in State(Waits) /\ sem'.waits \in Waits
    BY <1>2 DEF Sound, WaitOK, WaitsOK
  <2>2. sem' \in State({sem'.waits})
    BY <2>1, Zenon DEF State
  <2>3. /\ DOMAIN sem'.waits \subseteq Wait
        /\ \A w \in DOMAIN sem'.waits : sem'.waits[w] \in Entry
    BY <2>1 DEF Waits
  <2> QED BY <2>2, <2>3 DEF TypeOK
<1> QED BY <1>2, <1>3, <1>6, <1>7 DEF Standing, SemanticValid

(* Between two observations nothing moves.                                  *)
LEMMA SemanticKeeps ==
  Standing /\ SemanticValid /\ [SemanticNext]_sem => (Standing /\ SemanticValid)'
<1> SUFFICES ASSUME Standing, SemanticValid, [SemanticNext]_sem
             PROVE  (Standing /\ SemanticValid)'
  OBVIOUS
<1>1. CASE SemanticNext
  BY <1>1, ObserveTickKeeps DEF SemanticNext
<1>2. CASE UNCHANGED sem
  BY <1>2 DEF Standing, SemanticValid, TypeOK
<1> QED BY <1>1, <1>2

(* Every reachable state is one of the classifier's own making: Standing and *)
(* SemanticValid are inductive together.                                    *)
THEOREM SemanticInductive == SemanticSpec => [](Standing /\ SemanticValid)
BY SemanticInitKeeps, SemanticKeeps, PTL DEF SemanticSpec

(* No tick writes a state that validateEagleSemanticState refuses, so none   *)
(* ever ends at one it reads.                                               *)
THEOREM SemanticValidHolds == SemanticSpec => []SemanticValid
BY SemanticInductive, PTL

(* A final verdict takes the doubt of an earlier observation.               *)
LEMMA VerdictStep ==
  ASSUME Standing, ObserveTick, sem'.class \in {"stagnant", "looping"}
  PROVE  /\ sem # Void /\ sem.epoch = sem'.epoch
         /\ sem'.class = "stagnant" => sem.class \in {"suspect", "stagnant", "looping"}
<1>1. PICK c, source, gen, t, human, settled, admitted :
        /\ Given(c, source, gen, t, human, settled, admitted)
        /\ sem' = Classified(c, source, gen, t, human, settled, admitted)
  BY TickGives
<1> DEFINE u == Unconfirmed(c, source, gen, t)
<1>2. /\ sem'.class = "stagnant" => u = 2
      /\ sem'.class = "looping" => sem'.loop # "none" /\ sem'.loop = LoopPattern(sem'.history)
  BY <1>1, ObservedClass
<1>3. u = 2 => Fenced(gen) /\ sem.suspects > 0
  BY <1>1, ObservedCounts
<1>4. sem'.history \in Seq(Steps) /\ (Fenced(gen) \/ Len(sem'.history) = 1)
  BY <1>1, ObservedWindow
<1>5. sem'.class = "looping" => Len(sem'.history) # 1
  <2>1. Len(sem'.history) < 3 => LoopPattern(sem'.history) = "none"
    BY <1>4, LoopPatternOK
  <2>2. ASSUME Len(sem'.history) = 1 PROVE LoopPattern(sem'.history) = "none"
    <3>1. Len(sem'.history) < 3
      BY <2>2
    <3> QED BY <2>1, <3>1
  <2> QED BY <1>2, <2>2
<1>6. Fenced(gen) /\ (sem'.class = "stagnant" => sem.suspects > 0)
  BY <1>2, <1>3, <1>4, <1>5
<1>7. sem'.epoch = gen
  <2>1. Reads(sem', c, source, gen, t, human, settled, admitted)
    BY <1>1, ClassifiedIs, Zenon
  <2> QED BY <2>1 DEF Reads
<1>8. sem # Void /\ sem.epoch = sem'.epoch
  BY <1>6, <1>7 DEF Fenced
<1>9. sem.suspects > 0 => sem.class \in {"suspect", "stagnant", "looping"}
  BY <1>8 DEF Standing, Sound, DoubtOK
<1> QED BY <1>6, <1>8, <1>9

(* classifyEagleSemanticLiveness calls no workflow stagnant or looping on    *)
(* the first observation of a generation, nor stagnant on the first doubt.  *)
THEOREM VerdictHolds == SemanticSpec => VerdictNeedsTwo
<1>1. Standing /\ [SemanticNext]_sem =>
        [sem' # Void /\ sem'.class \in {"stagnant", "looping"} =>
           /\ sem # Void /\ sem.epoch = sem'.epoch
           /\ sem'.class = "stagnant" => sem.class \in {"suspect", "stagnant", "looping"}]_sem
  BY VerdictStep DEF SemanticNext
<1> QED BY <1>1, SemanticInductive, PTL DEF SemanticSpec, VerdictNeedsTwo

(* Silence is doubt: an expired wait does not cover.                        *)
LEMMA SilentDoubts ==
  ASSUME NEW s, Sound(s), s.lease \in DOMAIN s.waits \cup {Void}, Silent(s)
  PROVE  Doubtful(s)
<1>1. s \in State(Waits) /\ WaitsOK(s.waits)
  BY DEF Sound, WaitOK
<1>2. s.at \in Nat /\ s.useful \in Lease \cup {Void}
  BY <1>1 DEF State
<1>3. ~Waiting(s)
  <2>1. CASE s.lease = Void
    BY <2>1 DEF Waiting, Covers
  <2>2. CASE s.lease # Void
    <3> DEFINE e == s.waits[s.lease]
    <3>1. e \in Entry /\ WaitValid(e)
      BY <1>1, <2>2 DEF WaitsOK, Waits
    <3>2. s.at > e.deadline + Extension
      BY <2>2 DEF Silent
    <3> HIDE DEF e
    <3>3. ~(s.at <= e.effective)
      BY <1>2, <3>1, <3>2, SemanticConstants DEF WaitValid, Entry
    <3> QED BY <3>3 DEF Waiting, Covers, e
  <2> QED BY <2>1, <2>2
<1>4. ~Backed(s)
  BY <1>2 DEF Backed, Silent, Lease
<1> QED BY <1>3, <1>4 DEF Doubtful, Silent

LEMMA StallStep ==
  ASSUME Standing, SemanticValid, ObserveTick, sem # Void, sem'.epoch = sem.epoch,
         sem'.at > sem.at, Silent(sem), Silent(sem')
  PROVE  sem'.class \in {"stagnant", "looping"}
<1>1. PICK c, source, gen, t, human, settled, admitted :
        /\ Given(c, source, gen, t, human, settled, admitted)
        /\ sem' = Classified(c, source, gen, t, human, settled, admitted)
  BY TickGives
<1> DEFINE u == Unconfirmed(c, source, gen, t)
<1>2. sem'.epoch = gen /\ sem'.at = t
  <2>1. Reads(sem', c, source, gen, t, human, settled, admitted)
    BY <1>1, ClassifiedIs, Zenon
  <2> QED BY <2>1 DEF Reads
<1>3. Fenced(gen) /\ Fresh(c, source, gen, t)
  BY <1>2 DEF Fenced, Fresh
<1>4. Doubtful(sem')
  <2>1. Sound(sem')
    BY <1>1, ObservedSound
  <2>2. sem'.lease \in DOMAIN sem'.waits \cup {Void}
    BY <1>1, ObservedWaits
  <2> QED BY <2>1, <2>2, SilentDoubts
<1>5. sem.suspects > 0
  <2>1. Sound(sem) /\ sem.lease \in DOMAIN sem.waits \cup {Void}
    BY DEF Standing, SemanticValid, LeasesValid
  <2>2. Doubtful(sem)
    BY <2>1, SilentDoubts
  <2> QED BY <2>1, <2>2 DEF Sound, DoubtOK
<1>6. u = 2
  BY <1>1, <1>3, <1>5, ObservedCounts
<1> QED BY <1>1, <1>4, <1>6, ObservedClass

(* With its evidence old and its waits past their extension a workflow is    *)
(* found stagnant or looping at the second observation of a generation.     *)
THEOREM StallHolds == SemanticSpec => StallIsNoticed
<1>1. Standing /\ SemanticValid /\ [SemanticNext]_sem =>
        [sem # Void /\ sem' # Void /\ sem'.epoch = sem.epoch /\ sem'.at > sem.at
           /\ Silent(sem) /\ Silent(sem') => sem'.class \in {"stagnant", "looping"}]_sem
  BY StallStep DEF SemanticNext
<1> QED BY <1>1, SemanticInductive, PTL DEF SemanticSpec, StallIsNoticed

LEMMA CoverStep ==
  ASSUME Standing, ObserveTick, sem # Void, NEW w \in DOMAIN sem.waits
  PROVE  /\ w \in DOMAIN sem'.waits
         /\ sem'.waits[w].start = sem.waits[w].start
         /\ sem'.waits[w].effective <= sem.waits[w].deadline + Extension
<1>1. PICK c, source, gen, t, human, settled, admitted :
        /\ Given(c, source, gen, t, human, settled, admitted)
        /\ sem' = Classified(c, source, gen, t, human, settled, admitted)
  BY TickGives
<1>2. /\ WaitOK(sem')
      /\ \A x \in DOMAIN Prior("waits", <<>>) :
           /\ x \in DOMAIN sem'.waits
           /\ sem'.waits[x].start = Prior("waits", <<>>)[x].start
           /\ sem'.waits[x].deadline = Prior("waits", <<>>)[x].deadline
  BY <1>1, ObservedWaits
<1>3. Prior("waits", <<>>) = sem.waits
  BY DEF Prior
<1>4. /\ w \in DOMAIN sem'.waits /\ sem'.waits[w].start = sem.waits[w].start
      /\ sem'.waits[w].deadline = sem.waits[w].deadline
  BY <1>2, <1>3
<1> DEFINE e == sem'.waits[w]
<1>5. e \in Entry /\ WaitValid(e)
  BY <1>2, <1>4 DEF WaitOK, WaitsOK, Waits
<1> HIDE DEF e
<1>6. e.effective <= e.deadline + Extension
  BY <1>5, SemanticConstants DEF WaitValid, Entry
<1> QED BY <1>4, <1>6 DEF e

(* A named wait keeps its first start, and covers no longer than its first   *)
(* deadline and one extension.                                              *)
THEOREM CoverHolds == SemanticSpec => CoverIsBounded
<1>1. Standing /\ SemanticValid /\ [SemanticNext]_sem =>
        [sem # Void =>
           \A w \in DOMAIN sem.waits :
             /\ w \in DOMAIN sem'.waits
             /\ sem'.waits[w].start = sem.waits[w].start
             /\ sem'.waits[w].effective <= sem.waits[w].deadline + Extension]_sem
  BY CoverStep DEF SemanticNext
<1> QED BY <1>1, SemanticInductive, PTL DEF SemanticSpec, CoverIsBounded
=============================================================================

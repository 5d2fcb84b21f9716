----------------------------- MODULE Fec_proofs -----------------------------
(***************************************************************************)
(* Theorems about Fec: what the exclusive or over a group contains, and    *)
(* that the parity packet makes up for any one packet, for groups of every *)
(* size and payloads of every content.                                     *)
(***************************************************************************)
EXTENDS Fec, FiniteSetTheorems, WellFoundedInduction, TLAPS

\* Every set of natural numbers has a least element: what the inductions rest on.
LEMMA LeastNat ==
    ASSUME NEW T, T \subseteq Nat, T # {}
    PROVE  \E n \in T : \A m \in T : n <= m
<1> DEFINE R == OpToRel(<, Nat)
<1>1. IsWellFoundedOn(R, Nat)
  BY NatLessThanWellFounded
<1>2. \A m, n \in Nat : <<m, n>> \in R <=> m < n
  BY DEF OpToRel
<1> HIDE DEF R
<1>3. PICK n \in T : \A m \in T : ~(<<m, n>> \in R)
  BY <1>1, WFMin
<1>4. ASSUME NEW m \in T PROVE n <= m
  <2>1. n \in Nat /\ m \in Nat /\ ~(<<m, n>> \in R)
    BY <1>3
  <2>2. ~(m < n)
    BY <1>2, <2>1
  <2> QED BY <2>1, <2>2
<1> QED BY <1>4

-----------------------------------------------------------------------------
\* The payloads that contain a term, and the terms that an odd number of payloads
\* contain.
Holders(known, I, t) == {i \in I : t \in known[i]}
OddTerms(known, I) ==
    {t \in UNION {known[i] : i \in I} : Cardinality(Holders(known, I, t)) % 2 = 1}

\* One payload more turns exactly its own terms around.
LEMMA OddSplit ==
    ASSUME NEW known, NEW I, IsFiniteSet(I), NEW x \in I
    PROVE  OddTerms(known, I) = Xor(known[x], OddTerms(known, I \ {x}))
<1> DEFINE J == I \ {x}
<1>1. ASSUME NEW t
      PROVE  /\ Cardinality(Holders(known, J, t)) \in Nat
             /\ Cardinality(Holders(known, I, t)) =
                  IF t \in known[x] THEN Cardinality(Holders(known, J, t)) + 1
                                    ELSE Cardinality(Holders(known, J, t))
  <2>1. IsFiniteSet(Holders(known, J, t))
    BY FS_Subset DEF Holders
  <2>2. CASE t \in known[x]
    <3>1. Holders(known, I, t) = Holders(known, J, t) \cup {x} /\ x \notin Holders(known, J, t)
      BY <2>2 DEF Holders
    <3> QED BY <2>1, <2>2, <3>1, FS_AddElement, FS_CardinalityType
  <2>3. CASE t \notin known[x]
    <3>1. Holders(known, I, t) = Holders(known, J, t)
      BY <2>3 DEF Holders
    <3> QED BY <2>1, <2>3, <3>1, FS_CardinalityType
  <2> QED BY <2>2, <2>3
<1>2. ASSUME NEW t, NEW K, IsFiniteSet(K)
      PROVE  t \in OddTerms(known, K) <=> Cardinality(Holders(known, K, t)) % 2 = 1
  <2>1. CASE t \in UNION {known[i] : i \in K}
    BY <2>1 DEF OddTerms
  <2>2. CASE t \notin UNION {known[i] : i \in K}
    <3>1. Holders(known, K, t) = {}
      BY <2>2 DEF Holders
    <3>2. Cardinality(Holders(known, K, t)) = 0
      BY <3>1, FS_EmptySet
    <3> QED BY <2>2, <3>2 DEF OddTerms
  <2> QED BY <2>1, <2>2
<1>3. IsFiniteSet(J)
  BY FS_Subset
<1>4. ASSUME NEW t
      PROVE  t \in OddTerms(known, I) <=> ((t \in known[x]) # (t \in OddTerms(known, J)))
  <2> DEFINE m == Cardinality(Holders(known, J, t))
             n == Cardinality(Holders(known, I, t))
  <2>1. m \in Nat /\ n = IF t \in known[x] THEN m + 1 ELSE m
    BY <1>1
  <2>2. t \in OddTerms(known, I) <=> n % 2 = 1
    BY <1>2
  <2>3. t \in OddTerms(known, J) <=> m % 2 = 1
    BY <1>2, <1>3
  <2> HIDE DEF m, n
  <2>4. (m + 1) % 2 = 1 <=> m % 2 # 1
    BY <2>1
  <2> QED BY <2>1, <2>2, <2>3, <2>4
<1> QED BY <1>4 DEF Xor

-----------------------------------------------------------------------------
\* The fold takes the payloads out one by one, in an order of its own.
Chosen(s) == CHOOSE i \in s : TRUE
Folds(f, known, I) ==
    f = [s \in SUBSET I |->
            IF s = {} THEN {} ELSE Xor(known[Chosen(s)], f[s \ {Chosen(s)}])]

\* XorOver is the value of a function that folds, if there is one.
LEMMA XorOverFolds ==
    ASSUME NEW known, NEW I
    PROVE  XorOver(known, I) = (CHOOSE f : Folds(f, known, I))[I]
BY DEF XorOver, MapThenFoldSet, Folds, Chosen

\* Counting the terms is such a fold, so there is one.
LEMMA CountingFolds ==
    ASSUME NEW known, NEW I, IsFiniteSet(I)
    PROVE  Folds([s \in SUBSET I |-> OddTerms(known, s)], known, I)
<1> DEFINE f == [s \in SUBSET I |-> OddTerms(known, s)]
<1>1. ASSUME NEW s \in SUBSET I, s # {}
      PROVE  OddTerms(known, s) = Xor(known[Chosen(s)], f[s \ {Chosen(s)}])
  <2>1. Chosen(s) \in s
    BY <1>1 DEF Chosen
  <2>2. IsFiniteSet(s)
    BY FS_Subset
  <2>3. f[s \ {Chosen(s)}] = OddTerms(known, s \ {Chosen(s)})
    OBVIOUS
  <2> QED BY <2>1, <2>2, <2>3, OddSplit
<1>2. OddTerms(known, {}) = {}
  BY DEF OddTerms
<1>3. f = [s \in SUBSET I |->
             IF s = {} THEN {} ELSE Xor(known[Chosen(s)], f[s \ {Chosen(s)}])]
  BY <1>1, <1>2
<1> QED BY <1>3 DEF Folds

\* And it is the only one.
LEMMA FoldCounts ==
    ASSUME NEW known, NEW I, IsFiniteSet(I), NEW f, Folds(f, known, I),
           NEW s \in SUBSET I
    PROVE  f[s] = OddTerms(known, s)
<1> DEFINE Wrong == {r \in SUBSET I : f[r] # OddTerms(known, r)}
           Sizes == {Cardinality(r) : r \in Wrong}
<1>1. ASSUME NEW r \in SUBSET I PROVE IsFiniteSet(r) /\ Cardinality(r) \in Nat
  BY FS_Subset, FS_CardinalityType
<1>2. CASE Wrong # {}
  <2>1. Sizes \subseteq Nat /\ Sizes # {}
    BY <1>1, <1>2
  <2>2. PICK n \in Sizes : \A m \in Sizes : n <= m
    <3> HIDE DEF Sizes
    <3> QED BY <2>1, LeastNat
  <2>3. PICK r \in Wrong : n = Cardinality(r)
    BY <2>2
  <2>4. f[r] = IF r = {} THEN {} ELSE Xor(known[Chosen(r)], f[r \ {Chosen(r)}])
    BY <2>3 DEF Folds
  <2>5. CASE r = {}
    BY <2>3, <2>4, <2>5 DEF OddTerms
  <2>6. CASE r # {}
    <3>1. Chosen(r) \in r
      BY <2>6 DEF Chosen
    <3>2. Cardinality(r \ {Chosen(r)}) = n - 1 /\ n \in Nat
      BY <1>1, <2>3, <3>1, FS_RemoveElement
    <3>3. r \ {Chosen(r)} \notin Wrong
      <4>1. ASSUME r \ {Chosen(r)} \in Wrong PROVE FALSE
        <5>1. n <= n - 1
          BY <2>2, <3>2, <4>1
        <5> QED BY <3>2, <5>1
      <4> QED BY <4>1
    <3>4. f[r \ {Chosen(r)}] = OddTerms(known, r \ {Chosen(r)})
      BY <2>3, <3>3
    <3>5. OddTerms(known, r) = Xor(known[Chosen(r)], OddTerms(known, r \ {Chosen(r)}))
      BY <1>1, <2>3, <3>1, OddSplit
    <3> QED BY <2>3, <2>4, <2>6, <3>4, <3>5
  <2> QED BY <2>5, <2>6
<1>3. CASE Wrong = {}
  BY <1>3
<1> QED BY <1>2, <1>3

\* The exclusive or over a group has the terms that an odd number of its payloads
\* contain, whatever the order in which they are taken.
THEOREM XorOverCounts ==
    ASSUME NEW known, NEW I, IsFiniteSet(I)
    PROVE  XorOver(known, I) = OddTerms(known, I)
<1> DEFINE f == CHOOSE g : Folds(g, known, I)
<1>1. Folds(f, known, I)
  <2>1. \E g : Folds(g, known, I)
    BY CountingFolds
  <2> QED BY <2>1
<1> HIDE DEF f
<1>2. f[I] = OddTerms(known, I)
  BY <1>1, FoldCounts
<1> QED BY <1>2, XorOverFolds DEF f

-----------------------------------------------------------------------------
\* One payload can be taken out of the exclusive or.
LEMMA TakeOut ==
    ASSUME NEW known, NEW I, IsFiniteSet(I), NEW x \in I
    PROVE  XorOver(known, I) = Xor(known[x], XorOver(known, I \ {x}))
<1>1. IsFiniteSet(I \ {x})
  BY FS_Subset
<1> QED BY <1>1, XorOverCounts, OddSplit

\* It depends on nothing but the payloads.
LEMMA SamePayloads ==
    ASSUME NEW known, NEW other, NEW I, IsFiniteSet(I),
           \A i \in I : known[i] = other[i]
    PROVE  XorOver(known, I) = XorOver(other, I)
<1>1. \A t : Holders(known, I, t) = Holders(other, I, t)
  BY DEF Holders
<1>2. UNION {known[i] : i \in I} = UNION {other[i] : i \in I}
  OBVIOUS
<1>3. OddTerms(known, I) = OddTerms(other, I)
  BY <1>1, <1>2 DEF OddTerms
<1> QED BY <1>3, XorOverCounts

\* The length of the longest is n when all are at most that long and one is.
LEMMA LongestIs ==
    ASSUME NEW known, NEW n \in Nat, \A i \in DOMAIN known : known[i].size \in 0..n,
           NEW j \in DOMAIN known, known[j].size = n
    PROVE  Longest(known) = n
<1> DEFINE S == {known[i].size : i \in DOMAIN known}
           m == Max(S)
<1>1. n \in S /\ \A y \in S : y \in Nat /\ n >= y
  OBVIOUS
<1>2. m \in S /\ \A y \in S : m >= y
  <2> HIDE DEF S
  <2> QED BY <1>1 DEF Max
<1> HIDE DEF S, m
<1>3. m \in Nat /\ n >= m /\ m >= n
  BY <1>1, <1>2
<1>4. m = n
  BY <1>3
<1> QED BY <1>4 DEF Longest, S, m

\* A packet that is one: it has contents and a length.
IsPacket(d) == d = [terms |-> d.terms, size |-> d.size] /\ d.size \in Nat \ {0}

\* A group of finitely many packets has a longest one.
LEMMA LongestFacts ==
    ASSUME NEW known, IsFiniteSet(DOMAIN known), DOMAIN known # {},
           \A i \in DOMAIN known : known[i].size \in Nat
    PROVE  /\ Longest(known) \in Nat
           /\ \A i \in DOMAIN known : known[i].size <= Longest(known)
           /\ \E i \in DOMAIN known : known[i].size = Longest(known)
<1> DEFINE Longer(x) == {i \in DOMAIN known : known[i].size > known[x].size}
           T == {Cardinality(Longer(x)) : x \in DOMAIN known}
<1>1. \A x \in DOMAIN known : IsFiniteSet(Longer(x)) /\ Cardinality(Longer(x)) \in Nat
  BY FS_Subset, FS_CardinalityType
<1>2. T \subseteq Nat /\ T # {}
  BY <1>1
<1>3. PICK n \in T : \A m \in T : n <= m
  <2> HIDE DEF T
  <2> QED BY <1>2, LeastNat
<1>4. PICK x \in DOMAIN known : n = Cardinality(Longer(x))
  BY <1>3
<1>5. ASSUME NEW y \in DOMAIN known, known[y].size > known[x].size PROVE FALSE
  <2>1. y \in Longer(x) /\ Longer(y) \subseteq Longer(x) \ {y}
    BY <1>5
  <2>2. /\ IsFiniteSet(Longer(x) \ {y})
        /\ Cardinality(Longer(x) \ {y}) = n - 1
    BY <1>1, <1>4, <2>1, FS_RemoveElement
  <2>3. Cardinality(Longer(y)) <= n - 1
    BY <2>1, <2>2, FS_Subset
  <2>4. Cardinality(Longer(y)) >= n /\ n \in Nat /\ Cardinality(Longer(y)) \in Nat
    BY <1>1, <1>2, <1>3
  <2> QED BY <2>3, <2>4
<1>6. \A y \in DOMAIN known : known[y].size \in 0..known[x].size
  BY <1>5
<1>7. Longest(known) = known[x].size
  BY <1>6, LongestIs
<1> QED BY <1>6, <1>7

\* A group that lacks nothing but packet k, with the parity packet in place p.
LacksOne(known, data, k, p) ==
    /\ IsFiniteSet(DOMAIN data) /\ k \in DOMAIN data /\ p \notin DOMAIN data
    /\ \A i \in DOMAIN data : IsPacket(data[i])
    /\ DOMAIN known = DOMAIN data \cup {p}
    /\ known[p] = Parity(data)
    /\ known[k] = Nothing
    /\ \A i \in DOMAIN data \ {k} : known[i] = data[i]

\* The contents come back exactly.
LEMMA TermsComeBack ==
    ASSUME NEW known, NEW data, NEW k, NEW p, LacksOne(known, data, k, p)
    PROVE  XorOver(TermsOf(known), DOMAIN known) = data[k].terms
<1> DEFINE D == DOMAIN data
           have == TermsOf(known)
           sent == TermsOf(data)
           rest == XorOver(sent, D \ {k})
<1>0. IsFiniteSet(D) /\ IsFiniteSet(DOMAIN known) /\ IsFiniteSet(D \ {k})
      /\ k \in D /\ p \notin D /\ DOMAIN known = D \cup {p}
  BY FS_AddElement, FS_Subset DEF LacksOne
<1>1. XorOver(have, DOMAIN known) = Xor(have[p], XorOver(have, D))
  <2>1. p \in DOMAIN known /\ DOMAIN known \ {p} = D
    BY <1>0
  <2> QED BY <1>0, <2>1, TakeOut
<1>2. have[p] = Xor(data[k].terms, rest)
  <2>1. have[p] = XorOver(sent, D)
    BY <1>0 DEF LacksOne, Parity, XorOfAll, TermsOf
  <2>2. sent[k] = data[k].terms
    BY <1>0 DEF TermsOf
  <2> QED BY <1>0, <2>1, <2>2, TakeOut
<1>3. XorOver(have, D) = Xor({}, XorOver(have, D \ {k}))
  <2>1. have[k] = {}
    BY <1>0 DEF LacksOne, TermsOf, Nothing
  <2> QED BY <1>0, <2>1, TakeOut
<1>4. XorOver(have, D \ {k}) = rest
  <2>1. \A i \in D \ {k} : have[i] = sent[i]
    BY <1>0 DEF LacksOne, TermsOf
  <2> QED BY <1>0, <2>1, SamePayloads
<1> HIDE DEF rest
<1>5. Xor(Xor(data[k].terms, rest), Xor({}, rest)) = data[k].terms
  BY DEF Xor
<1> QED BY <1>1, <1>2, <1>3, <1>4, <1>5

\* fec_recover puts the lost packet into its place, for groups of any size and packets
\* of any content and length, followed by zeros up to the length of the longest packet
\* of the group; the packets that came stay as they are.  Only a packet that no other
\* one exceeds is back as it was sent.
THEOREM Repairs ==
    ASSUME NEW known, NEW data, NEW k, NEW p, LacksOne(known, data, k, p)
    PROVE  /\ Recovered(known)[k] = Padded(data[k], Longest(data))
           /\ \A i \in DOMAIN data \ {k} : Recovered(known)[i] = data[i]
           /\ Recovered(known)[k] = data[k]
                <=> \A i \in DOMAIN data : data[i].size <= data[k].size
<1> DEFINE D == DOMAIN data
<1>1. /\ IsFiniteSet(D) /\ D # {} /\ k \in D /\ p \notin D /\ DOMAIN known = D \cup {p}
      /\ \A i \in D : data[i].size \in Nat \ {0}
      /\ data[k] = [terms |-> data[k].terms, size |-> data[k].size]
  BY DEF LacksOne, IsPacket
<1>2. /\ Longest(data) \in Nat
      /\ \A i \in D : data[i].size <= Longest(data)
      /\ \E i \in D : data[i].size = Longest(data)
  BY <1>1, LongestFacts
<1>3. Longest(known) = Longest(data)
  <2>1. known[p].size = Longest(data) /\ p \in DOMAIN known
    BY <1>1 DEF LacksOne, Parity, XorOfAll
  <2>2. \A i \in DOMAIN known : known[i].size \in 0..Longest(data)
    BY <1>1, <1>2, <2>1 DEF LacksOne, Nothing
  <2> QED BY <1>2, <2>1, <2>2, LongestIs
<1>4. Recovered(known)[k] = Padded(data[k], Longest(data))
  BY <1>1, <1>3, TermsComeBack DEF Recovered, XorOfAll, Padded, LacksOne, Nothing
<1>5. \A i \in D \ {k} : Recovered(known)[i] = data[i]
  BY <1>1 DEF Recovered, LacksOne
<1>6. Padded(data[k], Longest(data)) = data[k] <=> Longest(data) = data[k].size
  BY <1>1 DEF Padded
<1> QED BY <1>1, <1>2, <1>4, <1>5, <1>6
=============================================================================

------------------------------- MODULE Lemmas -------------------------------
(***************************************************************************)
(* Facts that the proofs of several components rest on: % and \div, for    *)
(* the ring buffers indexed by counters that wrap at a multiple of their   *)
(* size; and the number of places that point at an object (Tally), for the *)
(* reference counts of the file table.                                     *)
(***************************************************************************)
EXTENDS Integers, Sequences, FiniteSetsExt, FiniteSetTheorems, Tally, TLAPS

(* A number in range is its own remainder.                                 *)
LEMMA ModSmall == ASSUME NEW u \in Nat \ {0}, NEW x \in 0 .. u - 1
                  PROVE  x % u = x
  BY Z3

(* One wrap below zero: what the difference of two wrapped counters is.    *)
LEMMA ModBelow == ASSUME NEW u \in Nat \ {0}, NEW x \in Int, x < 0, -u <= x
                  PROVE  x % u = x + u
  BY Z3

(* One wrap above u: what a counter is after the increment that wraps it.  *)
LEMMA ModAbove == ASSUME NEW u \in Nat \ {0}, NEW x \in Int, u <= x, x < u + u
                  PROVE  x % u = x - u
  BY Z3

(* A number is rebuilt from its quotient and its remainder.                *)
LEMMA DivMod == ASSUME NEW u \in Nat \ {0}, NEW x \in Int
                PROVE  /\ x = u * (x \div u) + (x % u)
                       /\ x \div u \in Int
                       /\ x % u \in 0 .. u - 1
  BY Z3

(* The laws of multiplication the proofs below use.                        *)
LEMMA MulLaws == ASSUME NEW u \in Int, NEW a \in Int, NEW b \in Int
                 PROVE  /\ u * (a - b) = u * a - u * b
                        /\ u * (a + b) = u * a + u * b
                        /\ (u * a) * b = u * (a * b)
  BY Z3

(* A nonzero multiple of u is at least u away from zero.                   *)
LEMMA MulBounds == ASSUME NEW u \in Nat \ {0}, NEW a \in Int
                   PROVE  (a >= 1 => u * a >= u) /\ (a <= -1 => u * a <= -u)
  <1>1. a >= 1 => u * a >= u  BY Z3
  <1>2. a <= -1 => u * a <= -u  BY Z3
  <1> QED  BY <1>1, <1>2

(* Remainders are unique.                                                  *)
LEMMA ModUnique ==
    ASSUME NEW u \in Nat \ {0}, NEW a \in Int, NEW b \in Int,
           NEW r \in 0 .. u - 1, NEW s \in 0 .. u - 1,
           u * a + r = u * b + s
    PROVE  r = s
  <1> DEFINE d == a - b
  <1>1. d \in Int  OBVIOUS
  <1>2. u * d = s - r  BY MulLaws, Z3
  <1>3. ~(d >= 1) /\ ~(d <= -1)  BY <1>1, <1>2, MulBounds, Z3
  <1>4. d = 0  BY <1>1, <1>3, Z3
  <1> QED  BY <1>2, <1>4, Z3

(* Adding a multiple of u does not change the remainder.                   *)
LEMMA ModPlus == ASSUME NEW u \in Nat \ {0}, NEW x \in Int, NEW m \in Int
                 PROVE  (x + u * m) % u = x % u
  <1> DEFINE y == x + u * m
  <1>1. y \in Int  BY Z3
  <1>2. y = u * (y \div u) + (y % u) /\ y \div u \in Int /\ y % u \in 0 .. u - 1
    BY <1>1, DivMod
  <1>3. x = u * (x \div u) + (x % u) /\ x \div u \in Int /\ x % u \in 0 .. u - 1
    BY DivMod
  <1>4. y = u * ((x \div u) + m) + (x % u)  BY <1>3, MulLaws, Z3
  <1> HIDE DEF y
  <1>5. (x \div u) + m \in Int  BY <1>3
  <1>6. y % u = x % u  BY <1>2, <1>3, <1>4, <1>5, ModUnique
  <1> QED  BY <1>6 DEF y

(* Wrapping a counter at a multiple of p does not change its slot mod p.   *)
LEMMA ModMod == ASSUME NEW p \in Nat \ {0}, NEW k \in Nat \ {0}, NEW x \in Int
                PROVE  (x % (p * k)) % p = x % p
  <1> DEFINE u == p * k
             q == x \div u
             m == k * q
  <1>1. u \in Nat \ {0}  BY Z3
  <1>2. x = u * q + (x % u) /\ q \in Int /\ x % u \in 0 .. u - 1  BY <1>1, DivMod
  <1> HIDE DEF q
  <1>3. u * q = p * m /\ m \in Int  BY <1>2, MulLaws, Z3
  <1>4. x % u \in Int /\ x = (x % u) + p * m  BY <1>1, <1>2, <1>3, Z3
  <1> HIDE DEF u, m
  <1>5. ((x % u) + p * m) % p = (x % u) % p  BY <1>3, <1>4, ModPlus
  <1> QED  BY <1>4, <1>5 DEF u

(* Numbers less than p apart fall in different slots mod p.                *)
LEMMA ModDistinct == ASSUME NEW p \in Nat \ {0}, NEW x \in Int, NEW d \in 1 .. p - 1
                     PROVE  (x + d) % p # x % p
  <1> SUFFICES ASSUME (x + d) % p = x % p PROVE FALSE  OBVIOUS
  <1> DEFINE a == (x + d) \div p
             b == x \div p
  <1>1. x + d = p * a + ((x + d) % p) /\ a \in Int  BY DivMod
  <1>2. x = p * b + (x % p) /\ b \in Int /\ x % p \in 0 .. p - 1  BY DivMod
  <1>3. d = p * (a - b)  BY <1>1, <1>2, MulLaws, Z3
  <1> HIDE DEF a, b
  <1>4. ~(a - b >= 1) /\ ~(a - b <= -1)  BY <1>1, <1>2, <1>3, MulBounds, Z3
  <1>5. a - b = 0  BY <1>1, <1>2, <1>4, Z3
  <1> QED  BY <1>3, <1>5, Z3

----------------------------------------------------------------------------
(* Every nonempty set of numbers has a least one, which Min() is.          *)
LEMMA LeastIn ==
    ASSUME NEW S, S \subseteq Nat, S # {}
    PROVE  Min(S) \in S
  <1>1. PICK x \in S : \A y \in S : ~(<<y, x>> \in OpToRel(<, Nat))
    BY NatLessThanWellFounded, WFMin, Zenon
  <1>2. \A y \in S : ~(y < x)
    <2> SUFFICES ASSUME NEW y \in S, y < x PROVE FALSE  OBVIOUS
    <2>1. <<y, x>> \in OpToRel(<, Nat)  BY DEF OpToRel
    <2> QED  BY <1>1, <2>1, Zenon
  <1>3. \A y \in S : x =< y  BY <1>2
  <1> QED  BY <1>1, <1>3, Zenon DEF Min

(* A table of P whose rows have indices in K, both finite.                 *)
Rowed(t, P, K) ==
    /\ IsFiniteSet(P) /\ IsFiniteSet(K) /\ DOMAIN t = P
    /\ \A q \in P : DOMAIN t[q] \subseteq K

LEMMA HavingFinite ==
    ASSUME NEW t, NEW P, NEW K, NEW x, Rowed(t, P, K)
    PROVE  /\ IsFiniteSet(Having(t, x)) /\ Cardinality(Having(t, x)) \in Nat
           /\ \A q \in P : /\ IsFiniteSet(Places(t[q], x))
                           /\ Cardinality(Places(t[q], x)) \in Nat
  <1> USE DEF Rowed
  <1>1. Having(t, x) \subseteq P \X K
    <2>1. SUFFICES ASSUME NEW y \in Having(t, x) PROVE y \in P \X K  BY Zenon
    <2>2. PICK q \in P : y \in {q} \X Places(t[q], x)  BY Zenon DEF Having
    <2>3. Places(t[q], x) \subseteq K  BY Zenon DEF Places
    <2> QED  BY <2>2, <2>3
  <1>2. IsFiniteSet(P \X K)  BY FS_Product, Zenon
  <1>3. IsFiniteSet(Having(t, x))  BY <1>1, <1>2, FS_Subset, Zenon
  <1>4. ASSUME NEW q \in P
        PROVE  IsFiniteSet(Places(t[q], x)) /\ Cardinality(Places(t[q], x)) \in Nat
    <2>1. Places(t[q], x) \subseteq K  BY Zenon DEF Places
    <2>2. IsFiniteSet(Places(t[q], x))  BY <2>1, FS_Subset, Zenon
    <2> QED  BY <2>2, FS_CardinalityType, Zenon
  <1> QED  BY <1>3, <1>4, FS_CardinalityType, Zenon

(* The row of p, and the others.                                           *)
Others(t, P, p, x) == UNION {{q} \X Places(t[q], x) : q \in P \ {p}}

LEMMA OneRow ==
    ASSUME NEW P, NEW t, DOMAIN t = P, NEW p \in P, NEW x
    PROVE  Having(t, x) = Others(t, P, p, x) \cup ({p} \X Places(t[p], x))
  BY Zenon DEF Having, Others

(* A row changes: what it had goes, what it has now comes.                 *)
Recounted(t1, t2, p, x) ==
    /\ Cardinality(Having(t1, x)) \in Nat
    /\ Cardinality(Places(t1[p], x)) \in Nat /\ Cardinality(Places(t2[p], x)) \in Nat
    /\ Cardinality(Having(t2, x)) = Cardinality(Having(t1, x))
         - Cardinality(Places(t1[p], x)) + Cardinality(Places(t2[p], x))

LEMMA Recount ==
    ASSUME NEW P, NEW K, NEW t1, NEW t2, Rowed(t1, P, K), Rowed(t2, P, K), NEW p \in P, NEW x,
           \A q \in P : q # p => t2[q] = t1[q]
    PROVE  Recounted(t1, t2, p, x)
  <1> DEFINE Rest == Others(t1, P, p, x)
             Own(t) == {p} \X Places(t[p], x)
  <1>0. DOMAIN t1 = P /\ DOMAIN t2 = P  BY Zenon DEF Rowed
  <1>1. Having(t1, x) = Rest \cup Own(t1)  BY <1>0, OneRow
  <1>2. Having(t2, x) = Rest \cup Own(t2)
    <2>1. Rest = Others(t2, P, p, x)  BY Zenon DEF Others
    <2>2. Having(t2, x) = Others(t2, P, p, x) \cup Own(t2)  BY <1>0, OneRow
    <2> HIDE DEF Rest, Own
    <2> QED  BY <2>1, <2>2, Zenon
  <1>3. /\ IsFiniteSet(Having(t1, x)) /\ IsFiniteSet(Having(t2, x))
        /\ IsFiniteSet(Places(t1[p], x)) /\ IsFiniteSet(Places(t2[p], x))
        /\ Cardinality(Places(t1[p], x)) \in Nat /\ Cardinality(Places(t2[p], x)) \in Nat
        /\ Cardinality(Having(t1, x)) \in Nat /\ Cardinality(Having(t2, x)) \in Nat
    BY HavingFinite, Zenon
  <1>4. IsFiniteSet(Rest) /\ IsFiniteSet({p}) /\ Cardinality({p}) = 1
    <2>1. Rest \subseteq Having(t1, x)  BY <1>1, Zenon
    <2> QED  BY <2>1, <1>3, FS_Subset, FS_Singleton, Zenon
  <1>5. Rest \cap Own(t1) = {} /\ Rest \cap Own(t2) = {}
    <2>1. \A y \in Rest : y[1] # p  BY DEF Others
    <2>2. (\A y \in Own(t1) : y[1] = p) /\ (\A y \in Own(t2) : y[1] = p)  OBVIOUS
    <2> QED  BY <2>1, <2>2, Zenon
  <1>6. ASSUME NEW A, IsFiniteSet(A), Cardinality(A) \in Nat, Rest \cap ({p} \X A) = {}
        PROVE  Cardinality(Rest \cup ({p} \X A)) = Cardinality(Rest) + Cardinality(A)
    <2>1. IsFiniteSet({p} \X A) /\ Cardinality({p} \X A) = 1 * Cardinality(A)
      BY <1>4, <1>6, FS_Product, Zenon
    <2>2. Cardinality(Rest \cup ({p} \X A))
            = Cardinality(Rest) + Cardinality({p} \X A) - Cardinality(Rest \cap ({p} \X A))
      BY <2>1, <1>4, FS_Union, Zenon
    <2>3. Cardinality(Rest \cap ({p} \X A)) = 0  BY <1>6, FS_EmptySet, Zenon
    <2>4. Cardinality(Rest) \in Nat  BY <1>4, FS_CardinalityType, Zenon
    <2> QED  BY <1>6, <2>1, <2>2, <2>3, <2>4, SMT
  <1>7. /\ Cardinality(Having(t1, x)) = Cardinality(Rest) + Cardinality(Places(t1[p], x))
        /\ Cardinality(Having(t2, x)) = Cardinality(Rest) + Cardinality(Places(t2[p], x))
    BY <1>1, <1>2, <1>3, <1>5, <1>6, Zenon
  <1>8. Cardinality(Rest) \in Nat  BY <1>4, FS_CardinalityType, Zenon
  <1> HIDE DEF Rest, Own
  <1> QED  BY <1>3, <1>7, <1>8, SMT DEF Recounted

(* Nobody has what has count 0.                                            *)
Nowhere(t, P, x) == \A q \in P : \A k \in DOMAIN t[q] : t[q][k] # x

LEMMA NoneHave ==
    ASSUME NEW t, NEW P, NEW K, NEW x, Rowed(t, P, K)
    PROVE  Cardinality(Having(t, x)) = 0 <=> Nowhere(t, P, x)
  <1>1. IsFiniteSet(Having(t, x))  BY HavingFinite, Zenon
  <1>2. Cardinality(Having(t, x)) = 0 <=> Having(t, x) = {}  BY <1>1, FS_EmptySet, Zenon
  <1>3. Having(t, x) = {} <=> Nowhere(t, P, x)
    <2>1. \A y : y \in Having(t, x) <=> \E q \in P : y \in {q} \X Places(t[q], x)
      BY Zenon DEF Having, Rowed
    <2>2. ASSUME NEW q \in P
          PROVE  {q} \X Places(t[q], x) = {} <=> \A k \in DOMAIN t[q] : t[q][k] # x
      <3>1. \A k : k \in Places(t[q], x) <=> k \in DOMAIN t[q] /\ t[q][k] = x  BY Zenon DEF Places
      <3>2. {q} \X Places(t[q], x) = {} <=> Places(t[q], x) = {}
        <4>1. ASSUME NEW k \in Places(t[q], x) PROVE <<q, k>> \in {q} \X Places(t[q], x)  BY Zenon
        <4>2. ASSUME NEW y \in {q} \X Places(t[q], x) PROVE y[2] \in Places(t[q], x)  OBVIOUS
        <4> QED  BY <4>1, <4>2, Zenon
      <3> QED  BY <3>1, <3>2, Zenon
    <2> QED  BY <2>1, <2>2, Zenon DEF Nowhere
  <1> QED  BY <1>2, <1>3, Zenon

(* 1 where a is b.                                                         *)
Same(a, b) == IF a = b THEN 1 ELSE 0

(* One entry of a row changes.                                             *)
PlaceMoves(a, b, k, x) ==
    /\ Cardinality(Places(a, x)) \in Nat
    /\ Cardinality(Places(b, x)) = Cardinality(Places(a, x)) - Same(a[k], x) + Same(b[k], x)

LEMMA PlacesSet ==
    ASSUME NEW D, IsFiniteSet(D), NEW k \in D, NEW x,
           NEW a, DOMAIN a = D, NEW b, DOMAIN b = D, \A j \in D : j # k => b[j] = a[j]
    PROVE  PlaceMoves(a, b, k, x)
  <1> DEFINE R == {j \in D : j # k /\ a[j] = x}
  <1>1. /\ a[k] = x => Places(a, x) = R \cup {k}
        /\ a[k] # x => Places(a, x) = R  BY Zenon DEF Places
  <1>2. /\ b[k] = x => Places(b, x) = R \cup {k}
        /\ b[k] # x => Places(b, x) = R  BY Zenon DEF Places
  <1>3. IsFiniteSet(R) /\ k \notin R
    <2>1. R \subseteq D  BY Zenon
    <2> QED  BY <2>1, FS_Subset, Zenon
  <1>4. Cardinality(R) \in Nat /\ Cardinality(R \cup {k}) = Cardinality(R) + 1
    BY <1>3, FS_CardinalityType, FS_AddElement, Zenon
  <1>5. Cardinality(Places(a, x)) = Cardinality(R) + Same(a[k], x)
    <2>1. CASE a[k] = x  BY <1>1, <1>4, <2>1, Zenon DEF Same
    <2>2. CASE a[k] # x
      <3>1. Cardinality(Places(a, x)) = Cardinality(R) /\ Same(a[k], x) = 0  BY <1>1, <2>2, Zenon DEF Same
      <3> HIDE DEF R
      <3> QED  BY <1>4, <3>1, SMT
    <2> QED  BY <2>1, <2>2, Zenon
  <1>6. Cardinality(Places(b, x)) = Cardinality(R) + Same(b[k], x)
    <2>1. CASE b[k] = x  BY <1>2, <1>4, <2>1, Zenon DEF Same
    <2>2. CASE b[k] # x
      <3>1. Cardinality(Places(b, x)) = Cardinality(R) /\ Same(b[k], x) = 0  BY <1>2, <2>2, Zenon DEF Same
      <3> HIDE DEF R
      <3> QED  BY <1>4, <3>1, SMT
    <2> QED  BY <2>1, <2>2, Zenon
  <1>7. Same(a[k], x) \in Nat /\ Same(b[k], x) \in Nat  BY DEF Same
  <1> HIDE DEF R
  <1> QED  BY <1>4, <1>5, <1>6, <1>7, SMT DEF PlaceMoves

(* Two sequences one after the other.                                      *)
PlacesAdd(s, r, x) ==
    /\ Cardinality(Places(s, x)) \in Nat /\ Cardinality(Places(r, x)) \in Nat
    /\ Cardinality(Places(s \o r, x)) = Cardinality(Places(s, x)) + Cardinality(Places(r, x))

LEMMA PlacesConcat ==
    ASSUME NEW S, NEW s \in Seq(S), NEW r \in Seq(S), NEW x
    PROVE  PlacesAdd(s, r, x)
  <1> DEFINE n == Len(s)
             R == {k \in n + 1 .. n + Len(r) : r[k - n] = x}
  <1>0. /\ n \in Nat /\ Len(r) \in Nat /\ DOMAIN s = 1 .. n /\ DOMAIN r = 1 .. Len(r)
        /\ s \o r \in Seq(S) /\ Len(s \o r) = n + Len(r) /\ DOMAIN (s \o r) = 1 .. n + Len(r)
    OBVIOUS
  <1>1. /\ \A k \in 1 .. n : (s \o r)[k] = s[k]
        /\ \A k \in n + 1 .. n + Len(r) : (s \o r)[k] = r[k - n]
    OBVIOUS
  <1>2. Places(s \o r, x) = Places(s, x) \cup R
    <2>1. 1 .. n + Len(r) = 1 .. n \cup (n + 1 .. n + Len(r))  BY <1>0
    <2>2. {k \in 1 .. n : (s \o r)[k] = x} = Places(s, x)  BY <1>0, <1>1, Zenon DEF Places
    <2>3. {k \in n + 1 .. n + Len(r) : (s \o r)[k] = x} = R  BY <1>1, Zenon
    <2> QED  BY <1>0, <2>1, <2>2, <2>3, Zenon DEF Places
  <1>3. IsFiniteSet(1 .. n) /\ IsFiniteSet(1 .. Len(r)) /\ IsFiniteSet(n + 1 .. n + Len(r))
    <2>1. 1 \in Int /\ n \in Int /\ Len(r) \in Int /\ n + 1 \in Int /\ n + Len(r) \in Int  BY <1>0
    <2> QED  BY <2>1, FS_Interval, Zenon
  <1>4. IsFiniteSet(Places(s, x)) /\ IsFiniteSet(Places(r, x)) /\ IsFiniteSet(R)
    <2>1. /\ Places(s, x) \subseteq 1 .. n /\ Places(r, x) \subseteq 1 .. Len(r)
          /\ R \subseteq n + 1 .. n + Len(r)  BY <1>0, Zenon DEF Places
    <2> QED  BY <1>3, <2>1, FS_Subset, Zenon
  <1>5. Places(s, x) \cap R = {}
    <2>1. \A k \in Places(s, x) : k \in 1 .. n  BY <1>0, Zenon DEF Places
    <2>2. \A k \in R : k \notin 1 .. n  BY <1>0
    <2> QED  BY <2>1, <2>2, Zenon
  <1>6. ExistsBijection(R, Places(r, x))
    <2> DEFINE f == [k \in R |-> k - n]
    <2>1. \A k \in Places(r, x) : k \in 1 .. Len(r) /\ r[k] = x  BY <1>0, Zenon DEF Places
    <2>2. \A k \in 1 .. Len(r) : r[k] = x => k \in Places(r, x)  BY <1>0, Zenon DEF Places
    <2>3. f \in [R -> Places(r, x)]
      <3>1. \A k \in R : k - n \in 1 .. Len(r) /\ r[k - n] = x  BY <1>0
      <3> QED  BY <2>2, <3>1, Zenon
    <2>4. \A j, k \in R : f[j] = f[k] => j = k  BY <1>0
    <2>5. \A k \in Places(r, x) : \E j \in R : f[j] = k
      <3> TAKE k \in Places(r, x)
      <3>1. k + n \in R /\ (k + n) - n = k  BY <1>0, <2>1
      <3> QED  BY <3>1
    <2> HIDE DEF f, R
    <2> QED  BY <2>3, <2>4, <2>5, Zenon DEF ExistsBijection, Bijection, Injection, Surjection, IsInjective
  <1> HIDE DEF R, n
  <1>7. Cardinality(R) = Cardinality(Places(r, x))  BY <1>4, <1>6, FS_Bijection, Zenon
  <1>8. Cardinality(Places(s, x) \cap R) = 0  BY <1>5, FS_EmptySet, Zenon
  <1>9. Cardinality(Places(s, x) \cup R)
          = Cardinality(Places(s, x)) + Cardinality(R) - Cardinality(Places(s, x) \cap R)
    BY <1>4, FS_Union, Zenon
  <1>10. Cardinality(Places(s, x)) \in Nat /\ Cardinality(Places(r, x)) \in Nat
    BY <1>4, FS_CardinalityType, Zenon
  <1> QED  BY <1>2, <1>7, <1>8, <1>9, <1>10, SMT DEF PlacesAdd

(* Short sequences, and the rest of one.                                   *)
LEMMA PlacesShort ==
    ASSUME NEW x
    PROVE  /\ Cardinality(Places(<<>>, x)) = 0
           /\ \A g : Cardinality(Places(<<g>>, x)) = Same(g, x)
           /\ \A g, h : Cardinality(Places(<<g, h>>, x)) = Same(g, x) + Same(h, x)
  <1>1. Cardinality(Places(<<>>, x)) = 0
    <2>1. Places(<<>>, x) = {}  BY DEF Places
    <2> QED  BY <2>1, FS_EmptySet, Zenon
  <1>2. ASSUME NEW g PROVE Cardinality(Places(<<g>>, x)) = Same(g, x)
    <2>1. g = x => Places(<<g>>, x) = {1}  BY DEF Places
    <2>2. g # x => Places(<<g>>, x) = {}  BY DEF Places
    <2>3. Cardinality({1}) = 1 /\ Cardinality({}) = 0  BY FS_Singleton, FS_EmptySet, Zenon
    <2> QED  BY <2>1, <2>2, <2>3, Zenon DEF Same
  <1>3. 1 # 2 /\ Cardinality({1}) = 1 /\ Cardinality({2}) = 1 /\ Cardinality({}) = 0
    <2>1. Cardinality({1}) = 1 /\ Cardinality({2}) = 1 /\ Cardinality({}) = 0
      BY FS_Singleton, FS_EmptySet, Zenon
    <2> QED  BY <2>1
  <1>4. ASSUME NEW g, NEW h PROVE Cardinality(Places(<<g, h>>, x)) = Same(g, x) + Same(h, x)
    <2>0. \A k : k \in Places(<<g, h>>, x) <=> k \in {1, 2} /\ (k = 1 => g = x) /\ (k = 2 => h = x)
      BY DEF Places
    <2>1. CASE g = x /\ h = x
      <3>1. Places(<<g, h>>, x) = {1} \cup {2}  BY <2>0, <2>1, Zenon
      <3>2. Cardinality({1} \cup {2}) = 2  BY <1>3, FS_AddElement, FS_Singleton
      <3> QED  BY <2>1, <3>1, <3>2 DEF Same
    <2>2. CASE g = x /\ h # x
      <3>1. Places(<<g, h>>, x) = {1}  BY <1>3, <2>0, <2>2, Zenon
      <3> QED  BY <1>3, <2>2, <3>1 DEF Same
    <2>3. CASE g # x /\ h = x
      <3>1. Places(<<g, h>>, x) = {2}  BY <1>3, <2>0, <2>3, Zenon
      <3> QED  BY <1>3, <2>3, <3>1 DEF Same
    <2>4. CASE g # x /\ h # x
      <3>1. Places(<<g, h>>, x) = {}  BY <2>0, <2>4, Zenon
      <3> QED  BY <1>3, <2>4, <3>1 DEF Same
    <2> QED  BY <2>1, <2>2, <2>3, <2>4, Zenon
  <1> QED  BY <1>1, <1>2, <1>4, Zenon

LEMMA PlacesTail ==
    ASSUME NEW S, NEW s \in Seq(S), s # <<>>, NEW x
    PROVE  Cardinality(Places(Tail(s), x)) = Cardinality(Places(s, x)) - Same(Head(s), x)
  <1> DEFINE h == <<Head(s)>>
             r == Tail(s)
  <1>1. h \in Seq(S) /\ r \in Seq(S) /\ h \o r = s  OBVIOUS
  <1>2. Cardinality(Places(h, x)) = Same(Head(s), x)  BY PlacesShort, Zenon
  <1> HIDE DEF h, r
  <1>3. PlacesAdd(h, r, x)  BY <1>1, PlacesConcat, Zenon
  <1>4. Cardinality(Places(r, x)) = Cardinality(Places(s, x)) - Same(Head(s), x)
    BY <1>1, <1>2, <1>3, SMT DEF Same, PlacesAdd
  <1> QED  BY <1>4, Zenon DEF r

LEMMA PlacesAppend ==
    ASSUME NEW S, NEW s \in Seq(S), NEW g \in S, NEW x
    PROVE  Cardinality(Places(Append(s, g), x)) = Cardinality(Places(s, x)) + Same(g, x)
  <1> DEFINE r == <<g>>
  <1>1. r \in Seq(S) /\ s \o r = Append(s, g)  OBVIOUS
  <1>2. Cardinality(Places(r, x)) = Same(g, x)  BY PlacesShort, Zenon
  <1> HIDE DEF r
  <1>3. PlacesAdd(s, r, x)  BY <1>1, PlacesConcat, Zenon
  <1> QED  BY <1>1, <1>2, <1>3, Zenon DEF PlacesAdd
=============================================================================

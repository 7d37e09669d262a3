--------------------------- MODULE ApiStats_proofs ---------------------------
(* Proofs about ApiStats: the books balance whatever fails and whenever the process dies, *)
(* and the numbers of a report agree with each other.  The first half is about sums: what  *)
(* Total and SumOver count is followed from set to set by bijections.                          *)
EXTENDS ApiStats, FiniteSetTheorems, FunctionTheorems, NaturalsInduction, WellFoundedInduction, TLAPS

--------------------------------------------------------------------------------
(* Sums.                                                                           *)

LEMMA FamilyFinite ==
    ASSUME NEW K, IsFiniteSet(K), NEW F, F = [x \in K |-> F[x]],
           \A k \in K : IsFiniteSet(F[k])
    PROVE  IsFiniteSet(UNION {F[k] : k \in K})
<1> DEFINE R == {F[k] : k \in K}
<1>1. F \in Surjection(K, R)
  <2>1. F \in [K -> R]
    OBVIOUS
  <2>2. \A r \in R : \E k \in K : F[k] = r
    OBVIOUS
  <2> QED
    BY <2>1, <2>2 DEF Surjection
<1>2. IsFiniteSet(R)
  BY <1>1, FS_Surjection
<1>3. \A r \in R : IsFiniteSet(r)
  OBVIOUS
<1> HIDE DEF R
<1>4. IsFiniteSet(UNION R)
  BY <1>2, <1>3, FS_UNION
<1> QED
  BY <1>4 DEF R

LEMMA SameSize ==
    ASSUME NEW S, NEW T, IsFiniteSet(S), NEW b \in [S -> T],
           \A x, y \in S : b[x] = b[y] => x = y,
           \A z \in T : \E x \in S : b[x] = z
    PROVE  IsFiniteSet(T) /\ Cardinality(T) = Cardinality(S)
<1>1. b \in Bijection(S, T)
  BY DEF Bijection, Injection, Surjection, IsInjective
<1>2. ExistsBijection(S, T)
  BY <1>1 DEF ExistsBijection
<1> QED
  BY <1>2, FS_Bijection

LEMMA DisjointSize ==
    ASSUME NEW S, NEW T, IsFiniteSet(S), IsFiniteSet(T), S \cap T = {}
    PROVE  IsFiniteSet(S \cup T) /\ Cardinality(S \cup T) = Cardinality(S) + Cardinality(T)
<1>1. Cardinality(S) \in Nat /\ Cardinality(T) \in Nat
  BY FS_CardinalityType
<1> QED
  BY <1>1, FS_Union, FS_EmptySet

LEMMA UpToFinite ==
    ASSUME NEW n \in Nat
    PROVE  IsFiniteSet(1..n) /\ Cardinality(1..n) = n
<1>1. 1 \in Int /\ n \in Int
  OBVIOUS
<1>2. IsFiniteSet(1..n) /\ Cardinality(1..n) = IF 1 > n THEN 0 ELSE n - 1 + 1
  BY <1>1, FS_Interval
<1> QED
  BY <1>2

\* The units that SumOver and Total count.
Units(K, n) == UNION {{k} \X (1..n[k]) : k \in K}
Cells(f, w) == UNION {{k} \X ((1..f[k]) \X (1..w[k[2]])) : k \in DOMAIN f}

LEMMA UnitsMembers ==
    ASSUME NEW K, NEW n
    PROVE  /\ \A k \in K : \A i \in 1..n[k] : <<k, i>> \in Units(K, n)
           /\ \A x \in Units(K, n) : x[1] \in K /\ x[2] \in 1..n[x[1]] /\ x = <<x[1], x[2]>>
  BY DEF Units

LEMMA CellsMembers ==
    ASSUME NEW f, NEW w
    PROVE  /\ \A k \in DOMAIN f : \A i \in 1..f[k], j \in 1..w[k[2]] : <<k, <<i, j>>>> \in Cells(f, w)
           /\ \A x \in Cells(f, w) : /\ x[1] \in DOMAIN f
                                     /\ x[2][1] \in 1..f[x[1]] /\ x[2][2] \in 1..w[x[1][2]]
                                     /\ x = <<x[1], <<x[2][1], x[2][2]>>>>
  BY DEF Cells

LEMMA UnitsFinite ==
    ASSUME NEW K, IsFiniteSet(K), NEW n, \A k \in K : n[k] \in Nat
    PROVE  /\ IsFiniteSet(Units(K, n))
           /\ SumOver(K, n) = Cardinality(Units(K, n)) /\ SumOver(K, n) \in Nat
<1> DEFINE F == [k \in K |-> {k} \X (1..n[k])]
<1>1. ASSUME NEW k \in K PROVE IsFiniteSet(F[k])
  <2>1. IsFiniteSet({k}) /\ IsFiniteSet(1..n[k])
    BY FS_Singleton, UpToFinite
  <2> QED
    BY <2>1, FS_Product
<1>2. Units(K, n) = UNION {F[k] : k \in K}
  BY DEF Units
<1>3. F = [k \in K |-> F[k]]
  OBVIOUS
<1> HIDE DEF F
<1>4. IsFiniteSet(Units(K, n))
  BY <1>1, <1>2, <1>3, FamilyFinite
<1> QED
  BY <1>4, FS_CardinalityType DEF SumOver, Units

Rows(K) == [K -> Nat]
Weights == [Metrics -> Nat]

LEMMA CellsFinite ==
    ASSUME NEW K \in SUBSET Keys, IsFiniteSet(K), NEW f \in Rows(K), NEW w \in Weights
    PROVE  /\ IsFiniteSet(Cells(f, w))
           /\ Total(f, w) = Cardinality(Cells(f, w)) /\ Total(f, w) \in Nat
<1> DEFINE F == [k \in K |-> {k} \X ((1..f[k]) \X (1..w[k[2]]))]
<1>1. ASSUME NEW k \in K PROVE IsFiniteSet(F[k])
  <2>0. f[k] \in Nat /\ w[k[2]] \in Nat
    BY DEF Keys, Rows, Weights
  <2>1. IsFiniteSet({k}) /\ IsFiniteSet(1..f[k]) /\ IsFiniteSet(1..w[k[2]])
    BY <2>0, FS_Singleton, UpToFinite
  <2>2. IsFiniteSet((1..f[k]) \X (1..w[k[2]]))
    BY <2>1, FS_Product
  <2> QED
    BY <2>1, <2>2, FS_Product
<1>2. Cells(f, w) = UNION {F[k] : k \in K}
  BY DEF Cells, Rows
<1>3. F = [k \in K |-> F[k]]
  OBVIOUS
<1> HIDE DEF F
<1>4. IsFiniteSet(Cells(f, w))
  BY <1>1, <1>2, <1>3, FamilyFinite
<1> QED
  BY <1>4, FS_CardinalityType DEF Total, Cells

\* Adding up commutes with adding: the cells of g are moved behind those of f.
LEMMA TotalPlus ==
    ASSUME NEW K \in SUBSET Keys, IsFiniteSet(K), NEW w \in Weights,
           NEW f \in Rows(K), NEW g \in Rows(K), NEW h \in Rows(K),
           \A k \in K : h[k] = f[k] + g[k]
    PROVE  Total(h, w) = Total(f, w) + Total(g, w)
<1>0. \A k \in K : f[k] \in Nat /\ g[k] \in Nat /\ h[k] \in Nat /\ w[k[2]] \in Nat
  BY DEF Keys, Rows, Weights
<1>d. DOMAIN f = K /\ DOMAIN g = K /\ DOMAIN h = K
  BY DEF Rows
<1> DEFINE b == [x \in Cells(g, w) |-> <<x[1], <<f[x[1]] + x[2][1], x[2][2]>>>>]
           T == {b[x] : x \in Cells(g, w)}
<1>1. IsFiniteSet(T) /\ Cardinality(T) = Cardinality(Cells(g, w))
  <2>1. b \in [Cells(g, w) -> T] /\ \A z \in T : \E x \in Cells(g, w) : b[x] = z
    OBVIOUS
  <2>2. ASSUME NEW x \in Cells(g, w), NEW y \in Cells(g, w), b[x] = b[y]
        PROVE  x = y
    <3>1. /\ x[1] = y[1] /\ f[x[1]] + x[2][1] = f[x[1]] + y[2][1] /\ x[2][2] = y[2][2]
      BY <2>2
    <3>2. f[x[1]] \in Nat /\ x[2][1] \in Int /\ y[2][1] \in Int
      BY <1>0, <1>d, CellsMembers
    <3>3. x[2][1] = y[2][1]
      BY <3>1, <3>2
    <3> QED
      BY <3>1, <3>3, CellsMembers
  <2>3. IsFiniteSet(Cells(g, w))
    BY CellsFinite
  <2> HIDE DEF b, T
  <2> QED
    BY <2>1, <2>2, <2>3, SameSize
<1>2. Cells(h, w) = Cells(f, w) \cup T
  <2>1. ASSUME NEW x \in Cells(h, w), x \notin Cells(f, w) PROVE x \in T
    <3> DEFINE y == <<x[1], <<x[2][1] - f[x[1]], x[2][2]>>>>
    <3>1. /\ x[1] \in K /\ x[2][1] \in 1..h[x[1]] /\ x[2][2] \in 1..w[x[1][2]]
          /\ x = <<x[1], <<x[2][1], x[2][2]>>>>
      BY <1>d, CellsMembers
    <3>2. ~(x[2][1] \in 1..f[x[1]])
      BY <2>1, <3>1, <1>d, CellsMembers
    <3>3. x[2][1] - f[x[1]] \in 1..g[x[1]]
      BY <1>0, <3>1, <3>2
    <3>4. y \in Cells(g, w)
      BY <1>d, <3>1, <3>3, CellsMembers
    <3>5. f[x[1]] + (x[2][1] - f[x[1]]) = x[2][1]
      BY <1>0, <3>1
    <3>6. b[y] = x
      BY <3>1, <3>4, <3>5
    <3> QED
      BY <3>4, <3>6
  <2>2. ASSUME NEW x \in Cells(f, w) PROVE x \in Cells(h, w)
    <3>1. /\ x[1] \in K /\ x[2][1] \in 1..f[x[1]] /\ x[2][2] \in 1..w[x[1][2]]
          /\ x = <<x[1], <<x[2][1], x[2][2]>>>>
      BY <1>d, CellsMembers
    <3>2. x[2][1] \in 1..h[x[1]]
      BY <1>0, <3>1
    <3> QED
      BY <1>d, <3>1, <3>2, CellsMembers
  <2>3. ASSUME NEW y \in Cells(g, w) PROVE b[y] \in Cells(h, w)
    <3>1. /\ y[1] \in K /\ y[2][1] \in 1..g[y[1]] /\ y[2][2] \in 1..w[y[1][2]]
      BY <1>d, CellsMembers
    <3>2. f[y[1]] + y[2][1] \in 1..h[y[1]]
      BY <1>0, <3>1
    <3> QED
      BY <1>d, <3>1, <3>2, CellsMembers
  <2> QED
    BY <2>1, <2>2, <2>3
<1>3. Cells(f, w) \cap T = {}
  <2>1. SUFFICES ASSUME NEW y \in Cells(g, w), b[y] \in Cells(f, w) PROVE FALSE
    OBVIOUS
  <2>2. f[y[1]] + y[2][1] \in 1..f[y[1]]
    BY <2>1, CellsMembers
  <2>3. y[1] \in K /\ y[2][1] \in 1..g[y[1]]
    BY <1>d, CellsMembers
  <2> QED
    BY <1>0, <2>2, <2>3
<1>4. /\ IsFiniteSet(Cells(f, w)) /\ IsFiniteSet(Cells(g, w))
      /\ Total(f, w) = Cardinality(Cells(f, w)) /\ Total(g, w) = Cardinality(Cells(g, w))
      /\ Total(h, w) = Cardinality(Cells(h, w))
  BY CellsFinite
<1> HIDE DEF T, b
<1> QED
  BY <1>1, <1>2, <1>3, <1>4, DisjointSize

\* What weighs more adds up to more, as far as it occurs.
LEMMA TotalMonotonic ==
    ASSUME NEW K \in SUBSET Keys, IsFiniteSet(K), NEW f \in Rows(K),
           NEW v \in Weights, NEW w \in Weights,
           \A k \in K : f[k] > 0 => v[k[2]] <= w[k[2]]
    PROVE  Total(f, v) <= Total(f, w)
<1>0. \A k \in K : f[k] \in Nat /\ v[k[2]] \in Nat /\ w[k[2]] \in Nat
  BY DEF Keys, Rows, Weights
<1>1. ASSUME NEW x \in Cells(f, v) PROVE x \in Cells(f, w)
  <2>1. /\ x[1] \in K /\ x[2][1] \in 1..f[x[1]] /\ x[2][2] \in 1..v[x[1][2]]
        /\ x = <<x[1], <<x[2][1], x[2][2]>>>>
    BY CellsMembers DEF Rows
  <2>2. f[x[1]] > 0
    BY <1>0, <2>1
  <2>3. v[x[1][2]] <= w[x[1][2]]
    BY <2>1, <2>2
  <2>4. x[2][2] \in 1..w[x[1][2]]
    BY <1>0, <2>1, <2>3
  <2> QED
    BY <2>1, <2>4, CellsMembers DEF Rows
<1>2. Cells(f, v) \in SUBSET Cells(f, w)
  BY <1>1
<1> QED
  BY <1>2, CellsFinite, FS_Subset

\* A weight all metrics have is a factor.
LEMMA TotalConstant ==
    ASSUME NEW K \in SUBSET Keys, IsFiniteSet(K), NEW f \in Rows(K), NEW c \in Nat
    PROVE  Total(f, [m \in Metrics |-> c]) = Total(f, Weight("calls")) * c
<1> DEFINE v == [m \in Metrics |-> c]
           one == Weight("calls")
           b == [x \in Cells(f, one) \X (1..c) |-> <<x[1][1], <<x[1][2][1], x[2]>>>>]
<1>o. one = [m \in Metrics |-> 1]
  BY DEF Weight
<1>0. v \in Weights /\ one \in Weights /\ DOMAIN f = K
  BY <1>o DEF Weights, Rows
<1>w. \A k \in K : v[k[2]] = c /\ one[k[2]] = 1
  BY <1>o DEF Keys
<1>1. IsFiniteSet(Cells(f, one)) /\ Total(f, one) = Cardinality(Cells(f, one)) /\ Total(f, one) \in Nat
  BY <1>0, CellsFinite
<1> HIDE DEF v, one
<1> DEFINE U == 1..c
           P == Cells(f, one) \X U
<1>2. IsFiniteSet(U) /\ Cardinality(U) = c
  BY UpToFinite
<1> HIDE DEF U
<1>3. IsFiniteSet(P) /\ Cardinality(P) = Total(f, one) * c
  BY <1>1, <1>2, FS_Product
<1> USE DEF U
<1>4. b \in [Cells(f, one) \X (1..c) -> Cells(f, v)]
  <2>1. ASSUME NEW x \in Cells(f, one), NEW j \in 1..c PROVE <<x[1], <<x[2][1], j>>>> \in Cells(f, v)
    BY <1>0, <1>w, CellsMembers
  <2> QED
    BY <2>1
<1>5. ASSUME NEW x \in Cells(f, one) \X (1..c), NEW y \in Cells(f, one) \X (1..c), b[x] = b[y]
      PROVE  x = y
  <2>1. x[1][1] = y[1][1] /\ x[1][2][1] = y[1][2][1] /\ x[2] = y[2]
    BY <1>5
  <2>2. x[1] \in Cells(f, one) /\ y[1] \in Cells(f, one) /\ x = <<x[1], x[2]>> /\ y = <<y[1], y[2]>>
    OBVIOUS
  <2>3. /\ x[1] = <<x[1][1], <<x[1][2][1], x[1][2][2]>>>> /\ y[1] = <<y[1][1], <<y[1][2][1], y[1][2][2]>>>>
        /\ x[1][2][2] \in 1..1 /\ y[1][2][2] \in 1..1
    BY <1>0, <1>w, <2>2, CellsMembers
  <2>4. x[1][2][2] = y[1][2][2]
    BY <2>3
  <2> QED
    BY <2>1, <2>2, <2>3, <2>4
<1>6. ASSUME NEW z \in Cells(f, v) PROVE \E x \in Cells(f, one) \X (1..c) : b[x] = z
  <2>1. /\ z[1] \in K /\ z[2][1] \in 1..f[z[1]] /\ z[2][2] \in 1..c
        /\ z = <<z[1], <<z[2][1], z[2][2]>>>>
    BY <1>0, <1>w, CellsMembers
  <2> DEFINE y == <<z[1], <<z[2][1], 1>>>>
  <2>2. y \in Cells(f, one)
    BY <1>0, <1>w, <2>1, CellsMembers
  <2>3. <<y, z[2][2]>> \in Cells(f, one) \X (1..c) /\ b[<<y, z[2][2]>>] = z
    BY <2>1, <2>2
  <2> QED
    BY <2>3
<1>p. b \in [P -> Cells(f, v)] /\ \A z \in Cells(f, v) : \E x \in P : b[x] = z
  BY <1>4, <1>6
<1>q. \A x, y \in P : b[x] = b[y] => x = y
  BY <1>5
<1> HIDE DEF b, P
<1>7. Cardinality(Cells(f, v)) = Cardinality(P)
  BY <1>3, <1>p, <1>q, SameSize
<1>8. Total(f, v) = Cardinality(Cells(f, v))
  BY <1>0, CellsFinite
<1> QED
  BY <1>3, <1>7, <1>8 DEF v, one

\* Every metric has one error code: the totals of the codes add up to the count.
LEMMA TotalByErrCode ==
    ASSUME NEW K \in SUBSET Keys, IsFiniteSet(K), NEW f \in Rows(K),
           NEW n, n = [e \in ErrCodes |-> Total(f, WeightOfError(e))], IsFiniteSet(ErrCodes)
    PROVE  SumOver(ErrCodes, n) = Total(f, Weight("calls"))
<1> DEFINE W(e) == WeightOfError(e)
           one == Weight("calls")
<1>o. one = [m \in Metrics |-> 1]
  BY DEF Weight
<1>0. /\ \A e \in ErrCodes : W(e) \in Weights
      /\ one \in Weights /\ DOMAIN f = K
      /\ \A k \in K : one[k[2]] = 1
      /\ \A k \in K, e \in ErrCodes : W(e)[k[2]] = IF k[2].errCode = e THEN 1 ELSE 0
  BY <1>o DEF Weights, Rows, Keys, WeightOfError
<1>1. \A k \in K : k[2].errCode \in ErrCodes
  BY DEF Keys, Metrics, Metric, ErrCodes
<1>2. \A e \in ErrCodes : n[e] = Total(f, W(e))
  OBVIOUS
<1> HIDE DEF W, one
<1>3. \A e \in ErrCodes : /\ n[e] = Cardinality(Cells(f, W(e))) /\ n[e] \in Nat
                         /\ IsFiniteSet(Cells(f, W(e)))
  BY <1>0, <1>2, CellsFinite
<1> DEFINE B == [e \in ErrCodes |-> CHOOSE g \in Bijection(1..n[e], Cells(f, W(e))) : TRUE]
<1>4. ASSUME NEW e \in ErrCodes PROVE B[e] \in Bijection(1..n[e], Cells(f, W(e)))
  <2>1. ExistsBijection(1..n[e], Cells(f, W(e)))
    BY <1>3, FS_CardinalityType
  <2> QED
    BY <2>1 DEF ExistsBijection
<1> HIDE DEF B
<1>5. ASSUME NEW e \in ErrCodes
      PROVE  /\ \A i \in 1..n[e] : B[e][i] \in Cells(f, W(e))
             /\ \A i, j \in 1..n[e] : B[e][i] = B[e][j] => i = j
             /\ \A z \in Cells(f, W(e)) : \E i \in 1..n[e] : B[e][i] = z
  <2> DEFINE g == B[e]
             S == 1..n[e]
             T == Cells(f, W(e))
  <2>1. g \in Bijection(S, T)
    BY <1>4
  <2> HIDE DEF g, S, T
  <2>2. /\ \A i \in S : g[i] \in T
        /\ \A i, j \in S : g[i] = g[j] => i = j
        /\ \A z \in T : \E i \in S : g[i] = z
    BY <2>1 DEF Bijection, Injection, Surjection, IsInjective
  <2> QED
    BY <2>2 DEF g, S, T
<1>6. ASSUME NEW e \in ErrCodes, NEW z
      PROVE  z \in Cells(f, W(e)) <=> z \in Cells(f, one) /\ z[1][2].errCode = e
  <2>1. CASE z \in Cells(f, W(e))
    <3>1. /\ z[1] \in K /\ z[2][1] \in 1..f[z[1]] /\ z[2][2] \in 1..W(e)[z[1][2]]
          /\ z = <<z[1], <<z[2][1], z[2][2]>>>>
      BY <1>0, <2>1, CellsMembers
    <3>2. W(e)[z[1][2]] = 1 /\ z[1][2].errCode = e
      BY <1>0, <3>1
    <3> QED
      BY <1>0, <2>1, <3>1, <3>2, CellsMembers
  <2>2. CASE z \in Cells(f, one) /\ z[1][2].errCode = e
    <3>1. /\ z[1] \in K /\ z[2][1] \in 1..f[z[1]] /\ z[2][2] \in 1..1
          /\ z = <<z[1], <<z[2][1], z[2][2]>>>>
      BY <1>0, <2>2, CellsMembers
    <3>2. W(e)[z[1][2]] = 1
      BY <1>0, <2>2, <3>1
    <3> QED
      BY <1>0, <3>1, <3>2, CellsMembers
  <2> QED
    BY <2>1, <2>2
<1> DEFINE b == [x \in Units(ErrCodes, n) |-> B[x[1]][x[2]]]
<1>7. b \in [Units(ErrCodes, n) -> Cells(f, one)]
  BY <1>5, <1>6, UnitsMembers
<1>8. ASSUME NEW x \in Units(ErrCodes, n), NEW y \in Units(ErrCodes, n), b[x] = b[y]
      PROVE  x = y
  <2>1. /\ x[1] \in ErrCodes /\ x[2] \in 1..n[x[1]] /\ x = <<x[1], x[2]>>
        /\ y[1] \in ErrCodes /\ y[2] \in 1..n[y[1]] /\ y = <<y[1], y[2]>>
    BY UnitsMembers
  <2>2. B[x[1]][x[2]] = B[y[1]][y[2]]
    BY <1>8
  <2>3. B[x[1]][x[2]] \in Cells(f, W(x[1])) /\ B[y[1]][y[2]] \in Cells(f, W(y[1]))
    BY <1>5, <2>1
  <2>4. x[1] = y[1]
    BY <1>6, <2>1, <2>2, <2>3
  <2>5. x[2] = y[2]
    BY <1>5, <2>1, <2>2, <2>4
  <2> QED
    BY <2>1, <2>4, <2>5
<1>9. ASSUME NEW z \in Cells(f, one) PROVE \E x \in Units(ErrCodes, n) : b[x] = z
  <2>1. z[1] \in K
    BY <1>0, CellsMembers
  <2>2. PICK e \in ErrCodes : e = z[1][2].errCode
    BY <1>1, <2>1
  <2>3. z \in Cells(f, W(e))
    BY <1>6, <2>2
  <2>4. PICK i \in 1..n[e] : B[e][i] = z
    BY <1>5, <2>3
  <2>5. <<e, i>> \in Units(ErrCodes, n)
    BY UnitsMembers
  <2> QED
    BY <2>4, <2>5
<1> HIDE DEF b
<1>10. Cardinality(Units(ErrCodes, n)) = Cardinality(Cells(f, one))
  <2>1. IsFiniteSet(Units(ErrCodes, n))
    BY <1>3, UnitsFinite
  <2> QED
    BY <1>7, <1>8, <1>9, <2>1, SameSize
<1>11. SumOver(ErrCodes, n) = Cardinality(Units(ErrCodes, n))
  BY <1>3, UnitsFinite
<1>12. Total(f, one) = Cardinality(Cells(f, one))
  BY <1>0, CellsFinite
<1> QED
  BY <1>10, <1>11, <1>12 DEF one

\* Sums over two sets that have nothing in common.
LEMMA SumUnion ==
    ASSUME NEW J, NEW K, IsFiniteSet(J), IsFiniteSet(K), J \cap K = {},
           NEW n, \A k \in J \cup K : n[k] \in Nat
    PROVE  SumOver(J \cup K, n) = SumOver(J, n) + SumOver(K, n)
<1>1. /\ IsFiniteSet(Units(J, n)) /\ SumOver(J, n) = Cardinality(Units(J, n))
      /\ IsFiniteSet(Units(K, n)) /\ SumOver(K, n) = Cardinality(Units(K, n))
  BY UnitsFinite
<1>2. Units(J \cup K, n) = Units(J, n) \cup Units(K, n)
  BY DEF Units
<1>3. Units(J, n) \cap Units(K, n) = {}
  BY UnitsMembers
<1>4. SumOver(J \cup K, n) = Cardinality(Units(J \cup K, n))
  BY DEF SumOver, Units
<1>5. Cardinality(Units(J, n) \cup Units(K, n))
        = Cardinality(Units(J, n)) + Cardinality(Units(K, n))
  BY <1>1, <1>3, DisjointSize
<1> QED
  BY <1>1, <1>2, <1>4, <1>5

\* The names of what is added up do not matter.
LEMMA SumRenamed ==
    ASSUME NEW J, NEW K, IsFiniteSet(J), NEW b \in Bijection(J, K),
           NEW n, NEW m, \A k \in J : n[k] \in Nat /\ m[b[k]] = n[k]
    PROVE  SumOver(K, m) = SumOver(J, n)
<1>0. /\ b \in [J -> K] /\ \A x, y \in J : b[x] = b[y] => x = y
      /\ \A z \in K : \E x \in J : b[x] = z
  BY DEF Bijection, Injection, Surjection, IsInjective
<1> DEFINE c == [x \in Units(J, n) |-> <<b[x[1]], x[2]>>]
<1>1. c \in [Units(J, n) -> Units(K, m)]
  BY <1>0, UnitsMembers
<1>2. ASSUME NEW x \in Units(J, n), NEW y \in Units(J, n), c[x] = c[y] PROVE x = y
  <2>1. /\ x[1] \in J /\ x = <<x[1], x[2]>> /\ y[1] \in J /\ y = <<y[1], y[2]>>
    BY UnitsMembers
  <2>2. b[x[1]] = b[y[1]] /\ x[2] = y[2]
    BY <1>2
  <2> QED
    BY <1>0, <2>1, <2>2
<1>3. ASSUME NEW z \in Units(K, m) PROVE \E x \in Units(J, n) : c[x] = z
  <2>1. z[1] \in K /\ z[2] \in 1..m[z[1]] /\ z = <<z[1], z[2]>>
    BY UnitsMembers
  <2>2. PICK k \in J : b[k] = z[1]
    BY <1>0, <2>1
  <2>3. <<k, z[2]>> \in Units(J, n)
    BY <2>1, <2>2, UnitsMembers
  <2> QED
    BY <2>1, <2>2, <2>3
<1> HIDE DEF c
<1>4. IsFiniteSet(Units(J, n)) /\ SumOver(J, n) = Cardinality(Units(J, n))
  BY UnitsFinite
<1>5. Cardinality(Units(K, m)) = Cardinality(Units(J, n))
  BY <1>1, <1>2, <1>3, <1>4, SameSize
<1> QED
  BY <1>4, <1>5 DEF SumOver, Units

\* Where all is zero but for one, that one is the sum.
LEMMA SumOfOne ==
    ASSUME NEW K, NEW n, NEW a \in K, n[a] \in Nat, \A k \in K \ {a} : n[k] = 0
    PROVE  SumOver(K, n) = n[a]
<1> DEFINE b == [i \in 1..n[a] |-> <<a, i>>]
<1>1. b \in [1..n[a] -> Units(K, n)]
  BY UnitsMembers
<1>2. \A x, y \in 1..n[a] : b[x] = b[y] => x = y
  OBVIOUS
<1>3. ASSUME NEW z \in Units(K, n) PROVE \E x \in 1..n[a] : b[x] = z
  <2>1. z[1] \in K /\ z[2] \in 1..n[z[1]] /\ z = <<z[1], z[2]>>
    BY UnitsMembers
  <2>2. z[1] = a
    BY <2>1
  <2> QED
    BY <2>1, <2>2
<1> HIDE DEF b
<1>4. IsFiniteSet(1..n[a]) /\ Cardinality(1..n[a]) = n[a]
  BY UpToFinite
<1>5. Cardinality(Units(K, n)) = Cardinality(1..n[a])
  BY <1>1, <1>2, <1>3, <1>4, SameSize
<1> QED
  BY <1>4, <1>5 DEF SumOver, Units

LEMMA SumOfNone ==
    ASSUME NEW K, NEW n, \A k \in K : n[k] = 0
    PROVE  SumOver(K, n) = 0
<1>1. Units(K, n) = {}
  BY UnitsMembers
<1> QED
  BY <1>1, FS_EmptySet DEF SumOver, Units

--------------------------------------------------------------------------------
(* What the model adds up.                                                         *)

LEMMA ImageFinite ==
    ASSUME NEW K, IsFiniteSet(K), NEW F, F = [x \in K |-> F[x]]
    PROVE  IsFiniteSet({F[x] : x \in K})
<1> DEFINE R == {F[x] : x \in K}
<1>1. F \in [K -> R] /\ \A r \in R : \E k \in K : F[k] = r
  OBVIOUS
<1>2. F \in Surjection(K, R)
  BY <1>1 DEF Surjection
<1> QED
  BY <1>2, FS_Surjection

LEMMA Constants ==
    /\ IsFiniteSet(Keys) /\ IsFiniteSet(ErrCodes) /\ IsFiniteSet(Apis)
    /\ \A m \in Metrics : m.successful \in BOOLEAN /\ m.duration \in Nat /\ m.errCode \in ErrCodes
    /\ \A kind \in Kinds : Weight(kind) \in Weights
    /\ \A e \in ErrCodes : WeightOfError(e) \in Weights
    /\ Keys = Apis \X Metrics
<1>1. IsFiniteSet(ErrCodes)
  <2> DEFINE F == [o \in Outcomes |-> o[2]]
  <2>1. ErrCodes = {F[o] : o \in Outcomes} /\ F = [o \in Outcomes |-> F[o]]
    BY DEF ErrCodes
  <2> HIDE DEF F
  <2> QED
    BY <2>1, ImageFinite, ApiStatsAssumption
<1> DEFINE D == {Narrow(c) : c \in Costs} \cap Nat
<1>2. IsFiniteSet(D)
  <2> DEFINE F == [c \in Costs |-> Narrow(c)]
             R == {F[c] : c \in Costs}
  <2>1. D = R \cap Nat /\ F = [c \in Costs |-> F[c]]
    OBVIOUS
  <2> HIDE DEF F, D
  <2>2. IsFiniteSet(R)
    BY <2>1, ImageFinite, ApiStatsAssumption
  <2> HIDE DEF R
  <2> QED
    BY <2>1, <2>2, FS_Intersection
<1>3. IsFiniteSet(Metrics)
  <2> DEFINE F == [x \in Outcomes \X D |-> Metric(x[1], x[2])]
             P == Outcomes \X D
  <2>0. \A o \in Outcomes, d \in D : <<o, d>> \in P /\ F[<<o, d>>] = Metric(o, d)
    OBVIOUS
  <2>4. \A x \in P : x[1] \in Outcomes /\ x[2] \in D /\ F[x] = Metric(x[1], x[2])
    OBVIOUS
  <2>5. Metrics = {Metric(o, d) : o \in Outcomes, d \in D}
    BY DEF Metrics
  <2>6. F = [x \in P |-> F[x]]
    OBVIOUS
  <2> HIDE DEF F, P, D
  <2>7. ASSUME NEW m \in Metrics PROVE m \in {F[x] : x \in P}
    <3>1. PICK o \in Outcomes, d \in D : m = Metric(o, d)
      BY <2>5
    <3> QED
      BY <2>0, <3>1
  <2>8. ASSUME NEW x \in P PROVE F[x] \in Metrics
    <3>1. PICK o \in Outcomes, d \in D : F[x] = Metric(o, d)
      BY <2>4
    <3> QED
      BY <2>5, <3>1
  <2>1. Metrics = {F[x] : x \in P}
    BY <2>7, <2>8
  <2>2. IsFiniteSet(P)
    BY <1>2, FS_Product, ApiStatsAssumption DEF P
  <2> QED
    BY <2>1, <2>2, <2>6, ImageFinite
<1>4. IsFiniteSet(Keys)
  BY <1>3, FS_Product, ApiStatsAssumption DEF Keys
<1>5. \A m \in Metrics : m.successful \in BOOLEAN /\ m.duration \in Nat /\ m.errCode \in ErrCodes
  BY ApiStatsAssumption DEF Metrics, Metric, ErrCodes
<1>6. ASSUME NEW kind \in Kinds PROVE Weight(kind) \in Weights
  <2>1. CASE kind = "calls"
    BY <1>5, <2>1 DEF Weight, Weights
  <2>2. CASE kind = "successes"
    BY <1>5, <2>2 DEF Weight, Weights
  <2>3. CASE kind = "time"
    BY <1>5, <2>3 DEF Weight, Weights
  <2> QED
    BY <2>1, <2>2, <2>3 DEF Kinds
<1>7. \A e \in ErrCodes : WeightOfError(e) \in Weights
  BY DEF WeightOfError, Weights
<1> QED
  BY <1>1, <1>4, <1>5, <1>6, <1>7, ApiStatsAssumption DEF Keys

KeysOf(api) == {k \in Keys : k[1] = api}

LEMMA OfRows ==
    ASSUME NEW api, NEW f \in Rows(Keys)
    PROVE  /\ Of(api, f) \in Rows(KeysOf(api))
           /\ KeysOf(api) \in SUBSET Keys /\ IsFiniteSet(KeysOf(api))
           /\ \A k \in KeysOf(api) : Of(api, f)[k] = f[k]
<1>1. KeysOf(api) \in SUBSET Keys
  BY DEF KeysOf
<1>2. IsFiniteSet(KeysOf(api))
  BY <1>1, Constants, FS_Subset
<1>3. Of(api, f) = [k \in KeysOf(api) |-> f[k]]
  BY DEF Of, KeysOf, Rows
<1> QED
  BY <1>1, <1>2, <1>3 DEF Rows

LEMMA SumsType ==
    ASSUME NEW f \in Rows(Keys)
    PROVE  SumsOf(f) \in Sums
<1>1. ASSUME NEW x \in Apis \X Kinds PROVE Total(Of(x[1], f), Weight(x[2])) \in Nat
  <2>1. Weight(x[2]) \in Weights
    BY Constants
  <2> QED
    BY <2>1, OfRows, CellsFinite
<1> QED
  BY <1>1 DEF SumsOf, Sums

LEMMA SumsPlus ==
    ASSUME NEW f \in Rows(Keys), NEW g \in Rows(Keys), NEW h \in Rows(Keys),
           \A k \in Keys : h[k] = f[k] + g[k]
    PROVE  SumsOf(h) = AddSums(SumsOf(f), SumsOf(g))
<1>1. ASSUME NEW x \in Apis \X Kinds
      PROVE  Total(Of(x[1], h), Weight(x[2]))
               = Total(Of(x[1], f), Weight(x[2])) + Total(Of(x[1], g), Weight(x[2]))
  <2> DEFINE K == KeysOf(x[1])
  <2>1. Weight(x[2]) \in Weights
    BY Constants
  <2>2. /\ K \in SUBSET Keys /\ IsFiniteSet(K)
        /\ Of(x[1], f) \in Rows(K) /\ Of(x[1], g) \in Rows(K) /\ Of(x[1], h) \in Rows(K)
        /\ \A k \in K : Of(x[1], h)[k] = Of(x[1], f)[k] + Of(x[1], g)[k]
    BY OfRows
  <2> HIDE DEF K
  <2> QED
    BY <2>1, <2>2, TotalPlus
<1> QED
  BY <1>1 DEF SumsOf, AddSums

LEMMA SumsOfEmpty ==
    /\ Empty \in Rows(Keys)
    /\ SumsOf(Empty) = None
<1>1. Empty \in Rows(Keys) /\ \A k \in Keys : Empty[k] = Empty[k] + Empty[k]
  BY DEF Empty, Rows
<1>2. SumsOf(Empty) = AddSums(SumsOf(Empty), SumsOf(Empty)) /\ SumsOf(Empty) \in Sums
  BY <1>1, SumsPlus, SumsType
<1> DEFINE z == SumsOf(Empty)
<1> HIDE DEF z
<1>3. ASSUME NEW x \in Apis \X Kinds PROVE z[x] = 0
  <2>1. PICK n \in Nat : n = z[x]
    BY <1>2 DEF Sums, z
  <2>2. z[x] = z[x] + z[x]
    BY <1>2 DEF AddSums, z
  <2>3. n = n + n
    BY <2>1, <2>2
  <2>4. n = 0
    BY <2>3
  <2> QED
    BY <2>1, <2>4
<1>4. z = [x \in Apis \X Kinds |-> z[x]]
  BY <1>2 DEF Sums, z
<1>5. z = None
  BY <1>3, <1>4 DEF None
<1> QED
  BY <1>1, <1>5 DEF z

LEMMA ReportType ==
    ASSUME NEW r \in Reports
    PROVE  SumsOfReport(r) \in Sums
<1>1. r.callTimes \in Nat /\ r.successTimes \in Nat /\ r.totalCostTime \in Nat
  BY DEF Reports
<1>2. ASSUME NEW x \in Apis \X Kinds PROVE SumsOfReport(r)[x] \in Nat
  BY <1>1 DEF SumsOfReport, Kinds
<1> QED
  BY <1>2 DEF SumsOfReport, Sums

\* What two sequences of reports say together.
LEMMA ReportsConcat ==
    ASSUME NEW q \in Seq(Reports), NEW s \in Seq(Reports)
    PROVE  /\ SumsOfReports(q \o s) = AddSums(SumsOfReports(q), SumsOfReports(s))
           /\ SumsOfReports(q) \in Sums
<1> DEFINE A == 1..Len(q)
           B == 1..Len(s)
           C == (Len(q) + 1)..(Len(q) + Len(s))
           qs == q \o s
<1>0. /\ DOMAIN q = A /\ DOMAIN s = B /\ DOMAIN qs = A \cup C /\ A \cap C = {}
      /\ IsFiniteSet(A) /\ IsFiniteSet(B)
      /\ \A i \in A : qs[i] = q[i] /\ q[i] \in Reports
      /\ \A i \in B : Len(q) + i \in C /\ qs[Len(q) + i] = s[i] /\ s[i] \in Reports
  <2>1. Len(q) \in Nat /\ Len(s) \in Nat
    OBVIOUS
  <2> QED
    BY <2>1, UpToFinite
<1>1. ASSUME NEW x \in Apis \X Kinds
      PROVE  /\ SumsOfReports(qs)[x] = SumsOfReports(q)[x] + SumsOfReports(s)[x]
             /\ SumsOfReports(q)[x] \in Nat
  <2> DEFINE nq == [i \in DOMAIN q |-> SumsOfReport(q[i])[x]]
             ns == [i \in DOMAIN s |-> SumsOfReport(s[i])[x]]
             n == [i \in DOMAIN qs |-> SumsOfReport(qs[i])[x]]
             b == [i \in B |-> Len(q) + i]
             e == [i \in A |-> i]
  <2>1. /\ SumsOfReports(qs)[x] = SumOver(DOMAIN qs, n)
        /\ SumsOfReports(q)[x] = SumOver(DOMAIN q, nq)
        /\ SumsOfReports(s)[x] = SumOver(DOMAIN s, ns)
    BY DEF SumsOfReports
  <2>2. \A r \in Reports : SumsOfReport(r)[x] \in Nat
    BY ReportType DEF Sums
  <2>3. /\ \A i \in A : n[i] = nq[i] /\ nq[i] \in Nat
        /\ \A i \in B : n[Len(q) + i] = ns[i] /\ ns[i] \in Nat
    BY <1>0, <2>2
  <2> HIDE DEF n, nq, ns, qs
  <2>4. b \in Bijection(B, C)
    <3>1. Len(q) \in Nat /\ Len(s) \in Nat
      OBVIOUS
    <3>2. b \in [B -> C] /\ \A i, j \in B : b[i] = b[j] => i = j
      BY <3>1
    <3>3. ASSUME NEW z \in C PROVE \E i \in B : b[i] = z
      <4>1. z - Len(q) \in B /\ Len(q) + (z - Len(q)) = z
        BY <3>1
      <4> QED
        BY <4>1
    <3> HIDE DEF b, B, C
    <3> QED
      BY <3>2, <3>3 DEF Bijection, Injection, Surjection, IsInjective
  <2>5. e \in Bijection(A, A)
    BY DEF Bijection, Injection, Surjection, IsInjective
  <2>6. SumOver(C, n) = SumOver(B, ns)
    <3>1. \A i \in B : ns[i] \in Nat /\ n[b[i]] = ns[i]
      BY <2>3
    <3> HIDE DEF b, B, C
    <3> QED
      BY <1>0, <2>4, <3>1, SumRenamed
  <2>7. SumOver(A, n) = SumOver(A, nq)
    <3>1. \A i \in A : nq[i] \in Nat /\ n[e[i]] = nq[i]
      BY <2>3
    <3> HIDE DEF e, A
    <3> QED
      BY <1>0, <2>5, <3>1, SumRenamed
  <2>8. IsFiniteSet(C)
    <3> HIDE DEF b, B, C
    <3>1. ExistsBijection(B, C)
      BY <2>4 DEF ExistsBijection
    <3> QED
      BY <1>0, <3>1, FS_Bijection
  <2>9. \A i \in A \cup C : n[i] \in Nat
    <3>1. ASSUME NEW i \in C PROVE n[i] \in Nat
      <4>1. i - Len(q) \in B /\ Len(q) + (i - Len(q)) = i
        OBVIOUS
      <4> QED
        BY <2>3, <4>1
    <3> QED
      BY <2>3, <3>1
  <2> HIDE DEF A, B, C, b, e
  <2>10. SumOver(A \cup C, n) = SumOver(A, n) + SumOver(C, n)
    BY <1>0, <2>8, <2>9, SumUnion
  <2>11. SumOver(A, nq) \in Nat
    BY <1>0, <2>3, UnitsFinite
  <2> QED
    BY <1>0, <2>1, <2>6, <2>7, <2>10, <2>11
<1> HIDE DEF qs
<1>2. SumsOfReports(qs) = AddSums(SumsOfReports(q), SumsOfReports(s))
  <2>1. SumsOfReports(qs) = [x \in Apis \X Kinds |-> SumsOfReports(qs)[x]]
    BY DEF SumsOfReports
  <2> QED
    BY <1>1, <2>1 DEF AddSums
<1>3. SumsOfReports(q) \in Sums
  <2>1. SumsOfReports(q) = [x \in Apis \X Kinds |-> SumsOfReports(q)[x]]
    BY DEF SumsOfReports
  <2> QED
    BY <1>1, <2>1 DEF Sums
<1> QED
  BY <1>2, <1>3 DEF qs

LEMMA LeastNatural ==
    ASSUME NEW S \in SUBSET Nat, S # {}
    PROVE  \E m \in S : \A n \in S : m <= n
<1> DEFINE R == {p \in Nat \X Nat : p[1] < p[2]}
<1>1. IsWellFoundedOn(R, Nat)
  BY NatLessThanWellFounded DEF OpToRel
<1> HIDE DEF R
<1>2. PICK m \in S : \A n \in S : ~(<<n, m>> \in R)
  BY <1>1, WFMin
<1>3. ASSUME NEW n \in S PROVE m <= n
  <2>1. n \in Nat /\ m \in Nat /\ <<n, m>> \notin R
    BY <1>2
  <2> QED
    BY <2>1 DEF R
<1> QED
  BY <1>3

\* A finite set has a greatest number, the one with the fewest others above it.
LEMMA GreatestNatural ==
    ASSUME NEW S \in SUBSET Nat, S # {}, IsFiniteSet(S)
    PROVE  \E m \in S : \A n \in S : m >= n
<1> DEFINE Above(x) == {y \in S : y > x}
           N == {Cardinality(Above(x)) : x \in S}
<1>1. ASSUME NEW x \in S PROVE IsFiniteSet(Above(x)) /\ Cardinality(Above(x)) \in Nat
  <2>1. Above(x) \in SUBSET S
    OBVIOUS
  <2> HIDE DEF Above
  <2> QED
    BY <2>1, FS_Subset, FS_CardinalityType
<1>2. PICK m \in S : \A x \in S : Cardinality(Above(m)) <= Cardinality(Above(x))
  <2>1. N \in SUBSET Nat /\ N # {}
    BY <1>1
  <2>2. PICK c \in N : \A d \in N : c <= d
    BY <2>1, LeastNatural
  <2> QED
    BY <2>2
<1>3. ASSUME NEW n \in S PROVE m >= n
  <2>1. SUFFICES ASSUME n > m PROVE FALSE
    OBVIOUS
  <2>2. /\ Above(n) \in SUBSET Above(m) /\ n \in Above(m) /\ n \notin Above(n)
    <3>1. ASSUME NEW y \in S, y > n PROVE y > m
      <4>1. y \in Nat /\ n \in Nat /\ m \in Nat
        OBVIOUS
      <4> QED
        BY <2>1, <3>1, <4>1
    <3>2. n \in Nat /\ ~(n > n)
      OBVIOUS
    <3> QED
      BY <2>1, <3>1, <3>2
  <2> HIDE DEF Above
  <2>3. Cardinality(Above(n)) <= Cardinality(Above(m)) /\ Cardinality(Above(n)) # Cardinality(Above(m))
    BY <1>1, <2>2, FS_Subset
  <2> QED
    BY <1>1, <1>2, <2>3
<1> QED
  BY <1>3

\* What one report says.
LEMMA AggregateSays ==
    ASSUME NEW api \in Apis, NEW f \in Rows(Keys), NEW k \in Keys, k[1] = api, f[k] > 0
    PROVE  LET r == Aggregate(api, f) IN
           /\ r \in Reports /\ Honest(r) /\ r.api = api
           /\ \A x \in Apis \X Kinds : SumsOfReport(r)[x] = IF x[1] = api THEN SumsOf(f)[x] ELSE 0
<1> DEFINE K == KeysOf(api)
           of == Of(api, f)
           used == {q \in K : of[q] > 0}
           costs == {q[2].duration : q \in used}
           r == Aggregate(api, f)
<1>0. /\ of \in Rows(K) /\ K \in SUBSET Keys /\ IsFiniteSet(K) /\ \A q \in K : of[q] = f[q]
      /\ DOMAIN of = K /\ k \in K
  <2>1. /\ of \in Rows(K) /\ K \in SUBSET Keys /\ IsFiniteSet(K) /\ \A q \in K : of[q] = f[q]
    BY OfRows
  <2>2. k \in K
    BY DEF KeysOf
  <2> HIDE DEF of, K
  <2>3. DOMAIN of = K
    BY <2>1 DEF Rows
  <2> QED
    BY <2>1, <2>2, <2>3
<1>1. \A kind \in Kinds : Weight(kind) \in Weights
  BY Constants
<1>2. \A q \in K : /\ q[2] \in Metrics /\ q[2].duration \in Nat /\ of[q] \in Nat
                  /\ Weight("calls")[q[2]] = 1
                  /\ Weight("successes")[q[2]] \in {0, 1}
                  /\ Weight("time")[q[2]] = q[2].duration
  BY <1>0, Constants DEF Weight, Rows
<1> HIDE DEF K, of
<1>3. costs \in SUBSET Nat /\ costs # {} /\ IsFiniteSet(costs)
  <2> DEFINE F == [q \in used |-> q[2].duration]
  <2>1. costs \in SUBSET Nat /\ k \in used
    BY <1>0, <1>2
  <2>2. costs = {F[q] : q \in used} /\ F = [q \in used |-> F[q]]
    OBVIOUS
  <2>3. IsFiniteSet(used)
    BY <1>0, FS_Subset
  <2>4. costs # {}
    BY <2>1
  <2> HIDE DEF F, used
  <2>5. IsFiniteSet({F[q] : q \in used})
    BY <2>2, <2>3, ImageFinite
  <2> QED
    BY <2>1, <2>2, <2>4, <2>5
<1>4. /\ Min(costs) \in Nat /\ \A c \in costs : Min(costs) <= c
      /\ Max(costs) \in Nat /\ \A c \in costs : Max(costs) >= c
  <2> HIDE DEF costs
  <2>1. \E m \in costs : \A n \in costs : m =< n
    BY <1>3, LeastNatural
  <2>2. \E m \in costs : \A n \in costs : m >= n
    BY <1>3, GreatestNatural
  <2> QED
    BY <1>3, <2>1, <2>2 DEF Min, Max
<1>5. /\ r.api = api
      /\ r.callTimes = Total(of, Weight("calls"))
      /\ r.successTimes = Total(of, Weight("successes"))
      /\ r.totalCostTime = Total(of, Weight("time"))
      /\ r.errorCodeNum = [e \in ErrCodes |-> Total(of, WeightOfError(e))]
      /\ r.maxCostTime = Max(costs) /\ r.minCostTime = Min(costs)
      /\ r = [api |-> r.api, callTimes |-> r.callTimes, successTimes |-> r.successTimes,
              totalCostTime |-> r.totalCostTime, maxCostTime |-> r.maxCostTime,
              minCostTime |-> r.minCostTime, errorCodeNum |-> r.errorCodeNum]
  BY <1>0 DEF Aggregate, of
<1>6. r \in Reports
  <2>1. \A kind \in Kinds : Total(of, Weight(kind)) \in Nat
    BY <1>0, <1>1, CellsFinite
  <2>2. \A e \in ErrCodes : Total(of, WeightOfError(e)) \in Nat
    BY <1>0, Constants, CellsFinite
  <2>3. "calls" \in Kinds /\ "successes" \in Kinds /\ "time" \in Kinds
    BY DEF Kinds
  <2>4. r.errorCodeNum \in [ErrCodes -> Nat]
    BY <1>5, <2>2
  <2> HIDE DEF r, costs
  <2>5. /\ r.api \in Apis /\ r.callTimes \in Nat /\ r.successTimes \in Nat /\ r.totalCostTime \in Nat
        /\ r.maxCostTime \in Nat /\ r.minCostTime \in Nat
    BY <1>4, <1>5, <2>1, <2>3
  <2> QED
    BY <1>5, <2>4, <2>5 DEF Reports
<1>7. Honest(r)
  <2> DEFINE lo == Min(costs)
             hi == Max(costs)
             calls1 == Weight("calls")
             time == Weight("time")
             succ == Weight("successes")
             los == [m \in Metrics |-> lo]
             his == [m \in Metrics |-> hi]
  <2>0. lo \in Nat /\ hi \in Nat
    BY <1>4
  <2>1. los \in Weights /\ his \in Weights /\ calls1 \in Weights /\ time \in Weights /\ succ \in Weights
    BY <1>1, <2>0 DEF Weights, Kinds
  <2>2. Total(of, los) = Total(of, calls1) * lo /\ Total(of, his) = Total(of, calls1) * hi
    BY <1>0, <2>0, TotalConstant
  <2>3. \A q \in K : of[q] > 0 => los[q[2]] <= time[q[2]] /\ time[q[2]] <= his[q[2]]
    <3>1. \A q \in K : of[q] > 0 => q[2].duration \in costs
      OBVIOUS
    <3> QED
      BY <1>2, <1>4, <3>1
  <2>4. \A q \in K : of[q] > 0 => succ[q[2]] <= calls1[q[2]]
    BY <1>2
  <2> HIDE DEF los, his, time, calls1, succ
  <2>5. Total(of, los) <= Total(of, time) /\ Total(of, time) <= Total(of, his)
    BY <1>0, <2>1, <2>3, TotalMonotonic
  <2>6. Total(of, succ) <= Total(of, calls1)
    BY <1>0, <2>1, <2>4, TotalMonotonic
  <2>7. SumOver(ErrCodes, r.errorCodeNum) = Total(of, calls1)
    BY <1>0, <1>5, Constants, TotalByErrCode DEF calls1
  <2>8. /\ r.callTimes = Total(of, calls1) /\ r.successTimes = Total(of, succ)
        /\ r.totalCostTime = Total(of, time) /\ r.minCostTime = lo /\ r.maxCostTime = hi
    BY <1>5 DEF calls1, succ, time
  <2> HIDE DEF lo, hi, r
  <2> QED
    BY <2>2, <2>5, <2>6, <2>7, <2>8 DEF Honest
<1>8. ASSUME NEW x \in Apis \X Kinds
      PROVE  SumsOfReport(r)[x] = IF x[1] = api THEN SumsOf(f)[x] ELSE 0
  <2>1. SumsOf(f)[x] = Total(Of(x[1], f), Weight(x[2]))
    BY DEF SumsOf
  <2> HIDE DEF r
  <2>2. CASE x[1] = api
    <3>1. SumsOf(f)[x] = Total(of, Weight(x[2]))
      BY <2>1, <2>2 DEF of
    <3>2. x[2] \in {"calls", "successes", "time"}
      BY DEF Kinds
    <3> QED
      BY <1>5, <2>2, <3>1, <3>2 DEF SumsOfReport
  <2>3. CASE x[1] # api
    BY <1>5, <2>3 DEF SumsOfReport
  <2> QED
    BY <2>2, <2>3
<1> QED
  BY <1>5, <1>6, <1>7, <1>8

\* The reports of a table, in whatever order they are queued, say what the table sums up to.
LEMMA ReportsOfTable ==
    ASSUME NEW f \in Rows(Keys), NEW s, s = SetToSeq(AggregateStats(f))
    PROVE  /\ s \in Seq(Reports)
           /\ \A i \in DOMAIN s : Honest(s[i])
           /\ SumsOfReports(s) = SumsOf(f)
<1> DEFINE apis == {api \in Apis : \E k \in Keys : k[1] = api /\ f[k] > 0}
           F == [api \in apis |-> Aggregate(api, f)]
           R == {F[api] : api \in apis}
<1>1. AggregateStats(f) = R /\ F = [api \in apis |-> F[api]]
  BY DEF AggregateStats, Rows
<1>2. IsFiniteSet(R)
  <2>1. IsFiniteSet(apis)
    BY Constants, FS_Subset
  <2> HIDE DEF apis, F
  <2> QED
    BY <1>1, <2>1, ImageFinite
<1>3. \A api \in apis : /\ F[api] \in Reports /\ Honest(F[api]) /\ F[api].api = api
                       /\ \A x \in Apis \X Kinds :
                            SumsOfReport(F[api])[x] = IF x[1] = api THEN SumsOf(f)[x] ELSE 0
  BY AggregateSays
<1>e. \A api \in Apis \ apis : \A k \in KeysOf(api) : ~(f[k] > 0)
  BY DEF KeysOf
<1> HIDE DEF F, R
<1> DEFINE n == Cardinality(R)
<1>4. n \in Nat /\ s \in [1..n -> R] /\ s \in Bijection(1..n, R)
  <2>0. n \in Nat
    BY <1>2, FS_CardinalityType
  <2>1. Injection(1..n, R) # {}
    <3>1. ExistsBijection(1..n, R)
      BY <1>2, FS_CardinalityType
    <3> QED
      BY <3>1 DEF ExistsBijection, Bijection
  <2>2. s \in [1..n -> R] /\ IsInjective(s)
    BY <1>1, <2>1 DEF SetToSeq, Injection
  <2>3. s \in Injection(1..n, R)
    BY <2>2 DEF Injection
  <2>4. IsFiniteSet(1..n) /\ Cardinality(1..n) = Cardinality(R)
    BY <2>0, UpToFinite
  <2>5. s \in Surjection(1..n, R)
    BY <1>2, <2>3, <2>4, FS_Injection
  <2> QED
    BY <2>0, <2>2, <2>3, <2>5 DEF Bijection
<1>5. /\ DOMAIN s = 1..n /\ \A i, j \in 1..n : s[i] = s[j] => i = j
      /\ \A r \in R : \E i \in 1..n : s[i] = r
      /\ \A i \in 1..n : \E api \in apis : s[i] = F[api]
  <2>1. \A i \in 1..n : s[i] \in R
    BY <1>4
  <2>2. \A r \in R : \E api \in apis : r = F[api]
    BY DEF R
  <2>3. /\ DOMAIN s = 1..n /\ \A i, j \in 1..n : s[i] = s[j] => i = j
        /\ \A r \in R : \E i \in 1..n : s[i] = r
    BY <1>4 DEF Bijection, Injection, Surjection, IsInjective
  <2> QED
    BY <2>1, <2>2, <2>3
<1> HIDE DEF n, apis
<1>6. s \in Seq(Reports)
  <2>1. \A i \in 1..n : s[i] \in Reports
    BY <1>3, <1>5
  <2>2. s \in [1..n -> Reports]
    BY <1>4, <2>1
  <2> QED
    BY <1>4, <2>2
<1>7. \A i \in DOMAIN s : Honest(s[i])
  BY <1>3, <1>5
<1>8. ASSUME NEW x \in Apis \X Kinds PROVE SumsOfReports(s)[x] = SumsOf(f)[x]
  <2> DEFINE m == [i \in DOMAIN s |-> SumsOfReport(s[i])[x]]
  <2>0. SumsOfReports(s)[x] = SumOver(DOMAIN s, m)
    BY DEF SumsOfReports
  <2>s. SumsOf(f)[x] = Total(Of(x[1], f), Weight(x[2])) /\ SumsOf(f)[x] \in Nat
    BY SumsType DEF SumsOf, Sums
  <2>1. CASE x[1] \in apis
    <3>1. PICK a \in 1..n : s[a] = F[x[1]]
      BY <1>5, <2>1 DEF R
    <3>2. m[a] = SumsOf(f)[x]
      BY <1>3, <1>5, <2>1, <3>1
    <3>3. ASSUME NEW i \in DOMAIN s, i # a PROVE m[i] = 0
      <4>1. PICK api \in apis : s[i] = F[api]
        BY <1>5
      <4>2. api # x[1]
        BY <1>5, <3>1, <3>3, <4>1
      <4> QED
        BY <1>3, <4>1, <4>2
    <3>4. a \in DOMAIN s /\ m[a] \in Nat
      BY <1>5, <2>s, <3>2
    <3>5. SumOver(DOMAIN s, m) = m[a]
      <4> HIDE DEF m
      <4> QED
        BY <3>3, <3>4, SumOfOne
    <3> QED
      BY <2>0, <3>2, <3>5
  <2>2. CASE x[1] \notin apis
    <3>1. \A i \in DOMAIN s : m[i] = 0
      BY <1>3, <1>5, <2>2
    <3>2. SumOver(DOMAIN s, m) = 0
      <4> HIDE DEF m
      <4> QED
        BY <3>1, SumOfNone
    <3>3. Cells(Of(x[1], f), Weight(x[2])) = {}
      <4>1. \A k \in KeysOf(x[1]) : ~(f[k] > 0) /\ f[k] \in Nat
        BY <1>e, <2>2 DEF KeysOf, Rows
      <4>2. \A k \in KeysOf(x[1]) : Of(x[1], f)[k] = 0
        BY <4>1, OfRows
      <4>3. DOMAIN Of(x[1], f) = KeysOf(x[1])
        BY OfRows DEF Rows
      <4> QED
        BY <4>2, <4>3, CellsMembers
    <3>4. Total(Of(x[1], f), Weight(x[2])) = 0
      BY <3>3, FS_EmptySet DEF Total, Cells
    <3> QED
      BY <2>0, <2>s, <3>2, <3>4
  <2> QED
    BY <2>1, <2>2
<1>9. SumsOfReports(s) = [x \in Apis \X Kinds |-> SumsOfReports(s)[x]]
      /\ SumsOf(f) = [x \in Apis \X Kinds |-> SumsOf(f)[x]]
  BY DEF SumsOfReports, SumsOf
<1>10. SumsOfReports(s) = SumsOf(f)
  <2> DEFINE u == SumsOfReports(s)
             v == SumsOf(f)
  <2>1. u = [x \in Apis \X Kinds |-> u[x]] /\ v = [x \in Apis \X Kinds |-> v[x]]
    BY <1>9
  <2>2. \A x \in Apis \X Kinds : u[x] = v[x]
    BY <1>8
  <2> HIDE DEF u, v
  <2>3. u = v
    BY <2>1, <2>2
  <2> QED
    BY <2>3 DEF u, v
<1> QED
  BY <1>6, <1>7, <1>10

--------------------------------------------------------------------------------
(* Types, and what is known of the tasks.                                          *)

LEMMA RowsOfSums ==
    /\ Empty \in Rows(Keys) /\ \A k \in Keys : Empty[k] = 0
    /\ \A k \in Keys : One(k) \in Rows(Keys)
    /\ \A f, g \in Rows(Keys) : Plus(f, g) \in Rows(Keys)
    /\ \A f, g \in Rows(Keys) : \A k \in Keys : Plus(f, g)[k] = f[k] + g[k]
    /\ \A f, g \in Rows(Keys) :
            (\A k \in Keys : g[k] <= f[k]) =>
                /\ Minus(f, g) \in Rows(Keys)
                /\ \A k \in Keys : f[k] = Minus(f, g)[k] + g[k]
<1>1. Empty \in Rows(Keys) /\ \A k \in Keys : Empty[k] = 0
  BY DEF Empty, Rows
<1>2. \A k \in Keys : One(k) \in Rows(Keys)
  BY <1>1 DEF One, Rows
<1>3. ASSUME NEW f \in Rows(Keys), NEW g \in Rows(Keys)
      PROVE  /\ Plus(f, g) \in Rows(Keys) /\ \A k \in Keys : Plus(f, g)[k] = f[k] + g[k]
             /\ (\A k \in Keys : g[k] <= f[k]) =>
                    /\ Minus(f, g) \in Rows(Keys)
                    /\ \A k \in Keys : f[k] = Minus(f, g)[k] + g[k]
  <2>1. \A k \in Keys : f[k] \in Nat /\ g[k] \in Nat
    BY DEF Rows
  <2>2. \A k \in Keys : Plus(f, g)[k] = f[k] + g[k] /\ Minus(f, g)[k] = f[k] - g[k]
    BY DEF Plus, Minus
  <2>3. Plus(f, g) \in Rows(Keys)
    BY <2>1 DEF Plus, Rows
  <2>4. ASSUME \A k \in Keys : g[k] <= f[k]
        PROVE  Minus(f, g) \in Rows(Keys) /\ \A k \in Keys : f[k] = Minus(f, g)[k] + g[k]
    <3>1. \A k \in Keys : f[k] - g[k] \in Nat /\ f[k] = (f[k] - g[k]) + g[k]
      BY <2>1, <2>4
    <3>2. Minus(f, g) \in Rows(Keys)
      BY <3>1 DEF Minus, Rows
    <3> QED
      BY <2>2, <3>1, <3>2
  <2> QED
    BY <2>2, <2>3, <2>4
<1> QED
  BY <1>1, <1>2, <1>3

\* A backup has stored no more than the memory holds; what is recorded is marked for the next
\* backup; and of the two tasks the one that is not armed is running.
TasksOK ==
    /\ \A k \in Keys : stored[k] <= memory[k]
    /\ pc # "backup" => stored = Empty
    /\ memory # Empty => updated
    /\ pc = "idle" => armed = {"backup", "report"}
    /\ pc \in {"backup", "query", "clear"} =>
            \/ running = "constructor" /\ pc # "backup"
            \/ running = "backup" /\ armed = {"report"}
            \/ running = "report" /\ armed = {"backup"}

BInv == TypeOK /\ TasksOK

\* TypeOK, conjunct by conjunct.
Typed ==
    /\ memory \in Rows(Keys) /\ table \in Rows(Keys) /\ stored \in Rows(Keys)
    /\ added \in Rows(Keys) /\ lost \in Rows(Keys) /\ twice \in Rows(Keys)
    /\ updated \in BOOLEAN
    /\ armed \subseteq {"backup", "report"}
    /\ running \in {"none", "constructor", "backup", "report"}
    /\ pc \in {"down", "idle", "backup", "query", "clear"}
    /\ queue \in Seq(Reports)
    /\ written \in Sums /\ dropped \in Sums
    /\ calls \in 0..MaxCalls /\ faults \in 0..MaxFaults /\ crashes \in 0..MaxCrashes

LEMMA TypeIsTyped == TypeOK <=> Typed
  BY DEF TypeOK, Typed, Rows

LEMMA SumsAdded ==
    ASSUME NEW s \in Sums, NEW t \in Sums
    PROVE  AddSums(s, t) \in Sums /\ \A x \in Apis \X Kinds : AddSums(s, t)[x] = s[x] + t[x]
<1>1. \A x \in Apis \X Kinds : s[x] + t[x] \in Nat
  BY DEF Sums
<1> QED
  BY <1>1 DEF AddSums, Sums

LEMMA EmptyHolds == \A k \in Keys : Empty[k] <= Empty[k]
<1>1. \A k \in Keys : Empty[k] = 0
  BY RowsOfSums
<1> QED
  BY <1>1

LEMMA InitBInv == Init => BInv
<1> SUFFICES ASSUME Init PROVE BInv
  OBVIOUS
<1>1. None \in Sums /\ <<>> \in Seq(Reports)
  BY DEF None, Sums
<1>2. MaxCalls \in Nat /\ MaxFaults \in Nat /\ MaxCrashes \in Nat
  BY ApiStatsAssumption
<1>3. 0 \in 0..MaxCalls /\ 0 \in 0..MaxFaults /\ 0 \in 0..MaxCrashes
  BY <1>2
<1>4. Typed
  BY <1>1, <1>3, RowsOfSums DEF Init, Typed
<1>5. TasksOK
  <2>1. \A k \in Keys : stored[k] <= memory[k]
    BY EmptyHolds DEF Init
  <2> QED
    BY <2>1 DEF Init, TasksOK
<1> QED
  BY <1>4, <1>5, TypeIsTyped DEF BInv

\* A task ends, and is scheduled again.
LEMMA Unlocked ==
    ASSUME Typed, TasksOK, pc \in {"backup", "query", "clear"}, Unlock
    PROVE  /\ armed' = {"backup", "report"} /\ running' = "none" /\ pc' = "idle" /\ stored' = Empty
<1>1. running \in {"constructor", "backup", "report"} /\ armed \subseteq {"backup", "report"}
      /\ (running = "backup" => armed = {"report"}) /\ (running = "report" => armed = {"backup"})
  BY DEF Typed, TasksOK
<1>2. /\ armed' = armed \cup IF running = "constructor" THEN {"backup", "report"} ELSE {running}
      /\ running' = "none" /\ pc' = "idle" /\ stored' = Empty
  BY DEF Unlock
<1> QED
  BY <1>1, <1>2

\* What a backup leaves behind, on its own or within a report.
LEMMA BackupOver ==
    ASSUME Typed, TasksOK, pc = "backup", AfterBackup
    PROVE  /\ stored' = Empty /\ armed' \subseteq {"backup", "report"}
           /\ running' \in {"none", "constructor", "backup", "report"} /\ pc' \in {"idle", "query"}
           /\ pc' = "idle" => armed' = {"backup", "report"}
           /\ pc' = "query" => running' = "report" /\ armed' = {"backup"}
<1>1. CASE running = "backup"
  <2>1. Unlock
    BY <1>1 DEF AfterBackup
  <2> QED
    BY <2>1, Unlocked
<1>2. CASE running # "backup"
  <2>1. pc' = "query" /\ stored' = Empty /\ armed' = armed /\ running' = running
    BY <1>2 DEF AfterBackup
  <2>2. running = "report" /\ armed = {"backup"}
    BY <1>2 DEF TasksOK
  <2> QED
    BY <2>1, <2>2
<1> QED
  BY <1>1, <1>2

LEMMA NextBInv == ASSUME BInv, Next PROVE BInv'
<1>0. Typed /\ TasksOK
  BY TypeIsTyped DEF BInv
<1>f. Fault => faults' \in 0..MaxFaults
  BY <1>0, ApiStatsAssumption DEF Fault, Typed
<1>s. SUFFICES Typed' /\ TasksOK'
  BY TypeIsTyped, PTL DEF BInv
<1>1. ASSUME NEW api \in Apis, NEW cost \in Costs, NEW outcome \in Outcomes,
             WriteApiEndMetric(api, cost, outcome)
      PROVE  Typed' /\ TasksOK'
  <2> DEFINE m == Metric(outcome, Narrow(cost))
             k == <<api, m>>
  <2>1. /\ pc = "idle" /\ m.duration >= 0 /\ calls < MaxCalls /\ calls' = calls + 1
        /\ memory' = Plus(memory, One(k)) /\ updated' = TRUE /\ added' = Plus(added, One(k))
        /\ UNCHANGED <<armed, running, pc, stored, table, queue, written, faults, crashes, lost, dropped, twice>>
    BY <1>1 DEF WriteApiEndMetric, ProcessApiMetric, Record, timerVars, storeVars
  <2>2. m \in Metrics
    <3>1. Narrow(cost) \in Int /\ m.duration = Narrow(cost)
      <4>1. cost \in Nat /\ IntMax \in Nat
        BY ApiStatsAssumption
      <4>2. Narrow(cost) \in Int
        BY <4>1 DEF Narrow
      <4> QED
        BY <4>2 DEF Metric
    <3>2. Narrow(cost) \in Nat
      BY <2>1, <3>1
    <3> QED
      BY <3>2 DEF Metrics
  <2>3. k \in Keys
    BY <2>2 DEF Keys
  <2> HIDE DEF k, m
  <2>4. memory' \in Rows(Keys) /\ added' \in Rows(Keys)
    BY <1>0, <2>1, <2>3, RowsOfSums DEF Typed
  <2>5. calls' \in 0..MaxCalls
    BY <1>0, <2>1, ApiStatsAssumption DEF Typed
  <2>6. stored = Empty
    BY <1>0, <2>1 DEF TasksOK
  <2>7. \A j \in Keys : stored'[j] <= memory'[j]
    BY <2>1, <2>4, <2>6, RowsOfSums DEF Rows
  <2>8. Typed'
    BY <1>0, <2>1, <2>4, <2>5 DEF Typed
  <2> QED
    BY <1>0, <2>1, <2>6, <2>7, <2>8 DEF TasksOK
<1>2. CASE Construct
  <2>1. /\ pc = "down" /\ running' = "constructor" /\ pc' = "query"
        /\ UNCHANGED <<memory, updated, armed, stored, calls, added, table, queue, written, faults,
                       crashes, lost, dropped, twice>>
    BY <1>2 DEF Construct, storeVars
  <2>2. Typed'
    BY <1>0, <2>1 DEF Typed
  <2> QED
    BY <1>0, <2>1, <2>2 DEF TasksOK
<1>3. ASSUME NEW task \in armed, ExecuteCallback(task) PROVE Typed' /\ TasksOK'
  <2>1. /\ pc = "idle" /\ armed' = armed \ {task} /\ running' = task
        /\ task = "backup" => updated
        /\ pc' = IF updated THEN "backup" ELSE "query"
        /\ UNCHANGED <<memory, updated, stored, calls, added, table, queue, written, faults,
                       crashes, lost, dropped, twice>>
    BY <1>3 DEF ExecuteCallback, storeVars
  <2>2. armed = {"backup", "report"} /\ task \in {"backup", "report"}
    BY <1>0, <2>1 DEF TasksOK
  <2>3. \/ running' = "backup" /\ armed' = {"report"}
        \/ running' = "report" /\ armed' = {"backup"}
    BY <2>1, <2>2
  <2>4. Typed'
    BY <1>0, <2>1, <2>2 DEF Typed
  <2> QED
    BY <1>0, <2>1, <2>3, <2>4 DEF TasksOK
<1>4. ASSUME NEW k \in Keys, InsertApiMetricInfo(k) PROVE Typed' /\ TasksOK'
  <2>1. /\ pc = "backup" /\ stored[k] < memory[k] /\ table' = Plus(table, One(k))
        /\ UNCHANGED <<queue, written, calls, faults, crashes, added, lost, dropped, twice>>
        /\ \/ memory' = Empty /\ updated' = FALSE /\ AfterBackup
           \/ /\ stored' = Plus(stored, One(k))
              /\ UNCHANGED <<memory, updated, armed, running, pc>>
    BY <1>4 DEF InsertApiMetricInfo
  <2>2. table' \in Rows(Keys)
    BY <1>0, <2>1, RowsOfSums DEF Typed
  <2>3. CASE memory' = Empty /\ updated' = FALSE /\ AfterBackup
    <3>1. /\ stored' = Empty /\ armed' \subseteq {"backup", "report"}
          /\ running' \in {"none", "constructor", "backup", "report"} /\ pc' \in {"idle", "query"}
          /\ pc' = "idle" => armed' = {"backup", "report"}
          /\ pc' = "query" => running' = "report" /\ armed' = {"backup"}
      BY <1>0, <2>1, <2>3, BackupOver
    <3>2. Typed'
      BY <1>0, <2>1, <2>2, <2>3, <3>1, RowsOfSums DEF Typed
    <3>3. \A j \in Keys : stored'[j] <= memory'[j]
      BY <2>3, <3>1, EmptyHolds
    <3> QED
      BY <2>3, <3>1, <3>2, <3>3 DEF TasksOK
  <2>4. CASE stored' = Plus(stored, One(k)) /\ UNCHANGED <<memory, updated, armed, running, pc>>
    <3>1. stored' \in Rows(Keys)
      BY <1>0, <2>4, RowsOfSums DEF Typed
    <3>2. ASSUME NEW j \in Keys PROVE stored'[j] <= memory'[j]
      <4>1. stored'[j] = stored[j] + One(k)[j]
        <5>1. stored \in Rows(Keys) /\ One(k) \in Rows(Keys)
          BY <1>0, RowsOfSums DEF Typed
        <5>2. Plus(stored, One(k))[j] = stored[j] + One(k)[j]
          BY <5>1, RowsOfSums
        <5> QED
          BY <2>4, <5>2
      <4>2. One(k)[j] = IF j = k THEN 1 ELSE 0
        BY DEF One, Empty
      <4>3. stored[j] \in Nat /\ memory[j] \in Nat /\ stored[j] <= memory[j] /\ memory'[j] = memory[j]
        BY <1>0, <2>4 DEF Typed, Rows, TasksOK
      <4> QED
        BY <2>1, <4>1, <4>2, <4>3
    <3>3. Typed'
      BY <1>0, <2>1, <2>2, <2>4, <3>1 DEF Typed
    <3> QED
      BY <1>0, <2>1, <2>4, <3>2, <3>3 DEF TasksOK
  <2> QED
    BY <2>1, <2>3, <2>4
<1>5. CASE InsertFails
  <2>1. /\ pc = "backup" /\ Fault /\ twice' = Plus(twice, stored) /\ AfterBackup
        /\ UNCHANGED <<memory, updated, table, queue, written, calls, crashes, added, lost, dropped>>
    BY <1>5 DEF InsertFails
  <2>2. /\ stored' = Empty /\ armed' \subseteq {"backup", "report"}
        /\ running' \in {"none", "constructor", "backup", "report"} /\ pc' \in {"idle", "query"}
        /\ pc' = "idle" => armed' = {"backup", "report"}
        /\ pc' = "query" => running' = "report" /\ armed' = {"backup"}
    BY <1>0, <2>1, BackupOver
  <2>3. twice' \in Rows(Keys)
    BY <1>0, <2>1, RowsOfSums DEF Typed
  <2>4. Typed'
    BY <1>0, <1>f, <2>1, <2>2, <2>3, RowsOfSums DEF Typed
  <2>5. \A k \in Keys : stored'[k] <= memory'[k]
    BY <1>0, <2>1, <2>2, RowsOfSums DEF Typed, Rows
  <2> QED
    BY <1>0, <2>1, <2>2, <2>4, <2>5 DEF TasksOK
<1>6. CASE ReportStats
  <2>1. /\ pc = "query" /\ queue' = queue \o SetToSeq(AggregateStats(table)) /\ pc' = "clear"
        /\ UNCHANGED <<memory, updated, table, armed, running, stored, written, calls, faults,
                       crashes, added, lost, dropped, twice>>
    BY <1>6 DEF ReportStats
  <2>2. SetToSeq(AggregateStats(table)) \in Seq(Reports)
    BY <1>0, ReportsOfTable DEF Typed
  <2>3. queue' \in Seq(Reports)
    BY <1>0, <2>1, <2>2 DEF Typed
  <2>4. Typed'
    BY <1>0, <2>1, <2>3 DEF Typed
  <2> QED
    BY <1>0, <2>1, <2>4 DEF TasksOK
<1>7. CASE QueryFails
  <2>1. /\ pc = "query" /\ Fault /\ Unlock
        /\ UNCHANGED <<memory, updated, table, queue, written, calls, crashes, added, lost, dropped, twice>>
    BY <1>7 DEF QueryFails
  <2>2. armed' = {"backup", "report"} /\ running' = "none" /\ pc' = "idle" /\ stored' = Empty
    BY <1>0, <2>1, Unlocked
  <2>3. Typed'
    BY <1>0, <1>f, <2>1, <2>2, RowsOfSums DEF Typed
  <2>5. \A k \in Keys : stored'[k] <= memory'[k]
    BY <1>0, <2>1, <2>2, RowsOfSums DEF Typed, Rows
  <2> QED
    BY <1>0, <2>1, <2>2, <2>3, <2>5 DEF TasksOK
<1>8. CASE Clear
  <2>1. /\ pc = "clear" /\ table' = Empty /\ Unlock
        /\ UNCHANGED <<memory, updated, queue, written, calls, faults, crashes, added, lost, dropped, twice>>
    BY <1>8 DEF Clear
  <2>2. armed' = {"backup", "report"} /\ running' = "none" /\ pc' = "idle" /\ stored' = Empty
    BY <1>0, <2>1, Unlocked
  <2>3. Typed'
    BY <1>0, <2>1, <2>2, RowsOfSums DEF Typed
  <2>5. \A k \in Keys : stored'[k] <= memory'[k]
    BY <1>0, <2>1, <2>2, RowsOfSums DEF Typed, Rows
  <2> QED
    BY <1>0, <2>1, <2>2, <2>3, <2>5 DEF TasksOK
<1>9. CASE ClearFails
  <2>1. /\ pc = "clear" /\ Fault /\ twice' = Plus(twice, table) /\ Unlock
        /\ UNCHANGED <<memory, updated, table, queue, written, calls, crashes, added, lost, dropped>>
    BY <1>9 DEF ClearFails
  <2>2. armed' = {"backup", "report"} /\ running' = "none" /\ pc' = "idle" /\ stored' = Empty
    BY <1>0, <2>1, Unlocked
  <2>3. twice' \in Rows(Keys)
    BY <1>0, <2>1, RowsOfSums DEF Typed
  <2>4. Typed'
    BY <1>0, <1>f, <2>1, <2>2, <2>3, RowsOfSums DEF Typed
  <2>5. \A k \in Keys : stored'[k] <= memory'[k]
    BY <1>0, <2>1, <2>2, RowsOfSums DEF Typed, Rows
  <2> QED
    BY <1>0, <2>1, <2>2, <2>4, <2>5 DEF TasksOK
<1>10. CASE WriteEvent
  <2>1. /\ queue # <<>> /\ written' = AddSums(written, SumsOfReport(Head(queue)))
        /\ queue' = Tail(queue)
        /\ UNCHANGED <<memory, updated, table, calls, faults, crashes, added, lost, dropped,
                       twice, armed, running, pc, stored>>
    BY <1>10 DEF WriteEvent, timerVars
  <2>2. Head(queue) \in Reports /\ Tail(queue) \in Seq(Reports)
    BY <1>0, <2>1 DEF Typed
  <2>3. written' \in Sums
    BY <1>0, <2>1, <2>2, ReportType, SumsAdded DEF Typed
  <2>4. Typed'
    BY <1>0, <2>1, <2>2, <2>3 DEF Typed
  <2> QED
    BY <1>0, <2>1, <2>4 DEF TasksOK
<1>11. CASE Crash
  <2>1. /\ crashes < MaxCrashes /\ crashes' = crashes + 1
        /\ memory' = Empty /\ updated' = FALSE /\ armed' = {} /\ running' = "none" /\ pc' = "down"
        /\ stored' = Empty /\ queue' = <<>>
        /\ lost' = Plus(lost, Minus(memory, stored))
        /\ dropped' = AddSums(dropped, SumsOfReports(queue))
        /\ twice' \in {twice, Plus(twice, table)}
        /\ UNCHANGED <<table, written, calls, faults, added>>
    BY <1>11 DEF Crash
  <2>2. lost' \in Rows(Keys) /\ twice' \in Rows(Keys)
    <3>1. Minus(memory, stored) \in Rows(Keys)
      BY <1>0, RowsOfSums DEF Typed, TasksOK
    <3> QED
      BY <1>0, <2>1, <3>1, RowsOfSums DEF Typed
  <2>3. dropped' \in Sums
    <3>1. SumsOfReports(queue) \in Sums
      BY <1>0, ReportsConcat DEF Typed
    <3> QED
      BY <1>0, <2>1, <3>1, SumsAdded DEF Typed
  <2>4. crashes' \in 0..MaxCrashes
    BY <1>0, <2>1, ApiStatsAssumption DEF Typed
  <2>5. <<>> \in Seq(Reports)
    OBVIOUS
  <2>6. Typed'
    BY <1>0, <2>1, <2>2, <2>3, <2>4, <2>5, RowsOfSums DEF Typed
  <2>7. \A k \in Keys : stored'[k] <= memory'[k]
    BY <2>1, EmptyHolds
  <2> QED
    BY <2>1, <2>6, <2>7 DEF TasksOK
<1> QED
  BY <1>1, <1>2, <1>3, <1>4, <1>5, <1>6, <1>7, <1>8, <1>9, <1>10, <1>11 DEF Next

--------------------------------------------------------------------------------
(* The books balance.                                                              *)

\* What is in two places at once, stored and in memory, or in the table and handed over, has
\* been added to both sides.
Balance(x) ==
    written[x] + dropped[x] + SumsOfReports(queue)[x]
        + SumsOf(table)[x] + SumsOf(memory)[x] + SumsOf(lost)[x]
    = SumsOf(added)[x] + SumsOf(twice)[x] + SumsOf(Copies)[x]

AInv == \A x \in Apis \X Kinds : Balance(x)

Naturals(x) ==
    /\ written[x] \in Nat /\ dropped[x] \in Nat /\ SumsOfReports(queue)[x] \in Nat
    /\ SumsOf(table)[x] \in Nat /\ SumsOf(memory)[x] \in Nat /\ SumsOf(lost)[x] \in Nat
    /\ SumsOf(added)[x] \in Nat /\ SumsOf(twice)[x] \in Nat /\ SumsOf(Copies)[x] \in Nat

LEMMA SumsAt ==
    ASSUME NEW x \in Apis \X Kinds
    PROVE  /\ \A f \in Rows(Keys) : SumsOf(f)[x] \in Nat
           /\ SumsOf(Empty)[x] = 0
           /\ \A f, g \in Rows(Keys) : SumsOf(Plus(f, g))[x] = SumsOf(f)[x] + SumsOf(g)[x]
           /\ \A f, g \in Rows(Keys) :
                (\A k \in Keys : g[k] <= f[k]) =>
                    SumsOf(f)[x] = SumsOf(Minus(f, g))[x] + SumsOf(g)[x]
<1>1. \A f \in Rows(Keys) : SumsOf(f)[x] \in Nat
  BY SumsType DEF Sums
<1>2. SumsOf(Empty)[x] = 0
  BY SumsOfEmpty DEF None
<1>3. ASSUME NEW f \in Rows(Keys), NEW g \in Rows(Keys), NEW h \in Rows(Keys),
             \A k \in Keys : h[k] = f[k] + g[k]
      PROVE  SumsOf(h)[x] = SumsOf(f)[x] + SumsOf(g)[x]
  <2>1. SumsOf(h) = AddSums(SumsOf(f), SumsOf(g))
    BY <1>3, SumsPlus
  <2> QED
    BY <2>1 DEF AddSums
<1>4. ASSUME NEW f \in Rows(Keys), NEW g \in Rows(Keys)
      PROVE  SumsOf(Plus(f, g))[x] = SumsOf(f)[x] + SumsOf(g)[x]
  <2>1. Plus(f, g) \in Rows(Keys) /\ \A k \in Keys : Plus(f, g)[k] = f[k] + g[k]
    BY RowsOfSums
  <2> QED
    BY <1>3, <2>1
<1>5. ASSUME NEW f \in Rows(Keys), NEW g \in Rows(Keys), \A k \in Keys : g[k] <= f[k]
      PROVE  SumsOf(f)[x] = SumsOf(Minus(f, g))[x] + SumsOf(g)[x]
  <2>1. Minus(f, g) \in Rows(Keys) /\ \A k \in Keys : f[k] = Minus(f, g)[k] + g[k]
    BY <1>5, RowsOfSums
  <2> QED
    BY <1>3, <2>1
<1> QED
  BY <1>1, <1>2, <1>4, <1>5

LEMMA CopiesType == BInv => Copies \in Rows(Keys)
<1> SUFFICES ASSUME BInv PROVE Copies \in Rows(Keys)
  OBVIOUS
<1>1. Typed
  BY TypeIsTyped DEF BInv
<1>2. stored \in Rows(Keys) /\ table \in Rows(Keys) /\ Empty \in Rows(Keys)
  BY <1>1, RowsOfSums DEF Typed
<1> QED
  BY <1>2 DEF Copies

NInv == \A x \in Apis \X Kinds : Naturals(x)

LEMMA SumsAreNatural == BInv => NInv
<1> SUFFICES ASSUME BInv, NEW x \in Apis \X Kinds PROVE Naturals(x)
  BY DEF NInv
<1>1. Typed /\ Copies \in Rows(Keys)
  BY TypeIsTyped, CopiesType DEF BInv
<1>2. SumsOfReports(queue) \in Sums
  BY <1>1, ReportsConcat DEF Typed
<1>3. written[x] \in Nat /\ dropped[x] \in Nat /\ SumsOfReports(queue)[x] \in Nat
  BY <1>1, <1>2 DEF Typed, Sums
<1>4. /\ SumsOf(table)[x] \in Nat /\ SumsOf(memory)[x] \in Nat /\ SumsOf(lost)[x] \in Nat
      /\ SumsOf(added)[x] \in Nat /\ SumsOf(twice)[x] \in Nat /\ SumsOf(Copies)[x] \in Nat
  BY <1>1, SumsAt DEF Typed
<1> QED
  BY <1>3, <1>4 DEF Naturals

LEMMA NoReports ==
    ASSUME NEW x \in Apis \X Kinds
    PROVE  SumsOfReports(<<>>)[x] = 0
<1> DEFINE n == [i \in DOMAIN <<>> |-> SumsOfReport(<<>>[i])[x]]
<1>1. SumsOfReports(<<>>)[x] = SumOver(DOMAIN <<>>, n)
  BY DEF SumsOfReports
<1>2. \A i \in DOMAIN <<>> : n[i] = 0
  OBVIOUS
<1> HIDE DEF n
<1> QED
  BY <1>1, <1>2, SumOfNone

LEMMA FirstReport ==
    ASSUME NEW queued \in Seq(Reports), queued # <<>>, NEW x \in Apis \X Kinds
    PROVE  /\ SumsOfReport(Head(queued))[x] \in Nat
           /\ SumsOfReports(queued)[x] = SumsOfReport(Head(queued))[x] + SumsOfReports(Tail(queued))[x]
<1>1. PICK r \in Reports : r = Head(queued)
  OBVIOUS
<1>t. Tail(queued) \in Seq(Reports)
  OBVIOUS
<1>2. PICK q \in Seq(Reports) : q = Tail(queued)
  BY <1>t
<1>3. <<r>> \in Seq(Reports) /\ queued = <<r>> \o q
  BY <1>1, <1>2
<1>4. SumsOfReports(queued) = AddSums(SumsOfReports(<<r>>), SumsOfReports(q))
  BY <1>3, ReportsConcat
<1>5. SumsOfReport(r)[x] \in Nat
  BY ReportType DEF Sums
<1> DEFINE n == [i \in DOMAIN <<r>> |-> SumsOfReport(<<r>>[i])[x]]
<1>6. SumsOfReports(<<r>>)[x] = SumOver(DOMAIN <<r>>, n)
  BY DEF SumsOfReports
<1>7. DOMAIN <<r>> = {1} /\ n[1] = SumsOfReport(r)[x]
  OBVIOUS
<1> HIDE DEF n
<1>8. SumOver({1}, n) = n[1]
  BY <1>5, <1>7, SumOfOne
<1>9. SumsOfReports(queued)[x] = SumsOfReports(<<r>>)[x] + SumsOfReports(q)[x]
  BY <1>4 DEF AddSums
<1> QED
  BY <1>1, <1>2, <1>5, <1>6, <1>7, <1>8, <1>9

LEMMA InitAInv == Init => AInv
<1> SUFFICES ASSUME Init, NEW x \in Apis \X Kinds PROVE Balance(x)
  BY DEF AInv
<1>1. Copies = Empty
  BY DEF Init, Copies
<1>2. written[x] = 0 /\ dropped[x] = 0
  BY DEF Init, None
<1>3. SumsOfReports(queue)[x] = 0
  BY NoReports DEF Init
<1>4. /\ SumsOf(table)[x] = 0 /\ SumsOf(memory)[x] = 0 /\ SumsOf(lost)[x] = 0
      /\ SumsOf(added)[x] = 0 /\ SumsOf(twice)[x] = 0 /\ SumsOf(Copies)[x] = 0
  BY <1>1, SumsAt DEF Init
<1> QED
  BY <1>2, <1>3, <1>4 DEF Balance

LEMMA NextAInv == ASSUME BInv, BInv', AInv, Next PROVE AInv'
<1> SUFFICES ASSUME NEW x \in Apis \X Kinds PROVE Balance(x)'
  BY DEF AInv
<1>0. Typed /\ TasksOK /\ Naturals(x) /\ Balance(x)
  BY TypeIsTyped, SumsAreNatural DEF BInv, AInv, NInv
<1>n. Naturals(x)'
  <2>1. NInv'
    BY SumsAreNatural, PTL
  <2> QED
    BY <2>1 DEF NInv
<1>r. /\ memory \in Rows(Keys) /\ table \in Rows(Keys) /\ stored \in Rows(Keys)
      /\ added \in Rows(Keys) /\ lost \in Rows(Keys) /\ twice \in Rows(Keys)
      /\ queue \in Seq(Reports) /\ \A k \in Keys : One(k) \in Rows(Keys)
  BY <1>0, RowsOfSums DEF Typed
<1>e. SumsOf(Empty)[x] = 0
  BY SumsAt
<1>p. \A f, g \in Rows(Keys) : SumsOf(Plus(f, g))[x] = SumsOf(f)[x] + SumsOf(g)[x]
  BY SumsAt
<1>t. \A f \in Rows(Keys) : SumsOf(f)[x] \in Nat
  BY SumsAt
<1>c. /\ pc = "backup" => Copies = stored
      /\ pc = "clear" => Copies = table
      /\ pc \notin {"backup", "clear"} => Copies = Empty
      /\ pc' = "backup" => Copies' = stored'
      /\ pc' = "clear" => Copies' = table'
      /\ pc' \notin {"backup", "clear"} => Copies' = Empty
  BY DEF Copies
<1>1. ASSUME NEW api \in Apis, NEW cost \in Costs, NEW outcome \in Outcomes,
             WriteApiEndMetric(api, cost, outcome)
      PROVE  Balance(x)'
  <2> DEFINE k == <<api, Metric(outcome, Narrow(cost))>>
  <2>1. /\ pc = "idle" /\ pc' = "idle" /\ Metric(outcome, Narrow(cost)).duration >= 0
        /\ memory' = Plus(memory, One(k)) /\ added' = Plus(added, One(k))
        /\ UNCHANGED <<table, queue, written, lost, dropped, twice>>
    BY <1>1 DEF WriteApiEndMetric, ProcessApiMetric, Record, timerVars, storeVars
  <2>2. k \in Keys
    <3>1. Narrow(cost) \in Int /\ Metric(outcome, Narrow(cost)).duration = Narrow(cost)
      <4>1. cost \in Nat /\ IntMax \in Nat
        BY ApiStatsAssumption
      <4>2. Narrow(cost) \in Int
        BY <4>1 DEF Narrow
      <4> QED
        BY <4>2 DEF Metric
    <3>2. Narrow(cost) \in Nat
      BY <2>1, <3>1
    <3> QED
      BY <3>2 DEF Metrics, Keys
  <2> HIDE DEF k
  <2>3. /\ SumsOf(memory')[x] = SumsOf(memory)[x] + SumsOf(One(k))[x]
        /\ SumsOf(added')[x] = SumsOf(added)[x] + SumsOf(One(k))[x]
        /\ SumsOf(One(k))[x] \in Nat
    BY <1>r, <1>p, <1>t, <2>1, <2>2
  <2>4. Copies' = Copies
    BY <1>c, <2>1
  <2> QED
    BY <1>0, <1>n, <2>1, <2>3, <2>4 DEF Balance, Naturals
<1>2. ASSUME Construct \/ \E task \in armed : ExecuteCallback(task) PROVE Balance(x)'
  <2>1. UNCHANGED <<memory, stored, added, table, queue, written, lost, dropped, twice>>
        /\ pc \in {"down", "idle"} /\ pc' \in {"query", "backup"}
    BY <1>2 DEF Construct, ExecuteCallback, storeVars
  <2>2. stored = Empty
    BY <1>0, <2>1 DEF TasksOK
  <2>3. Copies' = Copies
    BY <1>c, <2>1, <2>2
  <2> QED
    BY <1>0, <2>1, <2>3 DEF Balance
<1>3. ASSUME NEW k \in Keys, InsertApiMetricInfo(k) PROVE Balance(x)'
  <2>1. /\ pc = "backup" /\ table' = Plus(table, One(k))
        /\ UNCHANGED <<queue, written, added, lost, dropped, twice>>
        /\ \/ Plus(stored, One(k)) = memory /\ memory' = Empty /\ AfterBackup
           \/ stored' = Plus(stored, One(k)) /\ UNCHANGED <<memory, pc>>
    BY <1>3 DEF InsertApiMetricInfo
  <2>2. /\ SumsOf(table')[x] = SumsOf(table)[x] + SumsOf(One(k))[x]
        /\ SumsOf(Plus(stored, One(k)))[x] = SumsOf(stored)[x] + SumsOf(One(k))[x]
        /\ SumsOf(One(k))[x] \in Nat /\ SumsOf(stored)[x] \in Nat /\ Copies = stored
    BY <1>r, <1>p, <1>t, <1>c, <2>1
  <2>3. CASE Plus(stored, One(k)) = memory /\ memory' = Empty /\ AfterBackup
    <3>1. pc' \in {"idle", "query"}
      BY <1>0, <2>1, <2>3, BackupOver
    <3>2. Copies' = Empty
      BY <1>c, <3>1
    <3>3. SumsOf(memory)[x] = SumsOf(stored)[x] + SumsOf(One(k))[x]
          /\ SumsOf(memory')[x] = 0 /\ SumsOf(Copies')[x] = 0
      BY <1>e, <2>2, <2>3, <3>2
    <3> QED
      BY <1>0, <1>n, <2>1, <2>2, <3>3 DEF Balance, Naturals
  <2>4. CASE stored' = Plus(stored, One(k)) /\ UNCHANGED <<memory, pc>>
    <3>1. Copies' = stored'
      BY <1>c, <2>1, <2>4
    <3>2. SumsOf(Copies')[x] = SumsOf(Copies)[x] + SumsOf(One(k))[x]
      BY <2>2, <2>4, <3>1
    <3> QED
      BY <1>0, <1>n, <2>1, <2>2, <2>4, <3>2 DEF Balance, Naturals
  <2> QED
    BY <2>1, <2>3, <2>4
<1>4. CASE InsertFails
  <2>1. /\ pc = "backup" /\ twice' = Plus(twice, stored) /\ AfterBackup
        /\ UNCHANGED <<memory, table, queue, written, added, lost, dropped>>
    BY <1>4 DEF InsertFails
  <2>2. pc' \in {"idle", "query"}
    BY <1>0, <2>1, BackupOver
  <2>3. /\ SumsOf(twice')[x] = SumsOf(twice)[x] + SumsOf(Copies)[x]
        /\ SumsOf(Copies')[x] = 0
    BY <1>r, <1>p, <1>c, <1>e, <2>1, <2>2
  <2> QED
    BY <1>0, <1>n, <2>1, <2>3 DEF Balance, Naturals
<1>5. CASE ReportStats
  <2> DEFINE s == SetToSeq(AggregateStats(table))
  <2>1. /\ pc = "query" /\ queue' = queue \o s /\ pc' = "clear"
        /\ UNCHANGED <<memory, table, written, added, lost, dropped, twice>>
    BY <1>5 DEF ReportStats
  <2>2. s \in Seq(Reports) /\ SumsOfReports(s) = SumsOf(table)
    BY <1>r, ReportsOfTable
  <2> HIDE DEF s
  <2>3. SumsOfReports(queue') = AddSums(SumsOfReports(queue), SumsOfReports(s))
    BY <1>r, <2>1, <2>2, ReportsConcat
  <2>4. SumsOfReports(queue')[x] = SumsOfReports(queue)[x] + SumsOf(table)[x]
    BY <2>2, <2>3 DEF AddSums
  <2>5. SumsOf(Copies)[x] = 0 /\ SumsOf(Copies')[x] = SumsOf(table)[x]
    BY <1>c, <1>e, <2>1
  <2>u. /\ SumsOf(memory')[x] = SumsOf(memory)[x] /\ SumsOf(table')[x] = SumsOf(table)[x]
        /\ written'[x] = written[x] /\ SumsOf(added')[x] = SumsOf(added)[x]
        /\ SumsOf(lost')[x] = SumsOf(lost)[x] /\ dropped'[x] = dropped[x]
        /\ SumsOf(twice')[x] = SumsOf(twice)[x]
    BY <2>1
  <2> QED
    BY <1>0, <1>n, <2>u, <2>4, <2>5 DEF Balance, Naturals
<1>6. CASE QueryFails
  <2>1. /\ pc = "query" /\ pc' = "idle"
        /\ UNCHANGED <<memory, table, queue, written, added, lost, dropped, twice>>
    BY <1>6 DEF QueryFails, Unlock
  <2>2. Copies' = Copies
    BY <1>c, <2>1
  <2> QED
    BY <1>0, <2>1, <2>2 DEF Balance
<1>7. CASE Clear
  <2>1. /\ pc = "clear" /\ pc' = "idle" /\ table' = Empty
        /\ UNCHANGED <<memory, queue, written, added, lost, dropped, twice>>
    BY <1>7 DEF Clear, Unlock
  <2>2. SumsOf(table')[x] = 0 /\ SumsOf(Copies')[x] = 0 /\ SumsOf(Copies)[x] = SumsOf(table)[x]
    BY <1>c, <1>e, <2>1
  <2>u. /\ SumsOf(memory')[x] = SumsOf(memory)[x] /\ SumsOfReports(queue')[x] = SumsOfReports(queue)[x]
        /\ written'[x] = written[x] /\ SumsOf(added')[x] = SumsOf(added)[x]
        /\ SumsOf(lost')[x] = SumsOf(lost)[x] /\ dropped'[x] = dropped[x]
        /\ SumsOf(twice')[x] = SumsOf(twice)[x]
    BY <2>1
  <2> QED
    BY <1>0, <1>n, <2>u, <2>2 DEF Balance, Naturals
<1>8. CASE ClearFails
  <2>1. /\ pc = "clear" /\ pc' = "idle" /\ twice' = Plus(twice, table)
        /\ UNCHANGED <<memory, table, queue, written, added, lost, dropped>>
    BY <1>8 DEF ClearFails, Unlock
  <2>2. /\ SumsOf(twice')[x] = SumsOf(twice)[x] + SumsOf(table)[x]
        /\ SumsOf(Copies')[x] = 0 /\ SumsOf(Copies)[x] = SumsOf(table)[x]
    BY <1>r, <1>p, <1>c, <1>e, <2>1
  <2>u. /\ SumsOf(memory')[x] = SumsOf(memory)[x] /\ SumsOf(table')[x] = SumsOf(table)[x]
        /\ SumsOfReports(queue')[x] = SumsOfReports(queue)[x] /\ written'[x] = written[x]
        /\ SumsOf(added')[x] = SumsOf(added)[x] /\ SumsOf(lost')[x] = SumsOf(lost)[x]
        /\ dropped'[x] = dropped[x]
    BY <2>1
  <2> QED
    BY <1>0, <1>n, <2>u, <2>2 DEF Balance, Naturals
<1>9. CASE WriteEvent
  <2>1. /\ queue # <<>> /\ written' = AddSums(written, SumsOfReport(Head(queue)))
        /\ queue' = Tail(queue)
        /\ UNCHANGED <<memory, table, added, lost, dropped, twice, pc, stored>>
    BY <1>9 DEF WriteEvent, timerVars
  <2>2. PICK d \in Nat : /\ d = SumsOfReport(Head(queue))[x]
                        /\ SumsOfReports(queue)[x] = d + SumsOfReports(Tail(queue))[x]
    BY <1>r, <2>1, FirstReport
  <2>3. SumsOfReports(queue)[x] = d + SumsOfReports(queue')[x]
    BY <2>1, <2>2
  <2>4. written'[x] = written[x] + d
    BY <2>1, <2>2 DEF AddSums
  <2>5. Copies' = Copies
    BY <2>1 DEF Copies
  <2>6. /\ SumsOf(memory')[x] = SumsOf(memory)[x] /\ SumsOf(table')[x] = SumsOf(table)[x]
        /\ SumsOf(added')[x] = SumsOf(added)[x] /\ SumsOf(lost')[x] = SumsOf(lost)[x]
        /\ dropped'[x] = dropped[x] /\ SumsOf(twice')[x] = SumsOf(twice)[x]
        /\ SumsOf(Copies')[x] = SumsOf(Copies)[x]
    BY <2>1, <2>5
  <2> QED
    BY <1>0, <1>n, <2>3, <2>4, <2>6 DEF Balance, Naturals
<1>10. CASE Crash
  <2>1. /\ pc' = "down" /\ memory' = Empty /\ queue' = <<>>
        /\ lost' = Plus(lost, Minus(memory, stored))
        /\ dropped' = AddSums(dropped, SumsOfReports(queue))
        /\ twice' = IF pc = "clear" THEN Plus(twice, table) ELSE twice
        /\ UNCHANGED <<table, written, added>>
    BY <1>10 DEF Crash
  <2>2. Minus(memory, stored) \in Rows(Keys)
        /\ SumsOf(memory)[x] = SumsOf(Minus(memory, stored))[x] + SumsOf(stored)[x]
    <3>1. \A k \in Keys : stored[k] <= memory[k]
      BY <1>0 DEF TasksOK
    <3>2. Minus(memory, stored) \in Rows(Keys)
      BY <1>r, <3>1, RowsOfSums
    <3>3. SumsOf(memory)[x] = SumsOf(Minus(memory, stored))[x] + SumsOf(stored)[x]
      BY <1>r, <3>1, SumsAt
    <3> QED
      BY <3>2, <3>3
  <2>3. /\ SumsOf(lost')[x] = SumsOf(lost)[x] + SumsOf(Minus(memory, stored))[x]
        /\ dropped'[x] = dropped[x] + SumsOfReports(queue)[x]
        /\ SumsOfReports(queue')[x] = 0 /\ SumsOf(memory')[x] = 0 /\ SumsOf(Copies')[x] = 0
    BY <1>r, <1>p, <1>c, <1>e, <2>1, <2>2, NoReports DEF AddSums
  <2>4. /\ SumsOf(stored)[x] \in Nat /\ SumsOf(Minus(memory, stored))[x] \in Nat
        /\ pc # "backup" => SumsOf(stored)[x] = 0
    BY <1>0, <1>r, <1>t, <1>e, <2>2 DEF TasksOK
  <2>5. SumsOf(twice')[x] + SumsOf(stored)[x] = SumsOf(twice)[x] + SumsOf(Copies)[x]
    <3>1. CASE pc = "clear"
      <4>1. SumsOf(twice')[x] = SumsOf(twice)[x] + SumsOf(table)[x] /\ Copies = table
        BY <1>r, <1>p, <1>c, <2>1, <3>1
      <4> QED
        BY <1>0, <2>4, <3>1, <4>1 DEF Naturals
    <3>2. CASE pc = "backup"
      BY <1>c, <2>1, <3>2
    <3>3. CASE pc \notin {"backup", "clear"}
      BY <1>c, <1>e, <2>1, <2>4, <3>3
    <3> QED
      BY <3>1, <3>2, <3>3
  <2>u. /\ SumsOf(table')[x] = SumsOf(table)[x] /\ written'[x] = written[x]
        /\ SumsOf(added')[x] = SumsOf(added)[x]
    BY <2>1
  <2>6. SumsOf(memory)[x] = SumsOf(Minus(memory, stored))[x] + SumsOf(stored)[x]
    BY <2>2
  <2> QED
    BY <1>0, <1>n, <2>u, <2>3, <2>4, <2>5, <2>6 DEF Balance, Naturals
<1> QED
  BY <1>1, <1>2, <1>3, <1>4, <1>5, <1>6, <1>7, <1>8, <1>9, <1>10 DEF Next

\* The invariant of the run, from the two parts.
LEMMA BooksBalance == BInv /\ AInv => CallsAccountedFor
<1> SUFFICES ASSUME BInv, AInv PROVE CallsAccountedFor
  OBVIOUS
<1>0. Typed /\ TasksOK /\ Copies \in Rows(Keys)
  BY TypeIsTyped, CopiesType DEF BInv
<1>1. RecordedIsPending
  <2>1. ASSUME Minus(memory, stored) # Empty PROVE updated
    <3>1. ASSUME memory = Empty PROVE FALSE
      <4>1. \A k \in Keys : memory[k] = 0 /\ stored[k] \in Nat /\ stored[k] <= memory[k]
        BY <1>0, <3>1, RowsOfSums DEF Typed, Rows, TasksOK
      <4>2. \A k \in Keys : memory[k] - stored[k] = 0
        BY <4>1
      <4>3. Minus(memory, stored) = Empty
        BY <4>2 DEF Minus, Empty
      <4> QED
        BY <2>1, <4>3
    <3> QED
      BY <1>0, <3>1 DEF TasksOK
  <2> QED
    BY <1>0, <2>1 DEF RecordedIsPending, TasksOK
<1> DEFINE held == SumsOf(Minus(Plus(table, memory), Copies))
           reported == AddSums(AddSums(written, dropped), SumsOfReports(queue))
<1>2. ASSUME NEW x \in Apis \X Kinds
      PROVE  held[x] + SumsOf(Copies)[x] = SumsOf(table)[x] + SumsOf(memory)[x] /\ held[x] \in Nat
  <2>1. table \in Rows(Keys) /\ memory \in Rows(Keys) /\ stored \in Rows(Keys)
    BY <1>0 DEF Typed
  <2>2. Plus(table, memory) \in Rows(Keys)
        /\ \A k \in Keys : Plus(table, memory)[k] = table[k] + memory[k]
    BY <2>1, RowsOfSums
  <2>3. \A k \in Keys : Copies[k] <= Plus(table, memory)[k]
    <3> SUFFICES ASSUME NEW k \in Keys PROVE Copies[k] <= Plus(table, memory)[k]
      OBVIOUS
    <3>1. /\ Copies[k] \in {stored[k], table[k], 0}
          /\ table[k] \in Nat /\ memory[k] \in Nat /\ stored[k] \in Nat /\ stored[k] <= memory[k]
      BY <1>0, <2>1, RowsOfSums DEF Copies, Rows, TasksOK
    <3> QED
      BY <2>2, <3>1
  <2>4. SumsOf(Plus(table, memory))[x] = held[x] + SumsOf(Copies)[x]
        /\ SumsOf(Plus(table, memory))[x] = SumsOf(table)[x] + SumsOf(memory)[x]
    BY <1>0, <2>1, <2>2, <2>3, SumsAt
  <2>5. Minus(Plus(table, memory), Copies) \in Rows(Keys)
    BY <1>0, <2>2, <2>3, RowsOfSums
  <2>6. held[x] \in Nat
    BY <2>5, SumsAt
  <2> QED
    BY <2>4, <2>6
<1> HIDE DEF held
<1>3. ASSUME NEW x \in Apis \X Kinds
      PROVE  written[x] + dropped[x] + SumsOfReports(queue)[x] + held[x] + SumsOf(lost)[x]
               = SumsOf(added)[x] + SumsOf(twice)[x]
  <2>1. Balance(x) /\ Naturals(x)
    BY SumsAreNatural DEF AInv, NInv
  <2>2. held[x] \in Nat /\ held[x] + SumsOf(Copies)[x] = SumsOf(table)[x] + SumsOf(memory)[x]
    BY <1>2
  <2>3. written[x] + dropped[x] + SumsOfReports(queue)[x]
            + (held[x] + SumsOf(Copies)[x]) + SumsOf(lost)[x]
          = SumsOf(added)[x] + SumsOf(twice)[x] + SumsOf(Copies)[x]
    BY <2>1, <2>2 DEF Balance, Naturals
  <2> QED
    BY <2>1, <2>2, <2>3 DEF Naturals
<1>4. AddSums(AddSums(reported, held), SumsOf(lost)) = AddSums(SumsOf(added), SumsOf(twice))
  BY <1>3 DEF AddSums
<1> QED
  BY <1>1, <1>4 DEF CallsAccountedFor, held, BInv

--------------------------------------------------------------------------------
(* Theorems.                                                                       *)

LEMMA StutterBInv == ASSUME BInv, UNCHANGED vars PROVE BInv'
<1>1. UNCHANGED <<memory, updated, table, armed, running, pc, stored, queue, written, calls, faults,
                  crashes, added, lost, dropped, twice>>
  BY DEF vars
<1>2. Typed /\ TasksOK
  BY TypeIsTyped DEF BInv
<1>3. Typed' /\ TasksOK'
  BY <1>1, <1>2 DEF Typed, TasksOK
<1> QED
  BY <1>3, TypeIsTyped, PTL DEF BInv

LEMMA StutterAInv == ASSUME AInv, UNCHANGED vars PROVE AInv'
<1>1. UNCHANGED <<memory, table, pc, stored, queue, written, added, lost, dropped, twice>>
  BY DEF vars
<1>2. Copies' = Copies
  BY <1>1 DEF Copies
<1> SUFFICES ASSUME NEW x \in Apis \X Kinds PROVE Balance(x)'
  BY DEF AInv
<1>3. Balance(x)
  BY DEF AInv
<1> QED
  BY <1>1, <1>2, <1>3 DEF Balance

\* The types, what a backup may have stored, which tasks are armed while one runs, and that
\* what is recorded is marked for the next backup.
THEOREM TypeCorrect == Spec => []BInv
<1>1. Init => BInv
  BY InitBInv
<1>2. BInv /\ [Next]_vars => BInv'
  BY NextBInv, StutterBInv
<1> QED
  BY <1>1, <1>2, PTL DEF Spec

\* However often backups, reports and clears fail and the process dies: what the events say of
\* calls, successes and time, with what table and memory hold, is what was recorded, less what
\* was lost in memory and more what a named failure made count again.
THEOREM BooksAreKept == Spec => []CallsAccountedFor
<1>1. Init => BInv /\ AInv
  BY InitBInv, InitAInv
<1>2. BInv /\ AInv /\ [Next]_vars => BInv' /\ AInv'
  BY NextBInv, NextAInv, StutterBInv, StutterAInv
<1>3. BInv /\ AInv => CallsAccountedFor
  BY BooksBalance
<1> QED
  BY <1>1, <1>2, <1>3, PTL DEF Spec

LEMMA NextHonest == ASSUME BInv, ReportsAreHonest, [Next]_vars PROVE ReportsAreHonest'
<1>0. Typed
  BY TypeIsTyped DEF BInv
<1>1. CASE ReportStats
  <2> DEFINE s == SetToSeq(AggregateStats(table))
  <2>1. queue' = queue \o s
    BY <1>1 DEF ReportStats
  <2>2. s \in Seq(Reports) /\ \A i \in DOMAIN s : Honest(s[i])
    BY <1>0, ReportsOfTable DEF Typed
  <2> HIDE DEF s
  <2>3. ASSUME NEW i \in DOMAIN queue' PROVE Honest(queue'[i])
    <3>0. queue \in Seq(Reports) /\ Len(queue) \in Nat /\ Len(s) \in Nat
      BY <1>0, <2>2 DEF Typed
    <3>1. CASE i \in 1..Len(queue)
      <4>1. queue'[i] = queue[i] /\ i \in DOMAIN queue
        BY <2>1, <2>2, <3>0, <3>1
      <4> QED
        BY <4>1 DEF ReportsAreHonest
    <3>2. CASE i \notin 1..Len(queue)
      <4>1. i - Len(queue) \in DOMAIN s /\ queue'[i] = s[i - Len(queue)]
        BY <2>1, <2>2, <2>3, <3>0, <3>2
      <4> QED
        BY <2>2, <4>1
    <3> QED
      BY <3>1, <3>2
  <2> QED
    BY <2>3 DEF ReportsAreHonest
<1>2. CASE WriteEvent
  <2>1. queue # <<>> /\ queue' = Tail(queue)
    BY <1>2 DEF WriteEvent
  <2>2. ASSUME NEW i \in DOMAIN queue' PROVE Honest(queue'[i])
    <3>1. i + 1 \in DOMAIN queue /\ queue'[i] = queue[i + 1]
      BY <1>0, <2>1, <2>2 DEF Typed
    <3> QED
      BY <3>1 DEF ReportsAreHonest
  <2> QED
    BY <2>2 DEF ReportsAreHonest
<1>3. CASE Crash
  <2>1. queue' = <<>>
    BY <1>3 DEF Crash
  <2> QED
    BY <2>1 DEF ReportsAreHonest
<1>4. CASE ~ReportStats /\ ~WriteEvent /\ ~Crash
  <2>1. queue' = queue
    BY <1>4 DEF Next, vars, WriteApiEndMetric, storeVars, Construct, ExecuteCallback,
                InsertApiMetricInfo, InsertFails, QueryFails, Clear, ClearFails
  <2> QED
    BY <2>1 DEF ReportsAreHonest
<1> QED
  BY <1>1, <1>2, <1>3, <1>4

\* In every event that waits to be written successes and errors agree with the calls, and the
\* time lies between as many shortest and as many longest calls.
THEOREM ReportsHonest == Spec => []ReportsAreHonest
<1>1. Init => BInv /\ ReportsAreHonest
  BY InitBInv DEF Init, ReportsAreHonest
<1>2. BInv /\ ReportsAreHonest /\ [Next]_vars => BInv' /\ ReportsAreHonest'
  BY NextBInv, StutterBInv, NextHonest
<1> QED
  BY <1>1, <1>2, PTL DEF Spec

===============================================================================

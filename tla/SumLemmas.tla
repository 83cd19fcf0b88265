----------------------------- MODULE SumLemmas -----------------------------
(***************************************************************************)
(* What the proofs need of the community modules: the smallest of a set of  *)
(* naturals, and sums over finite sets (SumFunctionOnSet of Functions).     *)
(***************************************************************************)
EXTENDS Integers, Functions, FiniteSetsExt, FiniteSetTheorems, WellFoundedInduction, TLAPS

\* Naturals have a smallest element.
LessThan == {ss \in Nat \X Nat : ss[1] < ss[2]}

\* A set of naturals that is not empty has a smallest member.
LEMMA SmallestOf ==
  ASSUME NEW T \in SUBSET Nat, T # {}
  PROVE  \E x \in T : \A y \in T : x <= y
<1>1. IsWellFoundedOn(LessThan, Nat)
      BY NatLessThanWellFounded DEF OpToRel, LessThan
<1>2. PICK x \in T : \A y \in T : <<y, x>> \notin LessThan
      BY <1>1, WFMin
<1>3. ASSUME NEW y \in T PROVE x <= y
  <2>1. <<y, x>> \in Nat \X Nat => (<<y, x>> \in LessThan <=> y < x)
        BY DEF LessThan
  <2> QED BY <1>2, <2>1
<1> QED BY <1>3

\* It is what Min chooses.
LEMMA MinIn ==
  ASSUME NEW T \in SUBSET Nat, T # {}
  PROVE  Min(T) \in T
BY SmallestOf DEF Min

\* A set of subsets of a finite set that is not empty has a smallest member.
LEMMA SmallestSubset ==
  ASSUME NEW S, IsFiniteSet(S), NEW B, B # {}, \A s \in B : s \subseteq S
  PROVE  \E s \in B : \A t \in B : t \subseteq s => t = s
<1>1. \A s \in B : IsFiniteSet(s) /\ Cardinality(s) \in Nat
      BY FS_Subset, FS_CardinalityType
<1>2. PICK n \in {Cardinality(s) : s \in B} : \A m \in {Cardinality(s) : s \in B} : n <= m
  <2>1. {Cardinality(s) : s \in B} \in SUBSET Nat /\ {Cardinality(s) : s \in B} # {}
        BY <1>1
  <2> QED BY <2>1, SmallestOf
<1>3. PICK s \in B : Cardinality(s) = n
      OBVIOUS
<1>4. ASSUME NEW t \in B, t \subseteq s, t # s PROVE FALSE
  <2>1. Cardinality(t) < Cardinality(s)
        BY <1>1, <1>4, FS_Subset
  <2>2. n <= Cardinality(t)
        BY <1>2
  <2> QED BY <1>1, <1>3, <2>1, <2>2
<1> QED BY <1>4

\* The recursion of SumFunctionOnSet, over the sets of D: it takes an element,
\* whichever it is.
Some(s) == CHOOSE x \in s : TRUE

Recursion(f, D, g) ==
  g = [s \in D |-> IF s = {} THEN 0 ELSE f[Some(s)] + g[s \ {Some(s)}]]

Iterated(f, S) == CHOOSE g : Recursion(f, SUBSET S, g)

\* The sum over a set is that of the recursion.
LEMMA SumIs ==
  ASSUME NEW f, NEW S
  PROVE  SumFunctionOnSet(f, S) = Iterated(f, S)[S]
BY DEF SumFunctionOnSet, FoldFunctionOnSet, MapThenFoldSet, Iterated, Recursion, Some

Upto(S, n) == {s \in SUBSET S : Cardinality(s) <= n}

\* It defines a function over the subsets of a finite set.
LEMMA RecursionUpto ==
  ASSUME NEW f, NEW S, IsFiniteSet(S), NEW n \in Nat
  PROVE  \E g : Recursion(f, Upto(S, n), g)
<1> DEFINE Bad == {m \in Nat : ~ \E g : Recursion(f, Upto(S, m), g)}
<1>0. \A s \in SUBSET S : IsFiniteSet(s) /\ Cardinality(s) \in Nat
                          /\ (Cardinality(s) = 0 <=> s = {})
      BY FS_Subset, FS_CardinalityType, FS_EmptySet
<1>1. ASSUME Bad # {} PROVE FALSE
  <2>1. PICK m \in Bad : \A k \in Bad : m <= k
        BY <1>1, SmallestOf
  <2>2. CASE m = 0
    <3> DEFINE g == [s \in Upto(S, 0) |-> 0]
    <3>1. \A s \in Upto(S, 0) : s = {}
          BY <1>0 DEF Upto
    <3>2. g = [s \in Upto(S, 0) |-> IF s = {} THEN 0 ELSE f[Some(s)] + g[s \ {Some(s)}]]
          BY <3>1
    <3> QED BY <2>2, <3>2 DEF Recursion
  <2>3. CASE m # 0
    <3>1. m - 1 \in Nat /\ m - 1 \notin Bad
          BY <2>1, <2>3
    <3>2. PICK h : Recursion(f, Upto(S, m - 1), h)
          BY <3>1
    <3> DEFINE g == [s \in Upto(S, m) |->
                       IF s = {} THEN 0 ELSE f[Some(s)] + h[s \ {Some(s)}]]
    <3>3. \A s \in Upto(S, m - 1) : g[s] = h[s]
      <4>1. Upto(S, m - 1) \subseteq Upto(S, m)
            BY <1>0 DEF Upto
      <4>2. \A s \in Upto(S, m - 1) :
              h[s] = IF s = {} THEN 0 ELSE f[Some(s)] + h[s \ {Some(s)}]
            BY <3>2 DEF Recursion
      <4> QED BY <4>1, <4>2
    <3>4. \A s \in Upto(S, m) : s # {} => s \ {Some(s)} \in Upto(S, m - 1)
      <4> SUFFICES ASSUME NEW s \in Upto(S, m), s # {}
                   PROVE  s \ {Some(s)} \in Upto(S, m - 1)
          OBVIOUS
      <4>1. Some(s) \in s /\ s \in SUBSET S
            BY DEF Some, Upto
      <4>2. Cardinality(s \ {Some(s)}) = Cardinality(s) - 1
            BY <1>0, <4>1, FS_RemoveElement
      <4> QED BY <1>0, <4>1, <4>2 DEF Upto
    <3>5. g = [s \in Upto(S, m) |-> IF s = {} THEN 0 ELSE f[Some(s)] + g[s \ {Some(s)}]]
      <4>1. \A s \in Upto(S, m) : g[s] = IF s = {} THEN 0 ELSE f[Some(s)] + g[s \ {Some(s)}]
            BY <3>3, <3>4
      <4> HIDE DEF g
      <4>2. g = [s \in Upto(S, m) |-> g[s]]
            BY DEF g
      <4> QED BY <4>1, <4>2
    <3> QED BY <3>5 DEF Recursion
  <2> QED BY <2>2, <2>3
<1> QED BY <1>1

\* The recursion has a solution on the subsets of a finite set.
LEMMA RecursionDefined ==
  ASSUME NEW f, NEW S, IsFiniteSet(S)
  PROVE  Recursion(f, SUBSET S, Iterated(f, S))
<1>1. Cardinality(S) \in Nat
      BY FS_CardinalityType
<1>2. Upto(S, Cardinality(S)) = SUBSET S
      BY FS_Subset DEF Upto
<1>3. PICK g : Recursion(f, Upto(S, Cardinality(S)), g)
      BY <1>1, RecursionUpto
<1> QED BY <1>2, <1>3 DEF Iterated

\* One step of the recursion.
LEMMA RecursionStep ==
  ASSUME NEW f, NEW S, NEW g, Recursion(f, SUBSET S, g), NEW s, s \subseteq S
  PROVE  g[s] = IF s = {} THEN 0 ELSE f[Some(s)] + g[s \ {Some(s)}]
BY DEF Recursion

\* Two sums over the same set agree when what they add does.
LEMMA RecursionsAgree ==
  ASSUME NEW f, NEW e, NEW S, NEW T, NEW U, IsFiniteSet(S), IsFiniteSet(T),
         U \subseteq S, U \subseteq T, \A x \in U : f[x] = e[x]
  PROVE  Iterated(f, S)[U] = Iterated(e, T)[U]
<1>a. PICK g, h : g = Iterated(f, S) /\ h = Iterated(e, T)
      OBVIOUS
<1>b. Recursion(f, SUBSET S, g) /\ Recursion(e, SUBSET T, h)
      BY <1>a, RecursionDefined
<1> SUFFICES g[U] = h[U]
    BY <1>a
<1> DEFINE Bad == {s \in SUBSET U : g[s] # h[s]}
<1>1. ASSUME Bad # {} PROVE FALSE
  <2>1. IsFiniteSet(U) /\ \A s \in Bad : s \subseteq U
        BY FS_Subset
  <2>2. PICK s \in Bad : \A t \in Bad : t \subseteq s => t = s
    <3> HIDE DEF Bad
    <3> QED BY <1>1, <2>1, SmallestSubset
  <2>3. s \subseteq S /\ s \subseteq T
        OBVIOUS
  <2>4. /\ g[s] = IF s = {} THEN 0 ELSE f[Some(s)] + g[s \ {Some(s)}]
        /\ h[s] = IF s = {} THEN 0 ELSE e[Some(s)] + h[s \ {Some(s)}]
    <3> HIDE DEF Bad
    <3> QED BY <1>b, <2>3 DEF Recursion
  <2>5. s # {}
        BY <2>4
  <2>6. Some(s) \in s
        BY <2>5 DEF Some
  <2>7. s \ {Some(s)} \in SUBSET U /\ s \ {Some(s)} # s /\ s \ {Some(s)} \subseteq s
        BY <2>6
  <2>8. g[s \ {Some(s)}] = h[s \ {Some(s)}]
        BY <2>2, <2>7
  <2>9. f[Some(s)] = e[Some(s)]
        BY <2>6
  <2> QED BY <2>4, <2>5, <2>8, <2>9
<1> QED BY <1>1

-----------------------------------------------------------------------------
(* What sums of naturals over finite sets obey.                            *)

\* Functions that agree on the set have the same sum.
LEMMA SumAgrees ==
  ASSUME NEW f, NEW e, NEW S, IsFiniteSet(S), \A x \in S : f[x] = e[x]
  PROVE  SumFunctionOnSet(f, S) = SumFunctionOnSet(e, S)
<1>1. S \subseteq S
      OBVIOUS
<1>2. Iterated(f, S)[S] = Iterated(e, S)[S]
      BY <1>1, RecursionsAgree
<1> QED BY <1>2, SumIs

\* The sum over no element.
LEMMA SumEmpty == ASSUME NEW f PROVE SumFunctionOnSet(f, {}) = 0
<1>1. Recursion(f, SUBSET {}, Iterated(f, {}))
      BY RecursionDefined, FS_EmptySet
<1>2. Iterated(f, {})[{}] = 0
      BY <1>1, RecursionStep
<1> QED BY <1>2, SumIs

\* The sum over a set, and over the set without the element the recursion takes.
LEMMA SumSome ==
  ASSUME NEW f, NEW S, IsFiniteSet(S), S # {}
  PROVE  SumFunctionOnSet(f, S) = f[Some(S)] + SumFunctionOnSet(f, S \ {Some(S)})
<1> DEFINE T == S \ {Some(S)}
<1>1. IsFiniteSet(T)
      BY FS_Subset
<1>2. Recursion(f, SUBSET S, Iterated(f, S)) /\ Recursion(f, SUBSET T, Iterated(f, T))
      BY <1>1, RecursionDefined
<1>3. SumFunctionOnSet(f, S) = Iterated(f, S)[S] /\ SumFunctionOnSet(f, T) = Iterated(f, T)[T]
      BY SumIs
<1>4. Iterated(f, S)[S] = f[Some(S)] + Iterated(f, S)[T]
      BY <1>2, RecursionStep
<1>5. Iterated(f, S)[T] = Iterated(f, T)[T]
  <2>1. T \subseteq S
        OBVIOUS
  <2> HIDE DEF T
  <2> QED BY <1>1, <2>1, RecursionsAgree
<1> QED BY <1>3, <1>4, <1>5

\* A sum of naturals is one.
LEMMA SumIsNat ==
  ASSUME NEW f, NEW S, IsFiniteSet(S), \A x \in S : f[x] \in Nat
  PROVE  SumFunctionOnSet(f, S) \in Nat
<1> DEFINE Bad == {s \in SUBSET S : SumFunctionOnSet(f, s) \notin Nat}
<1>1. ASSUME Bad # {} PROVE FALSE
  <2>0. \A s \in Bad : s \subseteq S
        OBVIOUS
  <2>1. PICK s \in Bad : \A t \in Bad : t \subseteq s => t = s
    <3> HIDE DEF Bad
    <3> QED BY <1>1, <2>0, SmallestSubset
  <2>2. s # {}
        BY SumEmpty
  <2>3. IsFiniteSet(s) /\ Some(s) \in s
        BY <2>2, FS_Subset DEF Some
  <2>4. SumFunctionOnSet(f, s) = f[Some(s)] + SumFunctionOnSet(f, s \ {Some(s)})
        BY <2>2, <2>3, SumSome
  <2>5. SumFunctionOnSet(f, s \ {Some(s)}) \in Nat
        BY <2>1, <2>3
  <2>6. f[Some(s)] \in Nat
        BY <2>3
  <2> QED BY <2>4, <2>5, <2>6
<1> QED BY <1>1

\* An element more adds its value.
LEMMA SumWithout ==
  ASSUME NEW f, NEW S, IsFiniteSet(S), \A x \in S : f[x] \in Nat, NEW x \in S
  PROVE  SumFunctionOnSet(f, S) = f[x] + SumFunctionOnSet(f, S \ {x})
<1> DEFINE Bad == {s \in SUBSET S : \E y \in s :
                     SumFunctionOnSet(f, s) # f[y] + SumFunctionOnSet(f, s \ {y})}
<1>1. ASSUME Bad # {} PROVE FALSE
  <2>0. \A s \in Bad : s \subseteq S
        OBVIOUS
  <2>1. PICK s \in Bad : \A t \in Bad : t \subseteq s => t = s
    <3> HIDE DEF Bad
    <3> QED BY <1>1, <2>0, SmallestSubset
  <2>2. PICK y \in s : SumFunctionOnSet(f, s) # f[y] + SumFunctionOnSet(f, s \ {y})
        OBVIOUS
  <2> DEFINE c == Some(s)
  <2>3. IsFiniteSet(s) /\ c \in s /\ s \subseteq S
        BY FS_Subset DEF Some
  <2>4. SumFunctionOnSet(f, s) = f[c] + SumFunctionOnSet(f, s \ {c})
        BY <2>3, SumSome
  <2> HIDE DEF c
  <2>5. y # c
        BY <2>2, <2>4
  <2>a. \A z \in s : s \ {z} \notin Bad
        BY <2>1
  <2>b. \A z \in s : \A w \in s \ {z} :
          SumFunctionOnSet(f, s \ {z}) = f[w] + SumFunctionOnSet(f, (s \ {z}) \ {w})
        BY <2>3, <2>a
  <2> HIDE DEF Bad
  <2>6. SumFunctionOnSet(f, s \ {c}) = f[y] + SumFunctionOnSet(f, (s \ {c}) \ {y})
        BY <2>3, <2>5, <2>b
  <2>7. SumFunctionOnSet(f, s \ {y}) = f[c] + SumFunctionOnSet(f, (s \ {y}) \ {c})
        BY <2>3, <2>5, <2>b
  <2>8. (s \ {c}) \ {y} = (s \ {y}) \ {c}
        OBVIOUS
  <2>9. SumFunctionOnSet(f, (s \ {c}) \ {y}) \in Nat
    <3>1. IsFiniteSet((s \ {c}) \ {y}) /\ \A z \in (s \ {c}) \ {y} : f[z] \in Nat
          BY <2>3, FS_Subset
    <3> QED BY <3>1, SumIsNat
  <2>10. f[c] \in Nat /\ f[y] \in Nat
         BY <2>3
  <2> QED BY <2>2, <2>4, <2>6, <2>7, <2>8, <2>9, <2>10
<1> QED BY <1>1

\* A part is worth no more than the whole.
LEMMA SumOfPart ==
  ASSUME NEW f, NEW S, IsFiniteSet(S), \A x \in S : f[x] \in Nat, NEW P \in SUBSET S
  PROVE  SumFunctionOnSet(f, P) <= SumFunctionOnSet(f, S)
<1> DEFINE Bad == {s \in SUBSET S : P \subseteq s /\ ~(SumFunctionOnSet(f, P) <= SumFunctionOnSet(f, s))}
<1>0. \A s \in SUBSET S : SumFunctionOnSet(f, s) \in Nat
  <2> SUFFICES ASSUME NEW s \in SUBSET S PROVE SumFunctionOnSet(f, s) \in Nat
      OBVIOUS
  <2>1. IsFiniteSet(s)
        BY FS_Subset
  <2> QED BY <2>1, SumIsNat
<1>1. ASSUME Bad # {} PROVE FALSE
  <2>0. \A s \in Bad : s \subseteq S
        OBVIOUS
  <2>1. PICK s \in Bad : \A t \in Bad : t \subseteq s => t = s
    <3> HIDE DEF Bad
    <3> QED BY <1>1, <2>0, SmallestSubset
  <2>2. s # P
        BY <1>0
  <2>3. PICK x \in s : x \notin P
        BY <2>2
  <2>4. IsFiniteSet(s) /\ s \subseteq S /\ s \ {x} \in SUBSET S /\ f[x] \in Nat
        BY FS_Subset
  <2>5. SumFunctionOnSet(f, s) = f[x] + SumFunctionOnSet(f, s \ {x})
        BY <2>4, SumWithout
  <2>6. SumFunctionOnSet(f, P) <= SumFunctionOnSet(f, s \ {x})
        BY <2>1, <2>3, <2>4
  <2> QED BY <1>0, <2>4, <2>5, <2>6
<1> QED BY <1>1

\* A function on a finite set that is not empty is greatest somewhere.
LEMMA GreatestAt ==
  ASSUME NEW f, NEW S, IsFiniteSet(S), S # {}, \A x \in S : f[x] \in Nat
  PROVE  \E x \in S : \A y \in S : f[y] <= f[x]
<1> DEFINE Bad == {s \in SUBSET S : s # {} /\ ~ \E x \in s : \A y \in s : f[y] <= f[x]}
<1>1. ASSUME Bad # {} PROVE FALSE
  <2>0. \A s \in Bad : s \subseteq S
        OBVIOUS
  <2>1. PICK s \in Bad : \A t \in Bad : t \subseteq s => t = s
    <3> HIDE DEF Bad
    <3> QED BY <1>1, <2>0, SmallestSubset
  <2>2. PICK x \in s : TRUE
        OBVIOUS
  <2>3. CASE s = {x}
    <3>1. \A y \in s : f[y] <= f[x]
          BY <2>3
    <3> QED BY <3>1
  <2>4. CASE s # {x}
    <3>1. s \ {x} \in SUBSET S /\ s \ {x} # {} /\ s \ {x} \notin Bad
          BY <2>1, <2>2, <2>4
    <3>2. PICK z \in s \ {x} : \A y \in s \ {x} : f[y] <= f[z]
          BY <3>1
    <3>3. f[x] \in Nat /\ f[z] \in Nat /\ \A y \in s : f[y] \in Nat
          OBVIOUS
    <3>4. CASE f[x] <= f[z]
      <4>1. \A y \in s : f[y] <= f[z]
            BY <3>2, <3>4
      <4> QED BY <4>1
    <3>5. CASE ~(f[x] <= f[z])
      <4>1. \A y \in s : f[y] <= f[x]
            BY <3>2, <3>3, <3>5
      <4> QED BY <4>1
    <3> QED BY <3>4, <3>5
  <2> QED BY <2>3, <2>4
<1>2. S \notin Bad
      BY <1>1
<1> QED BY <1>2

\* It does not matter whether values are added by index or by what the index stands for.
LEMMA SumReindexed ==
  ASSUME NEW f, NEW S, IsFiniteSet(S), \A x \in S : f[x] \in Nat,
         NEW D, IsFiniteSet(D), NEW s \in [D -> S],
         \A i, j \in D : s[i] = s[j] => i = j
  PROVE  SumFunctionOnSet([i \in D |-> f[s[i]]], D) = SumFunctionOnSet(f, {s[i] : i \in D})
<1> DEFINE g == [i \in D |-> f[s[i]]]
           Image(E) == {s[i] : i \in E}
           Bad == {E \in SUBSET D : SumFunctionOnSet(g, E) # SumFunctionOnSet(f, Image(E))}
<1>1. ASSUME Bad # {} PROVE FALSE
  <2>0. \A E \in Bad : E \subseteq D
        OBVIOUS
  <2>1. PICK E \in Bad : \A t \in Bad : t \subseteq E => t = E
    <3> HIDE DEF Bad
    <3> QED BY <1>1, <2>0, SmallestSubset
  <2>2. E \in SUBSET D /\ SumFunctionOnSet(g, E) # SumFunctionOnSet(f, Image(E))
        BY <2>1
  <2>3. E # {}
    <3>1. SUFFICES ASSUME E = {} PROVE FALSE
          OBVIOUS
    <3>2. Image(E) = {}
          BY <3>1
    <3>3. SumFunctionOnSet(g, {}) = 0 /\ SumFunctionOnSet(f, {}) = 0
          BY SumEmpty
    <3> HIDE DEF g, Image
    <3> QED BY <2>2, <3>1, <3>2, <3>3
  <2>4. PICK x \in E : TRUE
        BY <2>3
  <2>5. E \ {x} \in SUBSET D /\ E \ {x} \notin Bad
        BY <2>1, <2>2, <2>4
  <2>6. SumFunctionOnSet(g, E \ {x}) = SumFunctionOnSet(f, Image(E \ {x}))
        BY <2>5
  <2>7. Image(E \ {x}) = Image(E) \ {s[x]}
        BY <2>2, <2>4
  <2>8. IsFiniteSet(E) /\ \A i \in E : g[i] \in Nat
        BY <2>2, FS_Subset
  <2>9. SumFunctionOnSet(g, E) = g[x] + SumFunctionOnSet(g, E \ {x})
    <3> HIDE DEF g
    <3> QED BY <2>4, <2>8, SumWithout
  <2>10. Image(E) \subseteq S /\ s[x] \in Image(E) /\ g[x] = f[s[x]]
         BY <2>2, <2>4
  <2>11. IsFiniteSet(Image(E)) /\ \A y \in Image(E) : f[y] \in Nat
         BY <2>10, FS_Subset
  <2>12. SumFunctionOnSet(f, Image(E)) = f[s[x]] + SumFunctionOnSet(f, Image(E) \ {s[x]})
    <3> HIDE DEF Image
    <3> QED BY <2>10, <2>11, SumWithout
  <2> HIDE DEF g, Image
  <2> QED BY <2>2, <2>6, <2>7, <2>9, <2>10, <2>12
<1>2. D \notin Bad
      BY <1>1
<1> QED BY <1>2

\* Sums add up, value by value.
LEMMA SumAdds ==
  ASSUME NEW f, NEW e, NEW h, NEW D, IsFiniteSet(D),
         \A x \in D : e[x] \in Nat /\ h[x] \in Nat /\ f[x] = e[x] + h[x]
  PROVE  SumFunctionOnSet(f, D) = SumFunctionOnSet(e, D) + SumFunctionOnSet(h, D)
<1> DEFINE Bad == {E \in SUBSET D : SumFunctionOnSet(f, E)
                                      # SumFunctionOnSet(e, E) + SumFunctionOnSet(h, E)}
<1>1. ASSUME Bad # {} PROVE FALSE
  <2>0. \A E \in Bad : E \subseteq D
        OBVIOUS
  <2>1. PICK E \in Bad : \A t \in Bad : t \subseteq E => t = E
    <3> HIDE DEF Bad
    <3> QED BY <1>1, <2>0, SmallestSubset
  <2>2. /\ E \in SUBSET D
        /\ SumFunctionOnSet(f, E) # SumFunctionOnSet(e, E) + SumFunctionOnSet(h, E)
        BY <2>1
  <2>3. E # {}
    <3>1. SUFFICES ASSUME E = {} PROVE FALSE
          OBVIOUS
    <3>2. /\ SumFunctionOnSet(f, {}) = 0 /\ SumFunctionOnSet(e, {}) = 0
          /\ SumFunctionOnSet(h, {}) = 0
          BY SumEmpty
    <3> QED BY <2>2, <3>1, <3>2
  <2>4. PICK x \in E : TRUE
        BY <2>3
  <2> DEFINE F == E \ {x}
  <2>5. F \in SUBSET D /\ F \notin Bad
        BY <2>1, <2>2, <2>4
  <2>6. SumFunctionOnSet(f, F) = SumFunctionOnSet(e, F) + SumFunctionOnSet(h, F)
        BY <2>5
  <2>7. IsFiniteSet(E) /\ IsFiniteSet(F)
        BY <2>2, FS_Subset
  <2>8. \A y \in E : e[y] \in Nat /\ h[y] \in Nat /\ f[y] \in Nat /\ f[y] = e[y] + h[y]
        BY <2>2
  <2>9. /\ SumFunctionOnSet(f, E) = f[x] + SumFunctionOnSet(f, F)
        /\ SumFunctionOnSet(e, E) = e[x] + SumFunctionOnSet(e, F)
        /\ SumFunctionOnSet(h, E) = h[x] + SumFunctionOnSet(h, F)
        BY <2>4, <2>7, <2>8, SumWithout
  <2>10. SumFunctionOnSet(e, F) \in Nat /\ SumFunctionOnSet(h, F) \in Nat
         BY <2>7, <2>8, SumIsNat
  <2>11. e[x] \in Nat /\ h[x] \in Nat /\ f[x] = e[x] + h[x]
         BY <2>4, <2>8
  <2> QED BY <2>2, <2>6, <2>9, <2>10, <2>11
<1>2. D \notin Bad
      BY <1>1
<1> QED BY <1>2

\* Where all values but one are nothing, the sum is the one.
LEMMA SumOfOne ==
  ASSUME NEW h, NEW D, IsFiniteSet(D), NEW l \in D, h[l] \in Nat, \A x \in D \ {l} : h[x] = 0
  PROVE  SumFunctionOnSet(h, D) = h[l]
<1> DEFINE Bad == {E \in SUBSET (D \ {l}) : SumFunctionOnSet(h, E) # 0}
<1>0. \A x \in D : h[x] \in Nat
      OBVIOUS
<1>1. ASSUME Bad # {} PROVE FALSE
  <2>0. \A E \in Bad : E \subseteq D
        OBVIOUS
  <2>1. PICK E \in Bad : \A t \in Bad : t \subseteq E => t = E
    <3> HIDE DEF Bad
    <3> QED BY <1>1, <2>0, SmallestSubset
  <2>2. E \in SUBSET (D \ {l}) /\ SumFunctionOnSet(h, E) # 0 /\ E # {}
        BY <2>1, SumEmpty
  <2>3. PICK x \in E : TRUE
        BY <2>2
  <2>4. E \ {x} \in SUBSET (D \ {l}) /\ E \ {x} \notin Bad
        BY <2>1, <2>2, <2>3
  <2>5. SumFunctionOnSet(h, E \ {x}) = 0
        BY <2>4
  <2>6. IsFiniteSet(E) /\ \A y \in E : h[y] \in Nat
        BY <1>0, <2>2, FS_Subset
  <2>7. SumFunctionOnSet(h, E) = h[x] + SumFunctionOnSet(h, E \ {x})
        BY <2>3, <2>6, SumWithout
  <2>8. h[x] = 0
        BY <2>2, <2>3
  <2> QED BY <2>2, <2>5, <2>7, <2>8
<1>2. D \ {l} \notin Bad
      BY <1>1
<1>3. SumFunctionOnSet(h, D \ {l}) = 0
      BY <1>2
<1>4. SumFunctionOnSet(h, D) = h[l] + SumFunctionOnSet(h, D \ {l})
      BY <1>0, SumWithout
<1> QED BY <1>3, <1>4

\* The same value everywhere, as often as there are places.
LEMMA SumOfSame ==
  ASSUME NEW h, NEW D, IsFiniteSet(D), NEW l \in D, h[l] \in Nat, \A x \in D : h[x] = h[l]
  PROVE  SumFunctionOnSet(h, D) = h[l] * Cardinality(D)
<1> DEFINE c == h[l]
           Bad == {E \in SUBSET D : SumFunctionOnSet(h, E) # c * Cardinality(E)}
<1>1. ASSUME Bad # {} PROVE FALSE
  <2>0. \A E \in Bad : E \subseteq D
        OBVIOUS
  <2>1. PICK E \in Bad : \A t \in Bad : t \subseteq E => t = E
    <3> HIDE DEF Bad
    <3> QED BY <1>1, <2>0, SmallestSubset
  <2>2. E \in SUBSET D /\ SumFunctionOnSet(h, E) # c * Cardinality(E)
        BY <2>1
  <2>3. E # {}
    <3>1. SUFFICES ASSUME E = {} PROVE FALSE
          OBVIOUS
    <3>2. SumFunctionOnSet(h, {}) = 0 /\ Cardinality({}) = 0 /\ c * 0 = 0
          BY SumEmpty, FS_EmptySet
    <3> QED BY <2>2, <3>1, <3>2
  <2>4. PICK x \in E : TRUE
        BY <2>3
  <2> DEFINE F == E \ {x}
  <2>5. F \in SUBSET D /\ F \notin Bad
        BY <2>1, <2>2, <2>4
  <2>6. SumFunctionOnSet(h, F) = c * Cardinality(F)
        BY <2>5
  <2>7. IsFiniteSet(E) /\ \A y \in E : h[y] \in Nat
        BY <2>2, FS_Subset
  <2>8. SumFunctionOnSet(h, E) = h[x] + SumFunctionOnSet(h, F)
        BY <2>4, <2>7, SumWithout
  <2>9. IsFiniteSet(F) /\ Cardinality(F) = Cardinality(E) - 1
        BY <2>4, <2>7, FS_RemoveElement
  <2>10. Cardinality(F) \in Nat /\ Cardinality(E) \in Nat
         BY <2>7, <2>9, FS_CardinalityType
  <2>11. h[x] = c /\ c \in Nat
         BY <2>2, <2>4
  <2> DEFINE k == Cardinality(F)
  <2>12. Cardinality(E) = k + 1 /\ k \in Nat
         BY <2>9, <2>10
  <2> HIDE DEF k, c
  <2>13. c * (k + 1) = c + c * k
         BY <2>11, <2>12
  <2> QED BY <2>2, <2>6, <2>8, <2>11, <2>12, <2>13 DEF k
<1>2. D \notin Bad
      BY <1>1
<1> QED BY <1>2

\* Naturals that are finitely many can be put in order.
LEMMA SortedExists ==
  ASSUME NEW S \in SUBSET Nat, IsFiniteSet(S)
  PROVE  \E s \in [1 .. Cardinality(S) -> S] :
           \A i, j \in 1 .. Cardinality(S) : i < j => s[i] < s[j]
<1> DEFINE Sorts(T, s) == /\ s \in [1 .. Cardinality(T) -> T]
                          /\ \A i, j \in 1 .. Cardinality(T) : i < j => s[i] < s[j]
           Bad == {T \in SUBSET S : ~ \E s : Sorts(T, s)}
<1>1. ASSUME Bad # {} PROVE FALSE
  <2>0. \A T \in Bad : T \subseteq S
        OBVIOUS
  <2>1. PICK T \in Bad : \A t \in Bad : t \subseteq T => t = T
    <3> HIDE DEF Bad
    <3> QED BY <1>1, <2>0, SmallestSubset
  <2>2. T \in SUBSET S /\ IsFiniteSet(T) /\ Cardinality(T) \in Nat
        BY <2>1, FS_Subset, FS_CardinalityType
  <2>3. T # {}
    <3>1. SUFFICES ASSUME T = {} PROVE FALSE
          OBVIOUS
    <3>2. Cardinality(T) = 0
          BY <3>1, FS_EmptySet
    <3>3. 1 .. 0 = {}
          OBVIOUS
    <3>4. Sorts(T, [i \in {} |-> i])
          BY <3>2, <3>3
    <3> QED BY <2>1, <3>4
  <2>4. PICK m \in T : \A y \in T : m <= y
        BY <2>2, <2>3, SmallestOf
  <2> DEFINE U == T \ {m}
             n == Cardinality(U)
  <2>5. U \in SUBSET S /\ U \notin Bad
        BY <2>1, <2>2, <2>4
  <2>a. IsFiniteSet(U) /\ Cardinality(U) = Cardinality(T) - 1
        BY <2>2, <2>4, FS_RemoveElement
  <2>b. Cardinality(U) \in Nat
        BY <2>a, FS_CardinalityType
  <2>6. n \in Nat /\ Cardinality(T) = n + 1
        BY <2>2, <2>a, <2>b
  <2>7. PICK u : Sorts(U, u)
        BY <2>5
  <2> DEFINE s == [i \in 1 .. (n + 1) |-> IF i = 1 THEN m ELSE u[i - 1]]
  <2>8. u \in [1 .. n -> U] /\ \A i, j \in 1 .. n : i < j => u[i] < u[j]
        BY <2>7
  <2> HIDE DEF n
  <2>9. \A i \in 1 .. (n + 1) : i # 1 => i - 1 \in 1 .. n /\ u[i - 1] \in U
        BY <2>6, <2>8
  <2>10. s \in [1 .. (n + 1) -> T]
         BY <2>4, <2>9
  <2>11. \A i, j \in 1 .. (n + 1) : i < j => s[i] < s[j]
    <3> SUFFICES ASSUME NEW i \in 1 .. (n + 1), NEW j \in 1 .. (n + 1), i < j
                 PROVE  s[i] < s[j]
        OBVIOUS
    <3>1. j # 1 /\ s[j] = u[j - 1] /\ u[j - 1] \in U /\ j - 1 \in 1 .. n
          BY <2>6, <2>9
    <3>2. CASE i = 1
      <4>1. m <= u[j - 1] /\ m # u[j - 1]
            BY <2>4, <3>1
      <4>2. m \in Nat /\ u[j - 1] \in Nat
            BY <2>2, <2>4, <3>1
      <4> QED BY <3>1, <3>2, <4>1, <4>2
    <3>3. CASE i # 1
      <4>1. s[i] = u[i - 1] /\ i - 1 \in 1 .. n /\ i - 1 < j - 1
            BY <2>6, <2>9, <3>3
      <4> HIDE DEF s
      <4> QED BY <2>8, <3>1, <4>1
    <3> QED BY <3>2, <3>3
  <2>12. Sorts(T, s)
         BY <2>6, <2>10, <2>11
  <2> QED BY <2>1, <2>12
<1>2. S \notin Bad
      BY <1>1
<1> QED BY <1>2
=============================================================================

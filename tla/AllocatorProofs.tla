---------------------------- MODULE AllocatorProofs ----------------------------
(***************************************************************************)
(* For any buffers of any lengths: the list, the multimap and the totals of  *)
(* BufferCache agree at every step, and it implements FreeList.  For any     *)
(* number of threads and buffers: every buffer of MetalAllocator is in one   *)
(* place, the allocator implements Lender, the residency set is exact, the   *)
(* number of resources is bounded, the accounts are exact and the limits are *)
(* kept.                                                                     *)
(*                                                                         *)
(* The first part is about sums over finite sets, the folds by which the     *)
(* community modules define them, and lists of buffers.  Induction over a    *)
(* set is by a smallest counterexample (Minimal): a fold takes the elements  *)
(* in the order of a choice function, and the result does not depend on it.  *)
(***************************************************************************)
EXTENDS BufferCache, MetalAllocator, FiniteSetTheorems, SequenceTheorems, TLAPS

(* g is the sum of the weights w over each subset of S.                      *)
SumsUp(g, S, w) ==
  /\ g \in [SUBSET S -> Nat]
  /\ g[{}] = 0
  /\ \A r \in SUBSET S : \A x \in r : g[r] = w[x] + g[r \ {x}]

(* g is the fold over each subset of S that takes element c[r] of r first.   *)
Folded(g, S, w, c) ==
  g = [r \in SUBSET S |-> IF r = {} THEN 0 ELSE w[c[r]] + g[r \ {c[r]}]]

Chooses(c, S) == \A r \in SUBSET S : r # {} => c[r] \in r
Weighs(w, S) == \A x \in S : w[x] \in Nat

(* A set of subsets of a finite set has a minimal element.                   *)
LEMMA Minimal ==
  ASSUME NEW S, IsFiniteSet(S), NEW T, T \subseteq SUBSET S, T # {}
  PROVE  \E x \in T : \A y \in T : y \subseteq x => y = x
  <1>1. FiniteSubsetsOf(S) = SUBSET S
    BY FS_FiniteSubsetsOfFinite
  <1>2. IsWellFoundedOn(StrictSubsetOrdering(S), SUBSET S)
    BY <1>1, FS_StrictSubsetOrderingWellFounded
  <1>3. PICK x \in T : \A y \in T : ~ (<<y, x>> \in StrictSubsetOrdering(S))
    BY <1>2, WFMin
  <1>4. ASSUME NEW y \in T, y \subseteq x, y # x
        PROVE  FALSE
    <2>1. <<y, x>> \in StrictSubsetOrdering(S)
      BY <1>4 DEF StrictSubsetOrdering
    <2> QED
      BY <1>3, <2>1
  <1> QED
    BY <1>4

(* Folded over two sets agree on the subsets of both.                         *)
LEMMA FoldUnique ==
  ASSUME NEW S, IsFiniteSet(S), NEW T \in SUBSET S, NEW w, NEW c, Chooses(c, S),
         NEW g, Folded(g, S, w, c), NEW h, Folded(h, T, w, c)
  PROVE  \A r \in SUBSET T : g[r] = h[r]
  <1> SUFFICES ASSUME NEW q \in SUBSET T, g[q] # h[q]
               PROVE  FALSE
    OBVIOUS
  <1>1. PICK B : B = {r \in SUBSET T : g[r] # h[r]}
    OBVIOUS
  <1>2. B # {} /\ B \subseteq SUBSET S
    BY <1>1
  <1>3. PICK r \in B : \A y \in B : y \subseteq r => y = r
    BY <1>2, Minimal
  <1>4. r \in SUBSET T /\ r \in SUBSET S /\ g[r] # h[r]
    BY <1>1
  <1>5. /\ g[r] = IF r = {} THEN 0 ELSE w[c[r]] + g[r \ {c[r]}]
        /\ h[r] = IF r = {} THEN 0 ELSE w[c[r]] + h[r \ {c[r]}]
    BY <1>4 DEF Folded
  <1>6. r # {}
    BY <1>4, <1>5
  <1>7. c[r] \in r
    BY <1>4, <1>6 DEF Chooses
  <1>8. r \ {c[r]} \in SUBSET T /\ r \ {c[r]} \subseteq r /\ r \ {c[r]} # r
    BY <1>4, <1>7
  <1>9. r \ {c[r]} \notin B
    BY <1>3, <1>8
  <1>10. g[r \ {c[r]}] = h[r \ {c[r]}]
    BY <1>1, <1>8, <1>9
  <1> QED
    BY <1>4, <1>5, <1>6, <1>10

LEMMA FoldExists ==
  ASSUME NEW S, IsFiniteSet(S), NEW w, NEW c, Chooses(c, S)
  PROVE  \E g : Folded(g, S, w, c)
  <1> SUFFICES ASSUME ~ \E g : Folded(g, S, w, c)
               PROVE  FALSE
    OBVIOUS
  <1>1. PICK B : B = {r \in SUBSET S : ~ \E g : Folded(g, r, w, c)}
    OBVIOUS
  <1>2. S \in B /\ B \subseteq SUBSET S
    BY <1>1
  <1>3. PICK s \in B : \A y \in B : y \subseteq s => y = s
    BY <1>2, Minimal
  <1>4. s \in SUBSET S /\ ~ \E g : Folded(g, s, w, c)
    BY <1>1
  <1>5. PICK f : f = [t \in SUBSET s |-> CHOOSE g : Folded(g, t, w, c)]
    OBVIOUS
  <1>6. ASSUME NEW t \in SUBSET s, t # s
        PROVE  Folded(f[t], t, w, c)
    <2>1. t \notin B /\ t \in SUBSET S
      BY <1>3, <1>4, <1>6
    <2>2. \E g : Folded(g, t, w, c)
      BY <1>1, <2>1
    <2>3. f[t] = CHOOSE g : Folded(g, t, w, c)
      BY <1>5
    <2> QED
      BY <2>2, <2>3
  <1>7. PICK h : h = [r \in SUBSET s |-> IF r = {} THEN 0 ELSE w[c[r]] + f[r \ {c[r]}][r \ {c[r]}]]
    OBVIOUS
  <1>8. ASSUME NEW r \in SUBSET s, r # {}
        PROVE  f[r \ {c[r]}][r \ {c[r]}] = h[r \ {c[r]}]
    <2>1. PICK t : t = r \ {c[r]}
      OBVIOUS
    <2>2. r \in SUBSET S /\ c[r] \in r
      BY <1>4, <1>8 DEF Chooses
    <2>3. t \in SUBSET s /\ t # s /\ t \in SUBSET S
      BY <1>4, <2>1, <2>2
    <2>4. Folded(f[t], t, w, c)
      BY <1>6, <2>3
    <2>5. f[t][t] = IF t = {} THEN 0 ELSE w[c[t]] + f[t][t \ {c[t]}]
      BY <2>4 DEF Folded
    <2>6. h[t] = IF t = {} THEN 0 ELSE w[c[t]] + f[t \ {c[t]}][t \ {c[t]}]
      BY <1>7, <2>3
    <2>7. CASE t = {}
      BY <2>1, <2>5, <2>6, <2>7
    <2>8. CASE t # {}
      <3>1. PICK u : u = t \ {c[t]}
        OBVIOUS
      <3>2. c[t] \in t
        BY <2>3, <2>8 DEF Chooses
      <3>3. u \in SUBSET t /\ u \in SUBSET s /\ u # s
        BY <2>3, <3>1, <3>2
      <3>4. Folded(f[u], u, w, c)
        BY <1>6, <3>3
      <3>5. IsFiniteSet(t) /\ Chooses(c, t)
        BY <2>3, FS_Subset DEF Chooses
      <3>6. PICK k, l : k = f[t] /\ l = f[u]
        OBVIOUS
      <3>9. Folded(k, t, w, c) /\ Folded(l, u, w, c)
        BY <2>4, <3>4, <3>6
      <3>10. \A q \in SUBSET u : k[q] = l[q]
        BY <3>3, <3>5, <3>9, FoldUnique
      <3>7. f[t][u] = f[u][u]
        BY <3>6, <3>10
      <3> QED
        BY <2>1, <2>5, <2>6, <2>8, <3>1, <3>7
    <2> QED
      BY <2>7, <2>8
  <1>9. h = [r \in SUBSET s |-> IF r = {} THEN 0 ELSE w[c[r]] + h[r \ {c[r]}]]
    BY <1>7, <1>8
  <1> QED
    BY <1>4, <1>9 DEF Folded

(* The order of the elements does not matter.                                *)
LEMMA FoldSumsUp ==
  ASSUME NEW S, IsFiniteSet(S), NEW w, Weighs(w, S), NEW c, Chooses(c, S), NEW g, Folded(g, S, w, c)
  PROVE  SumsUp(g, S, w)
  <1>0. /\ g[{}] = 0
        /\ \A r \in SUBSET S : r # {} => c[r] \in r /\ g[r] = w[c[r]] + g[r \ {c[r]}]
    BY DEF Folded, Chooses
  <1>1. \A r \in SUBSET S : g[r] \in Nat
    <2> SUFFICES ASSUME NEW q \in SUBSET S, g[q] \notin Nat
                 PROVE  FALSE
      OBVIOUS
    <2>1. PICK B : B = {r \in SUBSET S : g[r] \notin Nat}
      OBVIOUS
    <2>2. B # {} /\ B \subseteq SUBSET S
      BY <2>1
    <2>3. PICK r \in B : \A y \in B : y \subseteq r => y = r
      BY <2>2, Minimal
    <2>4. r \in SUBSET S /\ g[r] \notin Nat
      BY <2>1
    <2>5. r # {}
      <3>1. SUFFICES ASSUME r = {} PROVE FALSE
        OBVIOUS
      <3>2. g[r] = 0
        BY <1>0, <3>1
      <3> QED
        BY <2>4, <3>2
    <2>6. c[r] \in r /\ g[r] = w[c[r]] + g[r \ {c[r]}]
      BY <1>0, <2>4, <2>5
    <2>7. r \ {c[r]} \in SUBSET S /\ r \ {c[r]} \subseteq r /\ r \ {c[r]} # r
      BY <2>4, <2>6
    <2>8. g[r \ {c[r]}] \in Nat
      BY <2>1, <2>3, <2>7
    <2>9. w[c[r]] \in Nat
      BY <2>4, <2>6 DEF Weighs
    <2> QED
      BY <2>4, <2>6, <2>8, <2>9
  <1>2. \A r \in SUBSET S : \A x \in r : g[r] = w[x] + g[r \ {x}]
    <2> SUFFICES ASSUME NEW q \in SUBSET S, NEW z \in q, g[q] # w[z] + g[q \ {z}]
                 PROVE  FALSE
      OBVIOUS
    <2>1. PICK B : B = {r \in SUBSET S : \E x \in r : g[r] # w[x] + g[r \ {x}]}
      OBVIOUS
    <2>2. B # {} /\ B \subseteq SUBSET S
      BY <2>1
    <2>3. PICK r \in B : \A y \in B : y \subseteq r => y = r
      BY <2>2, Minimal
    <2>4. r \in SUBSET S
      BY <2>1
    <2>5. PICK x \in r : g[r] # w[x] + g[r \ {x}]
      BY <2>1
    <2>6. PICK y : y = c[r]
      OBVIOUS
    <2>7. y \in r /\ g[r] = w[y] + g[r \ {y}]
      BY <1>0, <2>4, <2>5, <2>6
    <2>8. x # y
      BY <2>5, <2>7
    <2>14. /\ r \ {x} \in SUBSET S /\ r \ {x} \subseteq r /\ r \ {x} # r
           /\ r \ {y} \in SUBSET S /\ r \ {y} \subseteq r /\ r \ {y} # r
      BY <2>4, <2>5, <2>7
    <2>9. r \ {y} \notin B /\ r \ {x} \notin B /\ r \ {x} \in SUBSET S /\ r \ {y} \in SUBSET S
      BY <2>3, <2>14
    <2>10. x \in r \ {y} /\ y \in r \ {x} /\ (r \ {y}) \ {x} = (r \ {x}) \ {y} /\ (r \ {x}) \ {y} \in SUBSET S
      BY <2>4, <2>5, <2>7, <2>8
    <2>11. g[r \ {y}] = w[x] + g[(r \ {y}) \ {x}]
      BY <2>1, <2>9, <2>10
    <2>12. g[r \ {x}] = w[y] + g[(r \ {x}) \ {y}]
      BY <2>1, <2>9, <2>10
    <2>13. w[x] \in Nat /\ w[y] \in Nat /\ g[(r \ {x}) \ {y}] \in Nat
      BY <1>1, <2>4, <2>5, <2>7, <2>10 DEF Weighs
    <2>15. PICK m \in Nat : m = g[(r \ {x}) \ {y}]
      BY <2>13
    <2>16. g[r] = w[y] + (w[x] + m)
      BY <2>7, <2>10, <2>11, <2>15
    <2>17. w[x] + g[r \ {x}] = w[x] + (w[y] + m)
      BY <2>12, <2>15
    <2>18. w[y] + (w[x] + m) = w[x] + (w[y] + m)
      BY <2>13, <2>15
    <2> QED
      BY <2>5, <2>16, <2>17, <2>18
  <1>3. g \in [SUBSET S -> Nat]
    BY <1>1 DEF Folded
  <1> QED
    BY <1>0, <1>2, <1>3 DEF SumsUp

(* There is only one sum.                                                    *)
LEMMA SumUnique ==
  ASSUME NEW S, IsFiniteSet(S), NEW T \in SUBSET S, NEW w,
         NEW g, SumsUp(g, S, w), NEW h, SumsUp(h, T, w)
  PROVE  \A r \in SUBSET T : g[r] = h[r]
  <1> SUFFICES ASSUME NEW q \in SUBSET T, g[q] # h[q]
               PROVE  FALSE
    OBVIOUS
  <1>1. PICK B : B = {r \in SUBSET T : g[r] # h[r]}
    OBVIOUS
  <1>2. B # {} /\ B \subseteq SUBSET S
    BY <1>1
  <1>3. PICK r \in B : \A y \in B : y \subseteq r => y = r
    BY <1>2, Minimal
  <1>4. r \in SUBSET T /\ r \in SUBSET S /\ g[r] # h[r]
    BY <1>1
  <1>5. r # {}
    BY <1>4 DEF SumsUp
  <1>6. PICK x : x \in r
    BY <1>5
  <1>7. g[r] = w[x] + g[r \ {x}] /\ h[r] = w[x] + h[r \ {x}]
    BY <1>4, <1>6 DEF SumsUp
  <1>8. r \ {x} \in SUBSET T /\ r \ {x} \notin B
    BY <1>3, <1>4, <1>6
  <1>9. g[r \ {x}] = h[r \ {x}]
    BY <1>1, <1>8
  <1> QED
    BY <1>4, <1>7, <1>9
(* The weights w have a sum over every finite set.                           *)
LEMMA SumExists ==
  ASSUME NEW S, IsFiniteSet(S), NEW w, Weighs(w, S)
  PROVE  \E g : SumsUp(g, S, w)
  <1>1. PICK c : c = [r \in SUBSET S |-> CHOOSE x \in r : TRUE]
    OBVIOUS
  <1>2. Chooses(c, S)
    BY <1>1 DEF Chooses
  <1>3. PICK g : Folded(g, S, w, c)
    BY <1>2, FoldExists
  <1> QED
    BY <1>2, <1>3, FoldSumsUp

(* k takes c[r] out of r and adds it from either side.                       *)
Takes(k, S, w, c) ==
  /\ k[{}] = 0
  /\ \A r \in SUBSET S : r # {} =>
       \/ k[r] = w[c[r]] + k[r \ {c[r]}]
       \/ k[r] = k[r \ {c[r]}] + w[c[r]]

LEMMA SumByTaking ==
  ASSUME NEW S, IsFiniteSet(S), NEW w, Weighs(w, S), NEW c, Chooses(c, S),
         NEW g, SumsUp(g, S, w), NEW k, Takes(k, S, w, c)
  PROVE  k[S] = g[S]
  <1> SUFFICES ASSUME k[S] # g[S]
               PROVE  FALSE
    OBVIOUS
  <1>1. PICK B : B = {r \in SUBSET S : k[r] # g[r]}
    OBVIOUS
  <1>2. B # {} /\ B \subseteq SUBSET S
    BY <1>1
  <1>3. PICK r \in B : \A y \in B : y \subseteq r => y = r
    BY <1>2, Minimal
  <1>4. r \in SUBSET S /\ k[r] # g[r]
    BY <1>1
  <1>5. r # {}
    <2>1. SUFFICES ASSUME r = {} PROVE FALSE
      OBVIOUS
    <2>2. k[{}] = 0 /\ g[{}] = 0
      BY DEF Takes, SumsUp
    <2> QED
      BY <1>4, <2>1, <2>2
  <1>6. PICK x : x = c[r]
    OBVIOUS
  <1>7. x \in r
    BY <1>4, <1>5, <1>6 DEF Chooses
  <1>8. PICK q : q = r \ {x}
    OBVIOUS
  <1>9. q \in SUBSET S /\ q \subseteq r /\ q # r
    BY <1>4, <1>7, <1>8
  <1>10. k[q] = g[q]
    BY <1>1, <1>3, <1>9
  <1>11. g[r] = w[x] + g[q] /\ g[q] \in Nat /\ w[x] \in Nat
    BY <1>4, <1>7, <1>8, <1>9 DEF SumsUp, Weighs
  <1>12. k[r] = w[x] + k[q] \/ k[r] = k[q] + w[x]
    BY <1>4, <1>5, <1>6, <1>8 DEF Takes
  <1> QED
    BY <1>4, <1>10, <1>11, <1>12

(* A sum is monotone, and adds up over one element more or less.             *)
LEMMA SumAdds ==
  ASSUME NEW S, NEW w, Weighs(w, S), NEW g, SumsUp(g, S, w),
         NEW r \in SUBSET S, NEW x \in S
  PROVE  /\ g[r] \in Nat /\ g[r \cup {x}] \in Nat /\ g[r \ {x}] \in Nat /\ w[x] \in Nat
         /\ x \notin r => g[r \cup {x}] = g[r] + w[x]
         /\ x \in r => g[r \ {x}] = g[r] - w[x] /\ w[x] <= g[r]
  <1>1. r \cup {x} \in SUBSET S /\ r \ {x} \in SUBSET S
    OBVIOUS
  <1>2. g[r] \in Nat /\ g[r \cup {x}] \in Nat /\ g[r \ {x}] \in Nat /\ w[x] \in Nat
    BY <1>1 DEF SumsUp, Weighs
  <1>3. ASSUME x \notin r
        PROVE  g[r \cup {x}] = g[r] + w[x]
    <2>1. (r \cup {x}) \ {x} = r /\ x \in r \cup {x}
      BY <1>3
    <2>2. \A q \in SUBSET S : x \in q => g[q] = w[x] + g[q \ {x}]
      BY DEF SumsUp
    <2>3. g[r \cup {x}] = w[x] + g[r]
      BY <1>1, <2>1, <2>2
    <2> QED
      BY <1>2, <2>3
  <1>4. ASSUME x \in r
        PROVE  g[r \ {x}] = g[r] - w[x] /\ w[x] <= g[r]
    <2>1. g[r] = w[x] + g[r \ {x}]
      BY <1>4 DEF SumsUp
    <2> QED
      BY <1>2, <2>1
  <1> QED
    BY <1>2, <1>3, <1>4

LEMMA SumMonotone ==
  ASSUME NEW S, IsFiniteSet(S), NEW w, Weighs(w, S), NEW g, SumsUp(g, S, w),
         NEW r \in SUBSET S, NEW q \in SUBSET r
  PROVE  g[q] <= g[r]
  <1> SUFFICES ASSUME ~ (g[q] <= g[r])
               PROVE  FALSE
    OBVIOUS
  <1>1. PICK B : B = {t \in SUBSET S : q \subseteq t /\ ~ (g[q] <= g[t])}
    OBVIOUS
  <1>2. B # {} /\ B \subseteq SUBSET S
    BY <1>1
  <1>3. PICK t \in B : \A y \in B : y \subseteq t => y = t
    BY <1>2, Minimal
  <1>4. t \in SUBSET S /\ q \in SUBSET S /\ q \subseteq t /\ ~ (g[q] <= g[t])
    BY <1>1
  <1>5. g[q] \in Nat /\ g[t] \in Nat
    BY <1>4 DEF SumsUp
  <1>6. t # q
    BY <1>4, <1>5
  <1>7. PICK x \in t : x \notin q
    BY <1>4, <1>6
  <1>8. PICK u : u = t \ {x}
    OBVIOUS
  <1>9. u \in SUBSET S /\ q \subseteq u /\ u \subseteq t /\ u # t
    BY <1>4, <1>7, <1>8
  <1>10. g[q] <= g[u]
    BY <1>1, <1>3, <1>9
  <1>11. g[t] = w[x] + g[u] /\ w[x] \in Nat /\ g[u] \in Nat
    BY <1>4, <1>8, <1>9 DEF SumsUp, Weighs
  <1> QED
    BY <1>4, <1>5, <1>10, <1>11

LEMMA SumDisjoint ==
  ASSUME NEW S, IsFiniteSet(S), NEW w, Weighs(w, S), NEW g, SumsUp(g, S, w),
         NEW r \in SUBSET S, NEW q \in SUBSET S, r \cap q = {}
  PROVE  g[r \cup q] = g[r] + g[q]
  <1> SUFFICES ASSUME g[r \cup q] # g[r] + g[q]
               PROVE  FALSE
    OBVIOUS
  <1>1. PICK B : B = {t \in SUBSET q : g[r \cup t] # g[r] + g[t]}
    OBVIOUS
  <1>2. B # {} /\ B \subseteq SUBSET S
    BY <1>1
  <1>3. PICK t \in B : \A y \in B : y \subseteq t => y = t
    BY <1>2, Minimal
  <1>4. t \in SUBSET q /\ t \in SUBSET S /\ g[r \cup t] # g[r] + g[t]
    BY <1>1
  <1>5. g[r] \in Nat /\ g[{}] = 0
    BY DEF SumsUp
  <1>6. t # {}
    <2>1. SUFFICES ASSUME t = {} PROVE FALSE
      OBVIOUS
    <2>2. r \cup t = r
      BY <2>1
    <2> QED
      BY <1>4, <1>5, <2>1, <2>2
  <1>7. PICK x \in t : TRUE
    BY <1>6
  <1>8. PICK u, v : u = t \ {x} /\ v = r \cup t
    OBVIOUS
  <1>9. u \in SUBSET q /\ u \in SUBSET S /\ v \in SUBSET S /\ u \subseteq t /\ u # t
        /\ v \ {x} = r \cup u /\ x \in v
    BY <1>4, <1>7, <1>8
  <1>10. g[r \cup u] = g[r] + g[u]
    BY <1>1, <1>3, <1>9
  <1>13. \A p \in SUBSET S : \A z \in p : g[p] = w[z] + g[p \ {z}]
    BY DEF SumsUp
  <1>14. g[t] = w[x] + g[u]
    BY <1>4, <1>8, <1>13
  <1>15. g[v] = w[x] + g[v \ {x}]
    BY <1>9, <1>13
  <1>11. g[t] = w[x] + g[u] /\ g[v] = w[x] + g[r \cup u]
    BY <1>9, <1>14, <1>15
  <1>12. w[x] \in Nat /\ g[u] \in Nat
    BY <1>4, <1>9 DEF SumsUp, Weighs
  <1> QED
    BY <1>4, <1>5, <1>8, <1>10, <1>11, <1>12

-----------------------------------------------------------------------------
(* A set of positions of a list has a last one.                              *)
LEMMA LastOne ==
  ASSUME NEW n \in Nat, NEW r \in SUBSET (1..n), r # {}
  PROVE  Max(r) \in r /\ \A y \in r : y <= Max(r)
  <1>1. PICK B : B = {{y \in r : y > x} : x \in r}
    OBVIOUS
  <1>2. B # {} /\ B \subseteq SUBSET (1..n)
    BY <1>1
  <1>3. IsFiniteSet(1..n)
    BY FS_Interval
  <1>9. PICK D : D = 1..n
    OBVIOUS
  <1>10. IsFiniteSet(D) /\ B \subseteq SUBSET D /\ B # {}
    BY <1>2, <1>3, <1>9
  <1>4. PICK t \in B : \A y \in B : y \subseteq t => y = t
    BY <1>10, Minimal
  <1>5. PICK x \in r : t = {y \in r : y > x}
    BY <1>1
  <1>6. ASSUME NEW y \in r, ~ (x >= y)
        PROVE  FALSE
    <2>1. PICK u : u = {z \in r : z > y}
      OBVIOUS
    <2>2. u \in B
      BY <1>1, <2>1
    <2>3. x \in Int /\ y \in Int /\ y > x /\ r \subseteq Int
      BY <1>6
    <2>4. ASSUME NEW z \in u
          PROVE  z \in t
      <3>1. z \in r /\ z > y
        BY <2>1
      <3>2. z > x
        BY <2>3, <3>1
      <3> QED
        BY <1>5, <3>1, <3>2
    <2>5. y \in t /\ y \notin u
      BY <1>5, <2>1, <2>3
    <2> QED
      BY <1>4, <2>2, <2>4, <2>5
  <1>7. \E m \in r : \A y \in r : m >= y
    BY <1>6
  <1>8. Max(r) \in r /\ \A y \in r : Max(r) >= y
    BY <1>7 DEF Max
  <1> QED
    BY <1>8

-----------------------------------------------------------------------------
(* Lists of buffers without duplicates.                                      *)
Once(list) == list \in Seq(Buffer) /\ IsInjective(list)

(* The lists that RemoveAt and InsertAt make.                                *)
LEMMA RemoveAtElements ==
  ASSUME NEW list \in Seq(Buffer), NEW i \in 1..Len(list)
  PROVE  /\ RemoveAt(list, i) \in Seq(Buffer)
         /\ Len(RemoveAt(list, i)) = Len(list) - 1
         /\ \A j \in 1..(Len(list) - 1) :
              RemoveAt(list, i)[j] = IF j < i THEN list[j] ELSE list[j + 1]
  <1> DEFINE n == Len(list)
             rest == RemoveAt(list, i)
  <1>1. n \in Nat /\ i \in 1..n /\ DOMAIN list = 1..n
    OBVIOUS
  <1> DEFINE front == SubSeq(list, 1, i - 1)
             back == SubSeq(list, i + 1, n)
  <1>11. /\ front \in Seq(Buffer) /\ Len(front) = i - 1
        /\ \A j \in 1..(i - 1) : front[j] = list[j]
    <2>1. \A j \in 1..(i - 1) : list[j] \in Buffer
      BY <1>1
    <2>2. /\ front \in Seq(Buffer)
          /\ Len(front) = IF 1 <= i - 1 THEN (i - 1) - 1 + 1 ELSE 0
          /\ \A j \in 1..((i - 1) - 1 + 1) : front[j] = list[1 + j - 1]
      BY <1>1, <2>1, SubSeqProperties
    <2>3. (i - 1) - 1 + 1 = i - 1 /\ \A j \in 1..(i - 1) : 1 + j - 1 = j
      BY <1>1
    <2>4. ~ (1 <= i - 1) => i - 1 = 0
      BY <1>1
    <2> QED
      BY <2>2, <2>3, <2>4
  <1>12. /\ back \in Seq(Buffer) /\ Len(back) = n - i
        /\ \A j \in 1..(n - i) : back[j] = list[i + j]
    <2>1. \A j \in (i + 1)..n : list[j] \in Buffer
      BY <1>1
    <2>2. /\ back \in Seq(Buffer)
          /\ Len(back) = IF i + 1 <= n THEN n - (i + 1) + 1 ELSE 0
          /\ \A j \in 1..(n - (i + 1) + 1) : back[j] = list[(i + 1) + j - 1]
      BY <1>1, <2>1, SubSeqProperties
    <2>3. n - (i + 1) + 1 = n - i /\ \A j \in 1..(n - i) : (i + 1) + j - 1 = i + j
      BY <1>1
    <2>4. ~ (i + 1 <= n) => n - i = 0
      <3>1. \A u, v \in Nat : u <= v /\ ~ (u + 1 <= v) => v - u = 0
        OBVIOUS
      <3>2. n \in Nat /\ i \in Nat /\ i <= n
        BY <1>1
      <3> QED
        BY <3>1, <3>2
    <2> QED
      BY <2>2, <2>3, <2>4
  <1> HIDE DEF front, back
  <1>13. rest = front \o back
    BY DEF RemoveAt, front, back
  <1> HIDE DEF rest
  <1>1c. /\ rest \in Seq(Buffer)
        /\ Len(rest) = Len(front) + Len(back)
        /\ \A j \in 1..(Len(front) + Len(back)) :
             rest[j] = IF j <= Len(front) THEN front[j] ELSE back[j - Len(front)]
    BY <1>11, <1>12, <1>13, ConcatProperties
  <1>14. rest \in Seq(Buffer) /\ Len(rest) = n - 1
    BY <1>1, <1>11, <1>12, <1>1c
  <1>15. ASSUME NEW j \in 1..(n - 1)
        PROVE  rest[j] = IF j < i THEN list[j] ELSE list[j + 1]
    <2>1. CASE j < i
      <3>1. j \in 1..(i - 1) /\ j \in 1..((i - 1) + (n - i)) /\ j <= i - 1
        BY <1>1, <2>1
      <3>2. rest[j] = front[j]
        BY <1>11, <1>12, <1>1c, <3>1
      <3> QED
        BY <1>11, <2>1, <3>1, <3>2
    <2>2. CASE j >= i
      <3>5. j - (i - 1) \in 1..(n - i) /\ j \in 1..((i - 1) + (n - i)) /\ ~ (j <= i - 1)
        BY <1>1, <2>2
      <3>1. rest[j] = back[j - (i - 1)] /\ j - (i - 1) \in 1..(n - i)
        BY <1>11, <1>12, <1>1c, <3>5
      <3>2. back[j - (i - 1)] = list[i + (j - (i - 1))]
        BY <1>12, <3>1
      <3>3. i + (j - (i - 1)) = j + 1
        BY <1>1
      <3>4. rest[j] = list[j + 1]
        BY <3>1, <3>2, <3>3
      <3> QED
        BY <1>1, <3>4, <2>2
    <2> QED
      BY <1>1, <2>1, <2>2
  <1> QED
    BY <1>14, <1>15 DEF rest

LEMMA InsertAtElements ==
  ASSUME NEW list \in Seq(Buffer), NEW i \in 1..(Len(list) + 1), NEW b \in Buffer
  PROVE  /\ InsertAt(list, i, b) \in Seq(Buffer)
         /\ Len(InsertAt(list, i, b)) = Len(list) + 1
         /\ \A j \in 1..(Len(list) + 1) :
              InsertAt(list, i, b)[j] = IF j < i THEN list[j] ELSE IF j = i THEN b ELSE list[j - 1]
  <1> DEFINE n == Len(list)
             front == SubSeq(list, 1, i - 1)
             back == SubSeq(list, i, n)
             more == InsertAt(list, i, b)
  <1>1. n \in Nat /\ i \in 1..(n + 1) /\ DOMAIN list = 1..n
    OBVIOUS
  <1>2. /\ front \in Seq(Buffer) /\ Len(front) = i - 1
        /\ \A j \in 1..(i - 1) : front[j] = list[j]
    BY <1>1
  <1>3. /\ back \in Seq(Buffer) /\ Len(back) = n - i + 1
        /\ \A j \in 1..(n - i + 1) : back[j] = list[i + j - 1]
    <2>1. \A j \in i..n : list[j] \in Buffer
      BY <1>1
    <2> QED
      BY <1>1, <2>1, SubSeqProperties
  <1> HIDE DEF front, back
  <1>4. PICK q : q = front \o <<b>>
    OBVIOUS
  <1>5. /\ q \in Seq(Buffer) /\ Len(q) = i
        /\ \A j \in 1..i : q[j] = IF j < i THEN list[j] ELSE b
    BY <1>1, <1>2, <1>4
  <1>6. more = q \o back
    BY <1>4 DEF InsertAt, front, back
  <1> HIDE DEF more
  <1>7. /\ more \in Seq(Buffer) /\ Len(more) = n + 1
        /\ \A j \in 1..(n + 1) : more[j] = IF j <= i THEN q[j] ELSE back[j - i]
    <2>1. /\ more \in Seq(Buffer) /\ Len(more) = Len(q) + Len(back)
          /\ \A j \in 1..(Len(q) + Len(back)) :
               more[j] = IF j <= Len(q) THEN q[j] ELSE back[j - Len(q)]
      BY <1>3, <1>5, <1>6, ConcatProperties
    <2>2. i + (n - i + 1) = n + 1
      BY <1>1
    <2> QED
      BY <1>3, <1>5, <2>1, <2>2
  <1>8. ASSUME NEW j \in 1..(n + 1)
        PROVE  more[j] = IF j < i THEN list[j] ELSE IF j = i THEN b ELSE list[j - 1]
    <2>1. CASE j <= i
      <3>1. j \in 1..i
        BY <1>1, <2>1
      <3> QED
        BY <1>1, <1>5, <1>7, <2>1, <3>1
    <2>2. CASE j > i
      <3>1. j - i \in 1..(n - i + 1) /\ i + (j - i) - 1 = j - 1
        BY <1>1, <2>2
      <3>2. more[j] = back[j - i]
        BY <1>1, <1>7, <2>2
      <3>3. back[j - i] = list[j - 1]
        BY <1>3, <3>1
      <3> QED
        BY <1>1, <2>2, <3>2, <3>3
    <2> QED
      BY <1>1, <2>1, <2>2
  <1> QED
    BY <1>7, <1>8 DEF more

LEMMA RemoveAtOnce ==
  ASSUME NEW list, Once(list), NEW i \in DOMAIN list
  PROVE  /\ Once(RemoveAt(list, i))
         /\ ToSet(RemoveAt(list, i)) = ToSet(list) \ {list[i]}
  <1> DEFINE n == Len(list)
             rest == RemoveAt(list, i)
  <1>1. n \in Nat /\ i \in 1..n /\ DOMAIN list = 1..n
    BY DEF Once
  <1>2. /\ rest \in Seq(Buffer)
        /\ Len(rest) = n - 1
        /\ \A j \in 1..(n - 1) : rest[j] = IF j < i THEN list[j] ELSE list[j + 1]
    BY <1>1, RemoveAtElements DEF Once
  <1>3. DOMAIN rest = 1..(n - 1)
    BY <1>1, <1>2
  <1> HIDE DEF rest
  <1>4. IsInjective(rest)
    <2> SUFFICES ASSUME NEW j \in DOMAIN rest, NEW k \in DOMAIN rest, rest[j] = rest[k]
                 PROVE  j = k
      BY DEF IsInjective
    <2>1. \A l, m \in 1..n : list[l] = list[m] => l = m
      BY <1>1 DEF Once, IsInjective
    <2> QED
      BY <1>1, <1>2, <1>3, <2>1
  <1>5. ToSet(rest) = ToSet(list) \ {list[i]}
    <2>1. ASSUME NEW j \in DOMAIN rest  PROVE rest[j] \in ToSet(list) \ {list[i]}
      <3>1. PICK k : k = IF j < i THEN j ELSE j + 1
        OBVIOUS
      <3>2. k \in 1..n /\ k # i
        BY <1>1, <1>3, <3>1
      <3>3. rest[j] = list[k]
        BY <1>2, <1>3, <3>1
      <3>4. list[k] # list[i]
        BY <1>1, <3>2 DEF Once, IsInjective
      <3> QED
        BY <1>1, <3>2, <3>3, <3>4 DEF ToSet
    <2>2. ASSUME NEW j \in DOMAIN list, list[j] # list[i]  PROVE list[j] \in ToSet(rest)
      <3>1. CASE j < i
        BY <1>1, <1>2, <1>3, <3>1 DEF ToSet
      <3>2. CASE j > i
        <4>1. j - 1 \in DOMAIN rest /\ rest[j - 1] = list[j]
          BY <1>1, <1>2, <1>3, <3>2
        <4> QED
          BY <4>1 DEF ToSet
      <3> QED
        BY <1>1, <2>2, <3>1, <3>2
    <2> QED
      BY <2>1, <2>2 DEF ToSet
  <1> QED
    BY <1>2, <1>4, <1>5 DEF Once, rest

LEMMA InsertAtOnce ==
  ASSUME NEW list, Once(list), NEW i \in 1..(Len(list) + 1), NEW b \in Buffer, b \notin ToSet(list)
  PROVE  /\ Once(InsertAt(list, i, b))
         /\ ToSet(InsertAt(list, i, b)) = ToSet(list) \cup {b}
  <1>1. PICK n, more : n = Len(list) /\ more = InsertAt(list, i, b)
    OBVIOUS
  <1>2. n \in Nat /\ i \in 1..(n + 1) /\ DOMAIN list = 1..n
    BY <1>1 DEF Once
  <1>3. /\ more \in Seq(Buffer) /\ Len(more) = n + 1 /\ DOMAIN more = 1..(n + 1)
        /\ \A j \in 1..(n + 1) : more[j] = IF j < i THEN list[j] ELSE IF j = i THEN b ELSE list[j - 1]
    <2>1. list \in Seq(Buffer) /\ i \in 1..(Len(list) + 1)
      BY DEF Once
    <2>2. /\ more \in Seq(Buffer) /\ Len(more) = n + 1
          /\ \A j \in 1..(n + 1) : more[j] = IF j < i THEN list[j] ELSE IF j = i THEN b ELSE list[j - 1]
      <3>1. /\ InsertAt(list, i, b) \in Seq(Buffer)
            /\ Len(InsertAt(list, i, b)) = Len(list) + 1
            /\ \A j \in 1..(Len(list) + 1) :
                 InsertAt(list, i, b)[j] = IF j < i THEN list[j] ELSE IF j = i THEN b ELSE list[j - 1]
        BY <2>1, InsertAtElements
      <3> QED
        BY <1>1, <3>1
    <2> QED
      BY <1>2, <2>2
  <1>4. /\ \A j, k \in 1..n : list[j] = list[k] => j = k
        /\ \A j \in 1..n : list[j] # b
    BY <1>2 DEF Once, IsInjective, ToSet
  <1>5. IsInjective(more)
    <2> SUFFICES ASSUME NEW j \in 1..(n + 1), NEW k \in 1..(n + 1), more[j] = more[k]
                 PROVE  j = k
      BY <1>3 DEF IsInjective
    <2>1. \A l \in 1..(n + 1) :
            /\ l < i => l \in 1..n /\ more[l] = list[l]
            /\ l = i => more[l] = b
            /\ l > i => l - 1 \in 1..n /\ more[l] = list[l - 1]
      BY <1>2, <1>3
    <2>2. j \in Int /\ k \in Int /\ i \in Int
      BY <1>2
    <2>3. CASE j = i
      BY <1>4, <2>1, <2>2, <2>3
    <2>4. CASE j < i
      BY <1>4, <2>1, <2>2, <2>4
    <2>5. CASE j > i
      BY <1>4, <2>1, <2>2, <2>5
    <2> QED
      BY <2>2, <2>3, <2>4, <2>5
  <1>6. ASSUME NEW j \in 1..(n + 1)
        PROVE  more[j] \in ToSet(list) \cup {b}
    BY <1>2, <1>3, SMTT(20) DEF ToSet
  <1>7. ASSUME NEW j \in 1..n
        PROVE  list[j] \in ToSet(more)
    <2>1. CASE j < i
      <3>1. j \in DOMAIN more /\ more[j] = list[j]
        BY <1>2, <1>3, <2>1
      <3> QED
        BY <3>1 DEF ToSet
    <2>2. CASE j >= i
      <3>1. j + 1 \in DOMAIN more /\ more[j + 1] = list[j]
        BY <1>2, <1>3, <2>2
      <3> QED
        BY <3>1 DEF ToSet
    <2> QED
      BY <1>2, <2>1, <2>2
  <1>8. b \in ToSet(more)
    <2>1. i \in DOMAIN more /\ more[i] = b
      BY <1>2, <1>3
    <2> QED
      BY <2>1 DEF ToSet
  <1>9. ToSet(more) = ToSet(list) \cup {b}
    <2>1. ToSet(more) \subseteq ToSet(list) \cup {b}
      BY <1>3, <1>6 DEF ToSet
    <2>2. ToSet(list) \subseteq ToSet(more)
      BY <1>2, <1>7 DEF ToSet
    <2> QED
      BY <1>8, <2>1, <2>2
  <1> QED
    BY <1>1, <1>3, <1>5, <1>9 DEF Once

LEMMA ConsOnce ==
  ASSUME NEW list, Once(list), NEW b \in Buffer, b \notin ToSet(list)
  PROVE  Once(<<b>> \o list) /\ ToSet(<<b>> \o list) = ToSet(list) \cup {b}
  <1> DEFINE n == Len(list)
             longer == <<b>> \o list
  <1>1. n \in Nat /\ DOMAIN list = 1..n
    BY DEF Once
  <1>2. /\ longer \in Seq(Buffer)
        /\ Len(longer) = n + 1
        /\ longer[1] = b
        /\ \A j \in 2..(n + 1) : longer[j] = list[j - 1]
    BY <1>1 DEF Once
  <1>3. DOMAIN longer = 1..(n + 1)
    BY <1>1, <1>2
  <1> HIDE DEF longer
  <1>4. IsInjective(longer)
    <2> SUFFICES ASSUME NEW j \in DOMAIN longer, NEW k \in DOMAIN longer,
                        longer[j] = longer[k]
                 PROVE  j = k
      BY DEF IsInjective
    <2>1. \A l, m \in 1..n : list[l] = list[m] => l = m
      BY <1>1 DEF Once, IsInjective
    <2>2. \A l \in 1..n : list[l] # b
      BY <1>1 DEF ToSet
    <2> QED
      BY <1>1, <1>2, <1>3, <2>1, <2>2
  <1>5. ToSet(longer) = ToSet(list) \cup {b}
    <2>1. ASSUME NEW j \in DOMAIN longer  PROVE longer[j] \in ToSet(list) \cup {b}
      BY <1>1, <1>2, <1>3 DEF ToSet
    <2>2. ASSUME NEW j \in DOMAIN list  PROVE list[j] \in ToSet(longer)
      <3>1. j + 1 \in DOMAIN longer /\ longer[j + 1] = list[j]
        BY <1>1, <1>2, <1>3
      <3> QED
        BY <3>1 DEF ToSet
    <2>3. b \in ToSet(longer)
      BY <1>1, <1>2, <1>3 DEF ToSet
    <2> QED
      BY <2>1, <2>2, <2>3 DEF ToSet
  <1> QED
    BY <1>2, <1>4, <1>5 DEF Once, longer

(* A list without duplicates is as long as it has elements.                  *)
LEMMA OnceLength ==
  ASSUME NEW list, Once(list)
  PROVE  Len(list) = Cardinality(ToSet(list))
  <1>1. PICK D, R : D = 1..Len(list) /\ R = ToSet(list)
    OBVIOUS
  <1>2. Len(list) \in Nat /\ DOMAIN list = D
    BY <1>1 DEF Once
  <1>3. IsFiniteSet(D) /\ Cardinality(D) = Len(list)
    <2>1. PICK n \in Nat : n = Len(list)
      BY <1>2
    <2>2. IsFiniteSet(1..n) /\ Cardinality(1..n) = n
      BY FS_Interval
    <2> QED
      BY <1>1, <2>1, <2>2
  <1>4. list \in [D -> R]
    BY <1>1, <1>2 DEF Once, ToSet
  <1>5. list \in Injection(D, R)
    BY <1>2, <1>4 DEF Injection, Once, IsInjective
  <1>6. list \in Surjection(D, R)
    BY <1>1, <1>2, <1>4 DEF Surjection, ToSet
  <1>7. Cardinality(R) = Cardinality(D)
    BY <1>3, <1>5, <1>6, FS_Surjection
  <1> QED
    BY <1>1, <1>3, <1>7

LEMMA ReleasedOnce ==
  ASSUME NEW list, Once(list), NEW n
  PROVE  Once(Released(list, n)) /\ ToSet(Released(list, n)) \subseteq ToSet(list)
  <1> DEFINE K == {k \in 1..Len(list) : Bytes(SubSeq(list, k + 1, Len(list))) >= n}
             keep == Cardinality(K)
  <1>1. Len(list) \in Nat /\ DOMAIN list = 1..Len(list)
    BY DEF Once
  <1>2. keep \in Nat /\ keep <= Len(list)
    <2>1. IsFiniteSet(1..Len(list)) /\ Cardinality(1..Len(list)) = Len(list)
      <3>1. 1 \in Int /\ Len(list) \in Int
        BY <1>1
      <3>2. IsFiniteSet(1..Len(list))
            /\ Cardinality(1..Len(list)) = IF 1 > Len(list) THEN 0 ELSE Len(list) - 1 + 1
        BY <3>1, FS_Interval
      <3> QED
        BY <1>1, <3>2
    <2>2. K \subseteq 1..Len(list)
      OBVIOUS
    <2> QED
      BY <2>1, <2>2, FS_Subset, FS_CardinalityType
  <1> HIDE DEF keep
  <1> DEFINE front == SubSeq(list, 1, keep)
  <1>3. /\ front \in Seq(Buffer) /\ Len(front) = keep
        /\ \A j \in 1..keep : front[j] = list[j]
    BY <1>1, <1>2 DEF Once
  <1>4. Once(front) /\ ToSet(front) \subseteq ToSet(list)
    BY <1>1, <1>2, <1>3 DEF Once, IsInjective, ToSet
  <1>5. Once(<<>>) /\ ToSet(<<>>) = {}
    BY DEF Once, IsInjective, ToSet
  <1> QED
    BY <1>4, <1>5 DEF Released, keep

(* The bytes of a list without duplicates are the sum over its buffers.      *)
LEMMA BytesAreSum ==
  ASSUME NEW list, Once(list), NEW S, S \subseteq Buffer, ToSet(list) \subseteq S, NEW g, SumsUp(g, S, Length)
  PROVE  Bytes(list) = g[ToSet(list)]
  <1>1. PICK n : n = Len(list)
    OBVIOUS
  <1>2. n \in Nat /\ DOMAIN list = 1..n /\ IsFiniteSet(1..n)
    BY <1>1, FS_Interval DEF Once
  <1>3. \A i \in 1..n : list[i] \in ToSet(list) /\ list[i] \in S /\ Length[list[i]] \in Nat
    BY <1>2, FreeBuffersAssumption DEF ToSet
  <1>4. \A i, j \in 1..n : i # j => list[i] # list[j]
    BY <1>2 DEF Once, IsInjective
  <1>5. PICK w : w = [i \in 1..n |-> Length[list[i]]]
    OBVIOUS
  <1>6. Weighs(w, 1..n)
    BY <1>3, <1>5 DEF Weighs
  <1>7. PICK h : h = [r \in SUBSET (1..n) |-> g[{list[i] : i \in r}]]
    OBVIOUS
  <1>8. \A r \in SUBSET (1..n) : {list[i] : i \in r} \in SUBSET S
    BY <1>3
  <1>9. SumsUp(h, 1..n, w)
    <2>1. h \in [SUBSET (1..n) -> Nat]
      BY <1>7, <1>8 DEF SumsUp
    <2>2. h[{}] = 0
      <3>1. {list[i] : i \in {}} = {}
        OBVIOUS
      <3> QED
        BY <1>7, <3>1 DEF SumsUp
    <2>3. ASSUME NEW r \in SUBSET (1..n), NEW x \in r
          PROVE  h[r] = w[x] + h[r \ {x}]
      <3>1. PICK q : q = {list[i] : i \in r}
        OBVIOUS
      <3>2. q \ {list[x]} = {list[i] : i \in r \ {x}}
        BY <1>4, <3>1
      <3>3. q \in SUBSET S /\ list[x] \in q
        BY <1>8, <3>1
      <3>4. g[q] = Length[list[x]] + g[q \ {list[x]}]
        BY <3>3 DEF SumsUp
      <3>5. h[r] = g[q] /\ h[r \ {x}] = g[q \ {list[x]}] /\ w[x] = Length[list[x]]
        BY <1>5, <1>7, <3>1, <3>2
      <3> QED
        BY <3>4, <3>5
    <2> QED
      BY <2>1, <2>2, <2>3 DEF SumsUp
  <1>10. PICK c : c = [r \in SUBSET (1..n) |-> Max(r)]
    OBVIOUS
  <1>11. Chooses(c, 1..n)
    BY <1>2, <1>10, LastOne DEF Chooses
  <1>12. h = [s \in SUBSET (1..n) |-> IF s = {} THEN 0 ELSE h[s \ {Max(s)}] + Length[list[Max(s)]]]
    <2>1. ASSUME NEW s \in SUBSET (1..n), s # {}
          PROVE  h[s] = h[s \ {Max(s)}] + Length[list[Max(s)]]
      <3>1. PICK x : x = Max(s)
        OBVIOUS
      <3>2. x \in s
        BY <1>2, <2>1, <3>1, LastOne
      <3>3. h[s] = w[x] + h[s \ {x}] /\ h[s \ {x}] \in Nat
        BY <1>9, <3>2 DEF SumsUp
      <3>4. w[x] = Length[list[x]] /\ w[x] \in Nat
        BY <1>5, <1>6, <3>2 DEF Weighs
      <3> QED
        BY <3>1, <3>3, <3>4
    <2>2. h[{}] = 0
      BY <1>9 DEF SumsUp
    <2>3. \A s \in SUBSET (1..n) : h[s] = IF s = {} THEN 0 ELSE h[s \ {Max(s)}] + Length[list[Max(s)]]
      BY <2>1, <2>2
    <2> QED
      BY <1>7, <2>3
  <1>13. Bytes(list) =
           (CHOOSE iter : iter = [s \in SUBSET (DOMAIN list) |->
              IF s = {} THEN 0 ELSE iter[s \ {Max(s)}] + Length[list[Max(s)]]])[DOMAIN list]
    BY DEF Bytes, FoldLeft, MapThenFoldSet
  <1>14. PICK k : /\ k = [s \in SUBSET (1..n) |-> IF s = {} THEN 0 ELSE k[s \ {Max(s)}] + Length[list[Max(s)]]]
                  /\ Bytes(list) = k[1..n]
    BY <1>2, <1>12, <1>13
  <1>15. Takes(k, 1..n, w, c)
    <2>1. \A s \in SUBSET (1..n) : k[s] = IF s = {} THEN 0 ELSE k[s \ {Max(s)}] + Length[list[Max(s)]]
      BY <1>14
    <2>2. \A s \in SUBSET (1..n) : s # {} => c[s] = Max(s) /\ w[c[s]] = Length[list[Max(s)]]
      BY <1>5, <1>10, <1>11 DEF Chooses
    <2>3. k[{}] = 0
      BY <2>1
    <2> QED
      BY <2>1, <2>2, <2>3 DEF Takes
  <1>16. k[1..n] = h[1..n]
    BY <1>2, <1>6, <1>9, <1>11, <1>15, SumByTaking
  <1>17. {list[i] : i \in 1..n} = ToSet(list)
    BY <1>2 DEF ToSet
  <1> QED
    BY <1>7, <1>14, <1>16, <1>17

LEMMA SubListOnce ==
  ASSUME NEW list, Once(list), NEW i \in Nat, NEW j \in Nat, 1 <= i, j <= Len(list), i <= j + 1
  PROVE  /\ Once(SubSeq(list, i, j))
         /\ ToSet(SubSeq(list, i, j)) = {list[k] : k \in i..j}
  <1>1. PICK n : n = Len(list)
    OBVIOUS
  <1>2. n \in Nat /\ DOMAIN list = 1..n /\ list \in Seq(Buffer)
    BY <1>1 DEF Once
  <1>3. PICK q : q = SubSeq(list, i, j)
    OBVIOUS
  <1>4. /\ q \in Seq(Buffer) /\ Len(q) = j - i + 1 /\ DOMAIN q = 1..(j - i + 1)
        /\ \A k \in 1..(j - i + 1) : q[k] = list[i + k - 1]
    <2>1. \A k \in i..j : list[k] \in Buffer
      BY <1>1, <1>2
    <2>2. q \in Seq(Buffer)
      BY <1>1, <1>2, <1>3, <2>1, SubSeqProperties
    <2>3. Len(q) = j - i + 1 /\ \A k \in 1..(j - i + 1) : q[k] = list[i + k - 1]
      BY <1>1, <1>2, <1>3, SubSeqProperties
    <2> QED
      BY <2>2, <2>3
  <1>5. IsInjective(q)
    <2> SUFFICES ASSUME NEW a \in DOMAIN q, NEW b \in DOMAIN q, q[a] = q[b]
                 PROVE  a = b
      BY DEF IsInjective
    <2>1. a \in Int /\ b \in Int /\ i + a - 1 \in 1..n /\ i + b - 1 \in 1..n
      BY <1>1, <1>4, SMTT(20)
    <2>2. list[i + a - 1] = list[i + b - 1]
      BY <1>4
    <2>3. i + a - 1 = i + b - 1
      BY <1>2, <2>1, <2>2 DEF Once, IsInjective
    <2> QED
      BY <2>1, <2>3
  <1>6. ToSet(q) = {list[k] : k \in i..j}
    <2>1. ASSUME NEW x \in ToSet(q)
          PROVE  x \in {list[k] : k \in i..j}
      <3>1. PICK a \in DOMAIN q : x = q[a]
        BY DEF ToSet
      <3>2. x = list[i + a - 1] /\ i + a - 1 \in i..j
        BY <1>4, <3>1
      <3> QED
        BY <3>2
    <2>2. ASSUME NEW k \in i..j
          PROVE  list[k] \in ToSet(q)
      <3>1. k - i + 1 \in DOMAIN q /\ i + (k - i + 1) - 1 = k
        BY <1>4
      <3>2. q[k - i + 1] = list[k]
        BY <1>4, <3>1
      <3> QED
        BY <3>1, <3>2 DEF ToSet
    <2> QED
      BY <2>1, <2>2
  <1>7. Once(q)
    BY <1>4, <1>5 DEF Once
  <1> QED
    BY <1>3, <1>6, <1>7

(* What is kept when n bytes are released: the front of the list, and at     *)
(* least n bytes less, or nothing.                                           *)
LEMMA ReleasedBytes ==
  ASSUME NEW list, Once(list), NEW S, S \subseteq Buffer, IsFiniteSet(S), ToSet(list) \subseteq S, NEW n \in Nat
  PROVE  /\ Bytes(list) \in Nat /\ Bytes(Released(list, n)) \in Nat
         /\ Released(list, n) = <<>> \/ Bytes(Released(list, n)) + n <= Bytes(list)
  <1>1. Weighs(Length, S)
    BY FreeBuffersAssumption DEF Weighs
  <1>2. PICK g : SumsUp(g, S, Length)
    BY <1>1, SumExists
  <1>3. PICK N : N = Len(list)
    OBVIOUS
  <1>4. N \in Nat /\ DOMAIN list = 1..N
    BY <1>3 DEF Once
  <1>5. PICK P : P = {k \in 1..N : Bytes(SubSeq(list, k + 1, N)) >= n}
    OBVIOUS
  <1>6. PICK keep : keep = Cardinality(P)
    OBVIOUS
  <1>7. Released(list, n) = <<>> \/ Released(list, n) = SubSeq(list, 1, keep)
    BY <1>3, <1>5, <1>6 DEF Released
  <1>14. \A T \in SUBSET S : g[T] \in Nat
    BY <1>2 DEF SumsUp
  <1>15. g[{}] = 0
    BY <1>2 DEF SumsUp
  <1>16. \A q : Once(q) /\ ToSet(q) \subseteq S => Bytes(q) = g[ToSet(q)]
    BY <1>2, BytesAreSum
  <1>8. Bytes(list) = g[ToSet(list)] /\ Bytes(list) \in Nat
    BY <1>14, <1>16
  <1>9. Once(<<>>) /\ ToSet(<<>>) = {}
    BY DEF Once, IsInjective, ToSet
  <1>10. Bytes(<<>>) = 0
    BY <1>9, <1>15, <1>16
  <1>11. ASSUME NEW k \in 1..N
         PROVE  /\ Bytes(SubSeq(list, k + 1, N)) = g[{list[i] : i \in (k + 1)..N}]
                /\ {list[i] : i \in (k + 1)..N} \in SUBSET S
    <2>1. Once(SubSeq(list, k + 1, N)) /\ ToSet(SubSeq(list, k + 1, N)) = {list[i] : i \in (k + 1)..N}
      <3>1. PICK a : a = k + 1
        OBVIOUS
      <3>2. a \in Nat /\ 1 <= a /\ a <= N + 1 /\ N \in Nat /\ N <= Len(list)
        BY <1>3, <1>4, <3>1
      <3>3. Once(SubSeq(list, a, N)) /\ ToSet(SubSeq(list, a, N)) = {list[i] : i \in a..N}
        BY <3>2, SubListOnce
      <3> QED
        BY <3>1, <3>3
    <2>2. {list[i] : i \in (k + 1)..N} \in SUBSET S
      BY <1>4 DEF ToSet
    <2> QED
      BY <1>16, <2>1, <2>2
  <1>12. CASE P = {}
    <2>1. keep = 0
      BY <1>6, <1>12, FS_EmptySet
    <2>2. SubSeq(list, 1, 0) = <<>>
      BY SubSeqEmpty DEF Once
    <2> QED
      BY <1>7, <1>8, <1>10, <2>1, <2>2
  <1>13. CASE P # {}
    <2>1. PICK m : m = Max(P)
      OBVIOUS
    <2>2. m \in P /\ \A y \in P : y <= m
      BY <1>4, <1>5, <1>13, <2>1, LastOne
    <2>3. m \in 1..N /\ Bytes(SubSeq(list, m + 1, N)) >= n
      BY <1>5, <2>2
    <2>4. PICK back : back = {list[i] : i \in (m + 1)..N}
      OBVIOUS
    <2>5. back \in SUBSET S /\ g[back] >= n /\ g[back] \in Nat
      BY <1>11, <1>14, <2>3, <2>4
    <2>6. ASSUME NEW k \in 1..m
          PROVE  k \in P
      <3>1. PICK more : more = {list[i] : i \in (k + 1)..N}
        OBVIOUS
      <3>2. k \in 1..N
        BY <1>4, <2>3
      <3>3. more \in SUBSET S /\ Bytes(SubSeq(list, k + 1, N)) = g[more]
        BY <1>11, <3>1, <3>2
      <3>4. back \subseteq more
        BY <2>3, <2>4, <3>1, <3>2
      <3>5. g[back] <= g[more] /\ g[more] \in Nat
        <4>1. back \in SUBSET more
          BY <3>4
        <4> QED
          BY <1>1, <1>2, <1>14, <3>3, <4>1, SumMonotone
      <3> QED
        BY <1>5, <2>5, <3>2, <3>3, <3>5
    <2>7. P = 1..m
      <3>1. P \subseteq 1..m
        BY <1>5, <2>2
      <3> QED
        BY <2>6, <3>1
    <2>8. keep = m
      <3>1. m \in Nat /\ m >= 1
        BY <2>3
      <3> QED
        BY <1>6, <2>7, <3>1, FS_Interval
    <2>9. PICK front : front = {list[i] : i \in 1..m}
      OBVIOUS
    <2>10. Once(SubSeq(list, 1, m)) /\ ToSet(SubSeq(list, 1, m)) = front
      BY <1>3, <2>3, <2>9, SubListOnce
    <2>11. front \in SUBSET S /\ front \cap back = {} /\ front \cup back = ToSet(list)
      <3>1. \A i, j \in 1..N : i # j => list[i] # list[j]
        BY <1>4 DEF Once, IsInjective
      <3>2. \A i \in 1..N : list[i] \in S
        BY <1>4 DEF ToSet
      <3>3. front \cup back = {list[i] : i \in 1..N}
        <4>1. \A i \in 1..N : i \in 1..m \/ i \in (m + 1)..N
          BY <1>4, <2>3
        <4>2. 1..m \subseteq 1..N /\ (m + 1)..N \subseteq 1..N
          BY <1>4, <2>3
        <4> QED
          BY <2>4, <2>9, <4>1, <4>2
      <3>4. front \cap back = {}
        <4>1. \A i \in 1..m, j \in (m + 1)..N : i # j /\ i \in 1..N /\ j \in 1..N
          BY <1>4, <2>3
        <4> QED
          BY <2>4, <2>9, <3>1, <4>1
      <3>5. front \in SUBSET S
        <4>1. 1..m \subseteq 1..N
          BY <1>4, <2>3
        <4> QED
          BY <2>9, <3>2, <4>1
      <3> QED
        BY <1>4, <3>3, <3>4, <3>5 DEF ToSet
    <2>12. g[front \cup back] = g[front] + g[back]
      <3>1. front \in SUBSET S /\ back \in SUBSET S /\ front \cap back = {}
        BY <2>5, <2>11
      <3> QED
        BY <1>1, <1>2, <3>1, SumDisjoint
    <2>13. Bytes(SubSeq(list, 1, m)) = g[front] /\ g[front] \in Nat
      BY <1>14, <1>16, <2>10, <2>11
    <2>14. Bytes(SubSeq(list, 1, m)) + n <= Bytes(list)
      BY <1>8, <2>5, <2>11, <2>12, <2>13
    <2> QED
      <3>1. PICK q : q = Released(list, n)
        OBVIOUS
      <3>2. q = <<>> \/ q = SubSeq(list, 1, m)
        BY <1>7, <2>8, <3>1
      <3>3. Bytes(q) \in Nat
        <4>1. CASE q = <<>>
          BY <1>10, <4>1
        <4>2. CASE q = SubSeq(list, 1, m)
          <5>1. g[front] \in Nat
            BY <2>13
          <5>2. Bytes(q) = g[front]
            BY <2>13, <4>2
          <5> QED
            BY <5>1, <5>2
        <4> QED
          BY <3>2, <4>1, <4>2
      <3>4. q = <<>> \/ Bytes(q) + n <= Bytes(list)
        BY <2>14, <3>2
      <3> QED
        BY <1>8, <3>1, <3>3, <3>4
  <1> QED
    BY <1>12, <1>13

-----------------------------------------------------------------------------
(* The linked list and the multimap.                                         *)
Nodes == Buffer \cup {Null}

(* Walk, on the first n links from c on.                                     *)
Stepped(f, N, link) ==
  f = [n \in 0..N |-> [c \in Nodes |->
         IF n = 0 \/ c = Null THEN <<>> ELSE <<c>> \o f[n - 1][link[c]]]]

(* A set of numbers up to N has a smallest one.                              *)
LEMMA Smallest ==
  ASSUME NEW N \in Nat, NEW T \in SUBSET (0..N), T # {}
  PROVE  \E m \in T : \A k \in T : m <= k
  <1>1. PICK r : r = {N + 1 - k : k \in T}
    OBVIOUS
  <1>2. PICK M : M = N + 1
    OBVIOUS
  <1>3. M \in Nat /\ r \in SUBSET (1..M) /\ r # {}
    <2>1. \A k \in 0..N : N + 1 - k \in 1..M
      BY <1>2
    <2>2. ASSUME NEW y \in r
          PROVE  y \in 1..M
      <3>1. PICK k \in T : y = N + 1 - k
        BY <1>1
      <3> QED
        BY <2>1, <3>1
    <2>3. M \in Nat
      BY <1>2
    <2>4. r # {}
      <3>1. PICK k \in T : TRUE
        OBVIOUS
      <3>2. N + 1 - k \in r
        BY <1>1
      <3> QED
        BY <3>2
    <2> QED
      BY <2>2, <2>3, <2>4
  <1>4. Max(r) \in r /\ \A y \in r : y <= Max(r)
    BY <1>3, LastOne
  <1>5. PICK m \in T : Max(r) = N + 1 - m
    BY <1>1, <1>4
  <1>6. ASSUME NEW k \in T
        PROVE  m <= k
    <2>1. N + 1 - k <= N + 1 - m
      BY <1>1, <1>4, <1>5
    <2>2. k \in Int /\ m \in Int
      OBVIOUS
    <2> QED
      BY <2>1, <2>2
  <1> QED
    BY <1>6

LEMMA SteppedExists ==
  ASSUME NEW N \in Nat, NEW link \in [Buffer -> Nodes]
  PROVE  \E f : Stepped(f, N, link)
  <1> SUFFICES ASSUME ~ \E f : Stepped(f, N, link)
               PROVE  FALSE
    OBVIOUS
  <1>1. PICK T : T = {n \in 0..N : ~ \E f : Stepped(f, n, link)}
    OBVIOUS
  <1>2. T \in SUBSET (0..N) /\ T # {}
    BY <1>1
  <1>3. PICK m \in T : \A k \in T : m <= k
    BY <1>2, Smallest
  <1>4. m \in 0..N /\ ~ \E f : Stepped(f, m, link)
    BY <1>1
  <1>5. m # 0
    <2>1. SUFFICES ASSUME m = 0 PROVE FALSE
      OBVIOUS
    <2>2. PICK f : f = [n \in 0..0 |-> [c \in Nodes |-> <<>>]]
      OBVIOUS
    <2>3. \A n \in 0..0 : n = 0
      OBVIOUS
    <2>4. f = [n \in 0..0 |-> [c \in Nodes |->
                 IF n = 0 \/ c = Null THEN <<>> ELSE <<c>> \o f[n - 1][link[c]]]]
      BY <2>2, <2>3
    <2> QED
      BY <1>4, <2>1, <2>4 DEF Stepped
  <1>6. m - 1 \in 0..N /\ ~ (m <= m - 1)
    BY <1>4, <1>5
  <1>7. PICK f : Stepped(f, m - 1, link)
    BY <1>1, <1>3, <1>6
  <1>8. PICK h : h = [n \in 0..m |-> [c \in Nodes |->
                        IF n = 0 \/ c = Null THEN <<>> ELSE <<c>> \o f[n - 1][link[c]]]]
    OBVIOUS
  <1>9. ASSUME NEW n \in 0..(m - 1)
        PROVE  h[n] = f[n]
    <2>1. n \in 0..m
      BY <1>4
    <2>2. h[n] = [c \in Nodes |-> IF n = 0 \/ c = Null THEN <<>> ELSE <<c>> \o f[n - 1][link[c]]]
      BY <1>8, <2>1
    <2>3. f[n] = [c \in Nodes |-> IF n = 0 \/ c = Null THEN <<>> ELSE <<c>> \o f[n - 1][link[c]]]
      BY <1>7 DEF Stepped
    <2> QED
      BY <2>2, <2>3
  <1>10. \A n \in 0..m : n # 0 => n - 1 \in 0..(m - 1)
    BY <1>4
  <1>11. \A n \in 0..m : n # 0 => f[n - 1] = h[n - 1]
    BY <1>9, <1>10
  <1>12. h = [n \in 0..m |-> [c \in Nodes |->
                IF n = 0 \/ c = Null THEN <<>> ELSE <<c>> \o h[n - 1][link[c]]]]
    BY <1>8, <1>11
  <1> QED
    BY <1>4, <1>12 DEF Stepped

(* o is what the links of one direction lead through.                        *)
Linked(o, link) ==
  \A i \in 1..Len(o) : link[o[i]] = IF i = Len(o) THEN Null ELSE o[i + 1]
HeadOf(o) == IF o = <<>> THEN Null ELSE o[1]

LEMMA WalkIs ==
  ASSUME NEW o, Once(o), NEW link \in [Buffer -> Nodes], Linked(o, link), BufferCacheAssumption
  PROVE  Walk(HeadOf(o), link) = o
  <1>1. PICK n, N : n = Len(o) /\ N = Cardinality(Buffer)
    OBVIOUS
  <1>2. n \in Nat /\ DOMAIN o = 1..n /\ o \in Seq(Buffer) /\ \A i \in 1..n : o[i] \in Buffer
    BY <1>1 DEF Once
  <1>3. N \in Nat /\ n <= N
    <2>1. n = Cardinality(ToSet(o))
      BY <1>1, OnceLength
    <2>2. ToSet(o) \in SUBSET Buffer /\ IsFiniteSet(Buffer)
      BY <1>2, BufferCacheAssumption DEF ToSet
    <2> QED
      BY <1>1, <2>1, <2>2, FS_Subset, FS_CardinalityType
  <1>4. \E step : step = [k \in 0..N |-> [c \in Buffer \cup {Null} |->
                   IF k = 0 \/ c = Null THEN <<>> ELSE <<c>> \o step[k - 1][link[c]]]]
    BY <1>3, SteppedExists DEF Stepped, Nodes
  <1>5. Walk(HeadOf(o), link) =
          (CHOOSE step : step = [k \in 0..Cardinality(Buffer) |-> [c \in Buffer \cup {Null} |->
             IF k = 0 \/ c = Null THEN <<>> ELSE <<c>> \o step[k - 1][link[c]]]])[Cardinality(Buffer)][HeadOf(o)]
    BY DEF Walk
  <1>6. PICK f : /\ f = [k \in 0..N |-> [c \in Buffer \cup {Null} |->
                          IF k = 0 \/ c = Null THEN <<>> ELSE <<c>> \o f[k - 1][link[c]]]]
                 /\ Walk(HeadOf(o), link) = f[N][HeadOf(o)]
    BY <1>1, <1>4, <1>5
  <1>7. \A k \in 0..N, c \in Nodes :
          f[k][c] = IF k = 0 \/ c = Null THEN <<>> ELSE <<c>> \o f[k - 1][link[c]]
    <2> SUFFICES ASSUME NEW k \in 0..N, NEW c \in Nodes
                 PROVE  f[k][c] = IF k = 0 \/ c = Null THEN <<>> ELSE <<c>> \o f[k - 1][link[c]]
      OBVIOUS
    <2>1. f[k] = [d \in Buffer \cup {Null} |-> IF k = 0 \/ d = Null THEN <<>> ELSE <<d>> \o f[k - 1][link[d]]]
      BY <1>6
    <2> QED
      BY <2>1 DEF Nodes
  \* The rest of the list from its i-th buffer on.
  <1>8. \A j \in 0..n : \A k \in 0..N : j <= k =>
          f[k][IF j = 0 THEN Null ELSE o[n - j + 1]] = SubSeq(o, n - j + 1, n)
    <2> SUFFICES ASSUME ~ (\A j \in 0..n : \A k \in 0..N : j <= k =>
                   f[k][IF j = 0 THEN Null ELSE o[n - j + 1]] = SubSeq(o, n - j + 1, n))
                 PROVE  FALSE
      OBVIOUS
    <2>1. PICK T : T = {j \in 0..n : ~ (\A k \in 0..N : j <= k =>
                   f[k][IF j = 0 THEN Null ELSE o[n - j + 1]] = SubSeq(o, n - j + 1, n))}
      OBVIOUS
    <2>2. T \in SUBSET (0..n) /\ T # {}
      BY <2>1
    <2>3. PICK j \in T : \A l \in T : j <= l
      BY <1>2, <2>2, Smallest
    <2>4. j \in 0..n
      BY <2>1
    <2>5. PICK k \in 0..N : j <= k /\ f[k][IF j = 0 THEN Null ELSE o[n - j + 1]] # SubSeq(o, n - j + 1, n)
      BY <2>1
    <2>6. j # 0
      <3>1. SUFFICES ASSUME j = 0 PROVE FALSE
        OBVIOUS
      <3>2. f[k][Null] = <<>>
        BY <1>7 DEF Nodes
      <3>3. SubSeq(o, n + 1, n) = <<>>
        BY <1>2, SubSeqEmpty
      <3>4. n - j + 1 = n + 1
        BY <1>2, <3>1
      <3> QED
        BY <2>5, <3>1, <3>2, <3>3, <3>4
    <2>7. PICK i, b : i = n - j + 1 /\ b = o[i]
      OBVIOUS
    <2>8. i \in 1..n /\ b \in Buffer /\ b # Null /\ n - (j - 1) + 1 = i + 1 /\ j - 1 \in 0..n
          /\ (j - 1 = 0 <=> i = n) /\ k - 1 \in 0..N /\ j - 1 <= k - 1 /\ k # 0 /\ ~ (j <= j - 1)
      BY <1>2, <1>3, <2>4, <2>5, <2>6, <2>7, BufferCacheAssumption
    <2>9. f[k][b] # SubSeq(o, i, n)
      BY <2>5, <2>6, <2>7
    <2>10. f[k][b] = <<b>> \o f[k - 1][link[b]]
      BY <1>7, <2>8 DEF Nodes
    <2>11. link[b] = IF j - 1 = 0 THEN Null ELSE o[i + 1]
      BY <1>1, <2>7, <2>8 DEF Linked
    <2>12. j - 1 \notin T
      BY <2>3, <2>8
    <2>13. f[k - 1][IF j - 1 = 0 THEN Null ELSE o[n - (j - 1) + 1]] = SubSeq(o, n - (j - 1) + 1, n)
      BY <2>1, <2>8, <2>12
    <2>14. f[k - 1][link[b]] = SubSeq(o, i + 1, n)
      BY <2>8, <2>11, <2>13
    <2>15. <<b>> \o SubSeq(o, i + 1, n) = SubSeq(o, i, n)
      <3>1. PICK q, r : q = SubSeq(o, i + 1, n) /\ r = SubSeq(o, i, n)
        OBVIOUS
      <3>2. q \in Seq(Buffer) /\ Len(q) = n - i /\ \A l \in 1..(n - i) : q[l] = o[i + l]
        <4>1. \A l \in (i + 1)..n : o[l] \in Buffer
          BY <1>2, <2>8
        <4>2. q \in Seq(Buffer) /\ Len(q) = (IF i + 1 <= n THEN n - (i + 1) + 1 ELSE 0)
              /\ \A l \in 1..(n - (i + 1) + 1) : q[l] = o[(i + 1) + l - 1]
          <5>1. PICK a : a = i + 1
            OBVIOUS
          <5>2. a \in Int /\ n \in Int
            BY <1>2, <2>8, <5>1
          <5>3. \A l \in a..n : o[l] \in Buffer
            BY <4>1, <5>1
          <5>4. /\ SubSeq(o, a, n) \in Seq(Buffer)
                /\ Len(SubSeq(o, a, n)) = (IF a <= n THEN n - a + 1 ELSE 0)
                /\ \A l \in 1..(n - a + 1) : SubSeq(o, a, n)[l] = o[a + l - 1]
            BY <5>2, <5>3, SubSeqProperties
          <5> QED
            BY <3>1, <5>1, <5>4
        <4>3. n - (i + 1) + 1 = n - i /\ \A l \in 1..(n - i) : (i + 1) + l - 1 = i + l
          BY <1>2, <2>8
        <4> QED
          BY <1>2, <2>8, <4>2, <4>3
      <3>3. r \in Seq(Buffer) /\ Len(r) = n - i + 1 /\ \A l \in 1..(n - i + 1) : r[l] = o[i + l - 1]
        <4>1. \A l \in i..n : o[l] \in Buffer
          BY <1>2, <2>8
        <4>2. r \in Seq(Buffer) /\ Len(r) = (IF i <= n THEN n - i + 1 ELSE 0)
              /\ \A l \in 1..(n - i + 1) : r[l] = o[i + l - 1]
          <5>1. i \in Int /\ n \in Int
            BY <1>2, <2>8
          <5>2. /\ SubSeq(o, i, n) \in Seq(Buffer)
                /\ Len(SubSeq(o, i, n)) = IF i <= n THEN n - i + 1 ELSE 0
                /\ \A l \in 1..(n - i + 1) : SubSeq(o, i, n)[l] = o[i + l - 1]
            BY <4>1, <5>1, SubSeqProperties
          <5> QED
            BY <3>1, <5>2
        <4> QED
          BY <1>2, <2>8, <4>2
      <3>4. PICK s : s = <<b>> \o q
        OBVIOUS
      <3>5. s \in Seq(Buffer) /\ Len(s) = n - i + 1 /\ s[1] = b
            /\ \A l \in 2..(n - i + 1) : s[l] = q[l - 1]
        <4>1. PICK m : m = n - i
          OBVIOUS
        <4>2. m \in Nat
          BY <1>2, <2>8, <4>1
        <4>3. q \in Seq(Buffer) /\ Len(q) = m
          BY <3>2, <4>1
        <4>4. s \in Seq(Buffer) /\ Len(s) = m + 1 /\ s[1] = b /\ \A l \in 2..(m + 1) : s[l] = q[l - 1]
          BY <2>8, <3>4, <4>2, <4>3
        <4> QED
          BY <4>1, <4>4
      <3>6. ASSUME NEW l \in 1..(n - i + 1)
            PROVE  s[l] = r[l]
        <4>1. CASE l = 1
          <5>1. r[l] = o[i + l - 1] /\ i + l - 1 = i
            BY <2>8, <3>3, <4>1
          <5> QED
            BY <2>7, <3>5, <4>1, <5>1
        <4>2. CASE l # 1
          <5>1. n \in Nat /\ i \in 1..n
            BY <1>2, <2>8
          <5>2. l \in 2..(n - i + 1) /\ l - 1 \in 1..(n - i) /\ i + (l - 1) = i + l - 1
            BY <4>2, <5>1
          <5> QED
            BY <3>2, <3>3, <3>5, <5>2
        <4> QED
          BY <4>1, <4>2
      <3>7. s = r
        BY <3>3, <3>5, <3>6, SeqEqual
      <3> QED
        BY <3>1, <3>4, <3>7
    <2> QED
      BY <2>9, <2>10, <2>14, <2>15
  <1>9. CASE n = 0
    <2>1. o = <<>>
      BY <1>1, <1>2, <1>9, EmptySeq
    <2>4. HeadOf(o) = Null
      BY <2>1 DEF HeadOf
    <2>2. N \in 0..N /\ Null \in Nodes
      BY <1>3 DEF Nodes
    <2>3. f[N][Null] = <<>>
      BY <1>7, <2>2
    <2> QED
      BY <1>6, <2>1, <2>3, <2>4
  <1>10. CASE n # 0
    <2>1. o # <<>> /\ HeadOf(o) = o[1]
      BY <1>1, <1>10 DEF HeadOf
    <2>2. n \in 0..n /\ N \in 0..N /\ n - n + 1 = 1
      BY <1>2, <1>3
    <2>3. f[N][IF n = 0 THEN Null ELSE o[n - n + 1]] = SubSeq(o, n - n + 1, n)
      BY <1>3, <1>8, <2>2
    <2>4. f[N][o[1]] = SubSeq(o, 1, n)
      BY <1>10, <2>2, <2>3
    <2>5. SubSeq(o, 1, n) = o
      BY <1>1, <1>2
    <2> QED
      BY <1>6, <2>1, <2>4, <2>5
  <1> QED
    BY <1>9, <1>10

-----------------------------------------------------------------------------
(* The list of BufferCache: the buffers of o in order, with all four pointers *)
(* in place.                                                                 *)
TailOf(o) == IF o = <<>> THEN Null ELSE o[Len(o)]
After(o, i) == IF i = Len(o) THEN Null ELSE o[i + 1]
Before(o, i) == IF i = 1 THEN Null ELSE o[i - 1]

Chain(o, h, t, p, n) ==
  /\ Once(o)
  /\ h = HeadOf(o)
  /\ t = TailOf(o)
  /\ p \in [Buffer -> Nodes] /\ n \in [Buffer -> Nodes]
  /\ \A i \in 1..Len(o) : n[o[i]] = After(o, i) /\ p[o[i]] = Before(o, i)
  /\ \A b \in Buffer : b \notin ToSet(o) => n[b] = Null /\ p[b] = Null

(* The multimap holds the buffers of o by length, the older one first.       *)
Older(o, b, c) == \E k, l \in 1..Len(o) : o[k] = b /\ o[l] = c /\ k > l

Agrees(o, x) ==
  /\ Once(o) /\ Once(x)
  /\ ToSet(x) = ToSet(o)
  /\ \A i, j \in 1..Len(x) : i < j =>
       \/ Length[x[i]] < Length[x[j]]
       \/ Length[x[i]] = Length[x[j]] /\ Older(o, x[i], x[j])

(* A set of positions with every position before one of its own is an        *)
(* interval, and its cardinality is the last one.                            *)
LEMMA Prefix ==
  ASSUME NEW n \in Nat, NEW P \in SUBSET (1..n), \A i \in P : \A j \in 1..n : j <= i => j \in P
  PROVE  /\ Cardinality(P) \in 0..n
         /\ P = 1..Cardinality(P)
  <1>1. CASE P = {}
    <2>1. Cardinality(P) = 0
      BY <1>1, FS_EmptySet
    <2> QED
      BY <1>1, <2>1
  <1>2. CASE P # {}
    <2>1. PICK m : m = Max(P)
      OBVIOUS
    <2>2. m \in P /\ \A y \in P : y <= m
      BY <1>2, <2>1, LastOne
    <2>3. m \in 1..n
      BY <2>2
    <2>4. \A j \in P : j \in 1..m
      BY <2>2
    <2>5. \A j \in 1..m : j \in 1..n /\ j <= m
      BY <2>3
    <2>6. \A j \in 1..m : j \in P
      BY <2>2, <2>5
    <2>7. P = 1..m
      BY <2>4, <2>6
    <2>8. Cardinality(1..m) = m
      BY <2>3, FS_Interval
    <2> QED
      BY <2>3, <2>7, <2>8
  <1> QED
    BY <1>1, <1>2

(* A list read backwards.                                                    *)
LEMMA ReverseOnce ==
  ASSUME NEW list, Once(list)
  PROVE  /\ Once(Reverse(list))
         /\ Len(Reverse(list)) = Len(list)
         /\ \A i \in 1..Len(list) : Reverse(list)[i] = list[Len(list) - i + 1]
         /\ Reverse(Reverse(list)) = list
  <1>1. PICK n, back : n = Len(list) /\ back = Reverse(list)
    OBVIOUS
  <1>2. n \in Nat /\ DOMAIN list = 1..n /\ list \in Seq(Buffer) /\ \A i \in 1..n : list[i] \in Buffer
    BY <1>1 DEF Once
  <1>3. \A i \in 1..n : n - i + 1 \in 1..n /\ n - (n - i + 1) + 1 = i
    BY <1>2
  <1>4. back = [i \in 1..n |-> list[n - i + 1]]
    BY <1>1 DEF Reverse
  <1>5. back \in Seq(Buffer) /\ Len(back) = n /\ DOMAIN back = 1..n
    <2>1. back \in [1..n -> Buffer]
      BY <1>2, <1>3, <1>4
    <2> QED
      BY <1>2, <2>1
  <1>6. \A i \in 1..n : back[i] = list[n - i + 1]
    BY <1>4
  <1>7. IsInjective(back)
    <2> SUFFICES ASSUME NEW i \in 1..n, NEW j \in 1..n, back[i] = back[j]
                 PROVE  i = j
      BY <1>5 DEF IsInjective
    <2>1. n - i + 1 = n - j + 1
      BY <1>2, <1>3, <1>6 DEF Once, IsInjective
    <2> QED
      BY <1>2, <2>1
  <1>8. Reverse(back) = list
    <2>1. PICK again : again = Reverse(back)
      OBVIOUS
    <2>2. again = [i \in 1..n |-> back[n - i + 1]]
      BY <1>5, <2>1 DEF Reverse
    <2>3. \A i \in 1..n : again[i] = list[i]
      BY <1>3, <1>6, <2>2
    <2>4. again \in [1..n -> Buffer]
      BY <1>2, <2>2, <2>3
    <2>5. again \in Seq(Buffer) /\ Len(again) = n
      BY <1>2, <2>4
    <2>6. again = list
      BY <1>1, <1>2, <2>3, <2>5, SeqEqual
    <2> QED
      BY <2>1, <2>6
  <1> QED
    BY <1>1, <1>5, <1>6, <1>7, <1>8 DEF Once

(* What the loop over the tail drops.                                        *)
LEMMA FrontIs ==
  ASSUME NEW list, Once(list), list # <<>>
  PROVE  /\ Len(list) \in 1..Len(list)
         /\ RemoveAt(list, Len(list)) = Front(list)
  <1>1. PICK n : n = Len(list)
    OBVIOUS
  <1>2. n \in Nat \ {0} /\ list \in Seq(Buffer)
    BY <1>1, EmptySeq DEF Once
  <1>3. SubSeq(list, n + 1, n) = <<>>
    BY <1>2, SubSeqEmpty
  <1>4. PICK front : front = SubSeq(list, 1, n - 1)
    OBVIOUS
  <1>5. front \in Seq(Buffer)
    BY <1>1, <1>2, <1>4
  <1>6. front \o <<>> = front
    BY <1>5, ConcatEmptySeq
  <1> QED
    BY <1>1, <1>2, <1>3, <1>4, <1>6 DEF RemoveAt, Front

-----------------------------------------------------------------------------
(* Reading the list in either direction gives its buffers.                   *)
LEMMA ChainWalks ==
  ASSUME NEW o, NEW h, NEW t, NEW p, NEW n, Chain(o, h, t, p, n), BufferCacheAssumption
  PROVE  Walk(h, n) = o /\ Walk(t, p) = Reverse(o)
  <1>1. Once(o) /\ p \in [Buffer -> Nodes] /\ n \in [Buffer -> Nodes] /\ h = HeadOf(o) /\ t = TailOf(o)
    BY DEF Chain
  <1>2. Linked(o, n)
    BY DEF Chain, Linked, After
  <1>3. Walk(h, n) = o
    BY <1>1, <1>2, WalkIs
  <1>4. PICK N, back : N = Len(o) /\ back = Reverse(o)
    OBVIOUS
  <1>5. /\ Once(back) /\ Len(back) = N
        /\ \A i \in 1..N : back[i] = o[N - i + 1]
    BY <1>1, <1>4, ReverseOnce
  <1>6. N \in Nat
    BY <1>1, <1>4 DEF Once
  <1>7. ASSUME NEW i \in 1..N
        PROVE  p[back[i]] = IF i = N THEN Null ELSE back[i + 1]
    <2>1. PICK k : k = N - i + 1
      OBVIOUS
    <2>2. k \in 1..N /\ (k = 1 <=> i = N) /\ (i # N => i + 1 \in 1..N /\ N - (i + 1) + 1 = k - 1)
      BY <1>6, <2>1
    <2>3. p[o[k]] = IF k = 1 THEN Null ELSE o[k - 1]
      BY <1>4, <2>2 DEF Chain, Before
    <2>4. back[i] = o[k] /\ (i # N => back[i + 1] = o[k - 1])
      BY <1>5, <2>1, <2>2
    <2> QED
      BY <2>2, <2>3, <2>4
  <1>8. Linked(back, p)
    BY <1>5, <1>7 DEF Linked
  <1>9. HeadOf(back) = t
    <2>1. CASE N = 0
      <3>1. o = <<>>
        BY <1>1, <1>4, <2>1, EmptySeq DEF Once
      <3>2. back = <<>>
        BY <1>5, <2>1, EmptySeq DEF Once
      <3> QED
        BY <1>1, <3>1, <3>2 DEF HeadOf, TailOf
    <2>2. CASE N # 0
      <3>1. o # <<>> /\ back # <<>>
        BY <1>4, <1>5, <2>2
      <3>2. 1 \in 1..N /\ N - 1 + 1 = N
        BY <1>6, <2>2
      <3>3. back[1] = o[N]
        BY <1>5, <3>2
      <3> QED
        BY <1>1, <1>4, <3>1, <3>3 DEF HeadOf, TailOf
    <2> QED
      BY <2>1, <2>2
  <1>10. Walk(HeadOf(back), p) = back
    BY <1>1, <1>5, <1>8, WalkIs
  <1> QED
    BY <1>3, <1>4, <1>9, <1>10

LEMMA ChainEmpty ==
  Chain(<<>>, Null, Null, [b \in Buffer |-> Null], [b \in Buffer |-> Null])
  <1>1. PICK z : z = [b \in Buffer |-> Null]
    OBVIOUS
  <1>2. z \in [Buffer -> Nodes] /\ \A b \in Buffer : z[b] = Null
    BY <1>1 DEF Nodes
  <1>3. Once(<<>>) /\ ToSet(<<>>) = {} /\ Len(<<>>) = 0
    BY DEF Once, IsInjective, ToSet
  <1>4. HeadOf(<<>>) = Null /\ TailOf(<<>>) = Null
    BY DEF HeadOf, TailOf
  <1>5. \A i \in 1..0 : FALSE
    OBVIOUS
  <1> QED
    BY <1>1, <1>2, <1>3, <1>4, <1>5 DEF Chain

(* The pointers after the k-th buffer of o is unlinked.                      *)
Unlinked(o, k, h, t, p, n, hh, tt, pp, nn) ==
  /\ pp \in [Buffer -> Nodes] /\ nn \in [Buffer -> Nodes]
  /\ hh = IF k = 1 THEN After(o, 1) ELSE h
  /\ tt = IF k = Len(o) THEN Before(o, k) ELSE t
  /\ \A c \in Buffer :
       /\ nn[c] = IF c = o[k] THEN Null ELSE IF k > 1 /\ c = o[k - 1] THEN After(o, k) ELSE n[c]
       /\ pp[c] = IF c = o[k] THEN Null ELSE IF k < Len(o) /\ c = o[k + 1] THEN Before(o, k) ELSE p[c]

LEMMA UnlinkedChain ==
  ASSUME NEW o, NEW h, NEW t, NEW p, NEW n, Chain(o, h, t, p, n), NEW k \in 1..Len(o),
         NEW hh, NEW tt, NEW pp, NEW nn, Unlinked(o, k, h, t, p, n, hh, tt, pp, nn)
  PROVE  Chain(RemoveAt(o, k), hh, tt, pp, nn)
  <1>1. PICK N, rest : N = Len(o) /\ rest = RemoveAt(o, k)
    OBVIOUS
  <1>2. /\ N \in Nat /\ DOMAIN o = 1..N /\ o \in Seq(Buffer) /\ k \in 1..N
        /\ \A i \in 1..N : o[i] \in Buffer
        /\ \A i, j \in 1..N : o[i] = o[j] => i = j
    BY <1>1 DEF Chain, Once, IsInjective
  <1>3. /\ rest \in Seq(Buffer) /\ Len(rest) = N - 1
        /\ \A j \in 1..(N - 1) : rest[j] = IF j < k THEN o[j] ELSE o[j + 1]
    BY <1>1, <1>2, RemoveAtElements
  <1>4. Once(rest) /\ ToSet(rest) = ToSet(o) \ {o[k]}
    BY <1>1, <1>2, RemoveAtOnce DEF Chain
  <1>5. hh = HeadOf(rest)
    <2>1. CASE N = 1
      <3>1. k = 1 /\ Len(rest) = 0
        BY <1>2, <1>3, <2>1
      <3>2. rest = <<>>
        BY <1>3, <3>1, EmptySeq
      <3> QED
        BY <1>1, <2>1, <3>1, <3>2 DEF Unlinked, After, HeadOf
    <2>2. CASE N # 1
      <3>1. 1 \in 1..(N - 1) /\ N # 0
        BY <1>2, <2>2
      <3>2. rest # <<>> /\ o # <<>>
        BY <1>1, <1>3, <2>2, <3>1
      <3>3. rest[1] = IF 1 < k THEN o[1] ELSE o[2]
        BY <1>3, <3>1
      <3>4. hh = IF k = 1 THEN o[2] ELSE h
        BY <1>1, <2>2 DEF Unlinked, After
      <3>5. h = o[1]
        BY <3>2 DEF Chain, HeadOf
      <3>6. 1 < k <=> k # 1
        BY <1>2
      <3> QED
        BY <3>2, <3>3, <3>4, <3>5, <3>6 DEF HeadOf
    <2> QED
      BY <2>1, <2>2
  <1>6. tt = TailOf(rest)
    <2>1. CASE N = 1
      <3>1. k = 1 /\ Len(rest) = 0
        BY <1>2, <1>3, <2>1
      <3>2. rest = <<>>
        BY <1>3, <3>1, EmptySeq
      <3> QED
        BY <1>1, <2>1, <3>1, <3>2 DEF Unlinked, Before, TailOf
    <2>2. CASE N # 1
      <3>1. N - 1 \in 1..(N - 1) /\ N # 0 /\ N - 1 + 1 = N /\ (N - 1 < k <=> k = N)
        BY <1>2, <2>2
      <3>2. rest # <<>> /\ o # <<>>
        BY <1>1, <1>3, <2>2, <3>1
      <3>3. rest[N - 1] = IF k = N THEN o[N - 1] ELSE o[N]
        BY <1>3, <3>1
      <3>4. tt = IF k = N THEN o[N - 1] ELSE t
        BY <1>1, <2>2 DEF Unlinked, Before
      <3>5. t = o[N]
        BY <1>1, <3>2 DEF Chain, TailOf
      <3> QED
        BY <1>3, <3>2, <3>3, <3>4, <3>5 DEF TailOf
    <2> QED
      BY <2>1, <2>2
  <1>7. ASSUME NEW j \in 1..(N - 1)
        PROVE  nn[rest[j]] = After(rest, j) /\ pp[rest[j]] = Before(rest, j)
    <2>1. PICK m, c : m = (IF j < k THEN j ELSE j + 1) /\ c = rest[j]
      OBVIOUS
    <2>2. m \in 1..N /\ m # k
      BY <1>2, <2>1
    <2>3. c = o[m] /\ c \in Buffer /\ c # o[k]
      BY <1>2, <1>3, <2>1, <2>2
    <2>4. nn[c] = IF k > 1 /\ c = o[k - 1] THEN After(o, k) ELSE n[c]
      BY <2>3 DEF Unlinked
    <2>5. pp[c] = IF k < N /\ c = o[k + 1] THEN Before(o, k) ELSE p[c]
      BY <1>1, <2>3 DEF Unlinked
    <2>6. n[c] = After(o, m) /\ p[c] = Before(o, m)
      BY <1>1, <2>2, <2>3 DEF Chain
    <2>7. k > 1 => k - 1 \in 1..N
      BY <1>2
    <2>8. k < N => k + 1 \in 1..N
      BY <1>2
    <2>9. k > 1 /\ c = o[k - 1] <=> m = k - 1
      BY <1>2, <2>2, <2>3, <2>7
    <2>10. k < N /\ c = o[k + 1] <=> m = k + 1
      BY <1>2, <2>2, <2>3, <2>8
    <2>11. After(rest, j) = IF j = N - 1 THEN Null ELSE IF j + 1 < k THEN o[j + 1] ELSE o[j + 2]
      <3>1. j # N - 1 => j + 1 \in 1..(N - 1) /\ (j + 1) + 1 = j + 2
        BY <1>2
      <3> QED
        BY <1>3, <3>1 DEF After
    <2>12. Before(rest, j) = IF j = 1 THEN Null ELSE IF j - 1 < k THEN o[j - 1] ELSE o[j]
      <3>1. j # 1 => j - 1 \in 1..(N - 1) /\ (j - 1) + 1 = j
        BY <1>2
      <3> QED
        BY <1>3, <3>1 DEF Before
    <2>13. nn[c] = After(rest, j)
      <3>1. CASE m = k - 1
        <4>1. j = k - 1 /\ (j = N - 1 <=> k = N) /\ ~ (j + 1 < k) /\ j + 2 = k + 1
          BY <1>2, <2>1, <3>1
        <4> QED
          BY <1>1, <2>4, <2>9, <2>11, <3>1, <4>1 DEF After
      <3>2. CASE m # k - 1 /\ m < k
        <4>1. j = m /\ j # N - 1 /\ j + 1 < k /\ m # N
          BY <1>2, <2>1, <2>2, <3>2
        <4> QED
          BY <1>1, <2>4, <2>6, <2>9, <2>11, <3>2, <4>1 DEF After
      <3>3. CASE m > k
        <4>1. j = m - 1 /\ (j = N - 1 <=> m = N) /\ ~ (j + 1 < k) /\ j + 2 = m + 1 /\ m # k - 1
          BY <1>2, <2>1, <2>2, <3>3
        <4> QED
          BY <1>1, <2>4, <2>6, <2>9, <2>11, <4>1 DEF After
      <3> QED
        BY <1>2, <2>2, <3>1, <3>2, <3>3
    <2>14. pp[c] = Before(rest, j)
      <3>1. CASE m = k + 1
        <4>1. j = k /\ j - 1 < k
          BY <1>2, <2>1, <3>1
        <4> QED
          BY <2>5, <2>10, <2>12, <3>1, <4>1 DEF Before
      <3>2. CASE m # k + 1 /\ m > k
        <4>1. j = m - 1 /\ j # 1 /\ ~ (j - 1 < k) /\ m # 1
          BY <1>2, <2>1, <2>2, <3>2
        <4> QED
          BY <2>5, <2>6, <2>10, <2>12, <3>2, <4>1 DEF Before
      <3>3. CASE m < k
        <4>1. j = m /\ j - 1 < k /\ m # k + 1
          BY <1>2, <2>1, <2>2, <3>3
        <4> QED
          BY <2>5, <2>6, <2>10, <2>12, <4>1 DEF Before
      <3> QED
        BY <1>2, <2>2, <3>1, <3>2, <3>3
    <2> QED
      BY <2>1, <2>13, <2>14
  <1>8. ASSUME NEW c \in Buffer, c \notin ToSet(rest)
        PROVE  nn[c] = Null /\ pp[c] = Null
    <2>1. CASE c = o[k]
      BY <2>1 DEF Unlinked
    <2>2. CASE c # o[k]
      <3>1. c \notin ToSet(o)
        BY <1>4, <1>8, <2>2
      <3>2. \A i \in 1..N : c # o[i]
        BY <1>2, <3>1 DEF ToSet
      <3>3. (k > 1 => c # o[k - 1]) /\ (k < N => c # o[k + 1])
        BY <1>2, <3>2
      <3>4. n[c] = Null /\ p[c] = Null
        BY <3>1 DEF Chain
      <3> QED
        BY <1>1, <2>2, <3>3, <3>4 DEF Unlinked
    <2> QED
      BY <2>1, <2>2
  <1> QED
    BY <1>1, <1>3, <1>4, <1>5, <1>6, <1>7, <1>8 DEF Chain, Unlinked

(* remove_from_list: whichever of its cases a buffer of the list is in, it   *)
(* unlinks the buffer; one of them applies.                                  *)
LEMMA RemoveUnlinks ==
  ASSUME NEW o, Chain(o, head, tail, prev, next), NEW k \in 1..Len(o), RemoveFromList(o[k]),
         BufferCacheAssumption
  PROVE  Chain(RemoveAt(o, k), head', tail', prev', next')
  <1>1. PICK N, b : N = Len(o) /\ b = o[k]
    OBVIOUS
  <1>2. PICK h, t, p, n : h = head /\ t = tail /\ p = prev /\ n = next
    OBVIOUS
  <1>3. PICK hh, tt, pp, nn : hh = head' /\ tt = tail' /\ pp = prev' /\ nn = next'
    OBVIOUS
  <1>4. Chain(o, h, t, p, n)
    BY <1>2
  <1>5. /\ N \in Nat /\ DOMAIN o = 1..N /\ o \in Seq(Buffer) /\ k \in 1..N
        /\ \A i \in 1..N : o[i] \in Buffer /\ o[i] # Null
        /\ \A i, j \in 1..N : o[i] = o[j] => i = j
    BY <1>1, <1>4, BufferCacheAssumption DEF Chain, Once, IsInjective
  <1>6. n[b] = After(o, k) /\ p[b] = Before(o, k) /\ b \in Buffer /\ b # Null
    BY <1>1, <1>4, <1>5 DEF Chain
  <1>7. p \in [Buffer -> Nodes] /\ n \in [Buffer -> Nodes]
    BY <1>4 DEF Chain
  <1>8. k < N => n[b] = o[k + 1] /\ o[k + 1] \in Buffer /\ o[k + 1] # Null /\ o[k + 1] # b /\ k # N
    <2>1. k < N => k + 1 \in 1..N /\ k + 1 # k /\ k # N
      BY <1>5
    <2> QED
      BY <1>1, <1>5, <1>6, <2>1 DEF After
  <1>9. k > 1 => p[b] = o[k - 1] /\ o[k - 1] \in Buffer /\ o[k - 1] # Null /\ o[k - 1] # b /\ k # 1
    <2>1. k > 1 => k - 1 \in 1..N /\ k - 1 # k /\ k # 1
      BY <1>5
    <2> QED
      BY <1>1, <1>5, <1>6, <2>1 DEF Before
  <1>10. (k = N => n[b] = Null) /\ (k = 1 => p[b] = Null)
    BY <1>1, <1>6 DEF After, Before
  <1>11. (k < N <=> k # N) /\ (k > 1 <=> k # 1)
    BY <1>5
  <1>12. CASE Middle(b)
    <2>1. p[b] # Null /\ n[b] # Null
      BY <1>2, <1>12 DEF Middle
    <2>2. k < N /\ k > 1
      BY <1>10, <1>11, <2>1
    <2>3. nn = [n EXCEPT ![p[b]] = n[b], ![b] = Null] /\ pp = [p EXCEPT ![n[b]] = p[b], ![b] = Null]
          /\ hh = h /\ tt = t
      BY <1>2, <1>3, <1>12 DEF Middle
    <2>4. nn \in [Buffer -> Nodes] /\ pp \in [Buffer -> Nodes]
      BY <1>6, <1>7, <1>8, <1>9, <2>2, <2>3 DEF Nodes
    <2>5. \A c \in Buffer :
            /\ nn[c] = IF c = b THEN Null ELSE IF c = o[k - 1] THEN n[b] ELSE n[c]
            /\ pp[c] = IF c = b THEN Null ELSE IF c = o[k + 1] THEN p[b] ELSE p[c]
      BY <1>6, <1>7, <1>8, <1>9, <2>2, <2>3
    <2>6. Unlinked(o, k, h, t, p, n, hh, tt, pp, nn)
      BY <1>1, <1>6, <1>11, <2>2, <2>3, <2>4, <2>5 DEF Unlinked
    <2> QED
      BY <1>1, <1>3, <1>4, <2>6, UnlinkedChain
  <1>13. CASE AtTail(b)
    <2>1. p[b] # Null /\ n[b] = Null
      BY <1>2, <1>13 DEF AtTail
    <2>2. k = N /\ k > 1
      BY <1>8, <1>10, <1>11, <2>1
    <2>3. nn = [n EXCEPT ![p[b]] = Null] /\ pp = [p EXCEPT ![b] = Null] /\ hh = h /\ tt = p[b]
      BY <1>2, <1>3, <1>13 DEF AtTail
    <2>4. nn \in [Buffer -> Nodes] /\ pp \in [Buffer -> Nodes]
      BY <1>6, <1>7, <1>9, <2>2, <2>3 DEF Nodes
    <2>5. \A c \in Buffer :
            /\ nn[c] = IF c = o[k - 1] THEN Null ELSE n[c]
            /\ pp[c] = IF c = b THEN Null ELSE p[c]
      BY <1>6, <1>7, <1>9, <2>2, <2>3
    <2>6. \A c \in Buffer :
            /\ nn[c] = IF c = b THEN Null ELSE IF c = o[k - 1] THEN n[b] ELSE n[c]
            /\ pp[c] = IF c = b THEN Null ELSE p[c]
      BY <1>9, <2>1, <2>2, <2>5
    <2>7. Unlinked(o, k, h, t, p, n, hh, tt, pp, nn)
      BY <1>1, <1>6, <1>11, <2>2, <2>3, <2>4, <2>6 DEF Unlinked
    <2> QED
      BY <1>1, <1>3, <1>4, <2>7, UnlinkedChain
  <1>14. CASE AtHead(b)
    <2>1. p[b] = Null /\ n[b] # Null
      BY <1>2, <1>14 DEF AtHead
    <2>2. k < N /\ k = 1
      BY <1>9, <1>10, <1>11, <2>1
    <2>3. nn = [n EXCEPT ![b] = Null] /\ pp = [p EXCEPT ![n[b]] = Null] /\ hh = n[b] /\ tt = t
      BY <1>2, <1>3, <1>14 DEF AtHead
    <2>4. nn \in [Buffer -> Nodes] /\ pp \in [Buffer -> Nodes]
      BY <1>6, <1>7, <1>8, <2>2, <2>3 DEF Nodes
    <2>5. \A c \in Buffer :
            /\ nn[c] = IF c = b THEN Null ELSE n[c]
            /\ pp[c] = IF c = o[k + 1] THEN Null ELSE p[c]
      BY <1>6, <1>7, <1>8, <2>2, <2>3
    <2>6. \A c \in Buffer :
            /\ nn[c] = IF c = b THEN Null ELSE n[c]
            /\ pp[c] = IF c = b THEN Null ELSE IF c = o[k + 1] THEN p[b] ELSE p[c]
      BY <1>8, <2>1, <2>2, <2>5
    <2>7. Unlinked(o, k, h, t, p, n, hh, tt, pp, nn)
      BY <1>1, <1>6, <1>11, <2>2, <2>3, <2>4, <2>6 DEF Unlinked
    <2> QED
      BY <1>1, <1>3, <1>4, <2>7, UnlinkedChain
  <1>15. CASE OnlyOne(b)
    <2>1. p[b] = Null /\ n[b] = Null
      BY <1>2, <1>15 DEF OnlyOne
    <2>2. k = N /\ k = 1
      BY <1>8, <1>9, <1>11, <2>1
    <2>3. nn = n /\ pp = p /\ hh = Null /\ tt = Null
      BY <1>2, <1>3, <1>15 DEF OnlyOne
    <2>4. After(o, 1) = Null /\ Before(o, k) = Null /\ ~ (k > 1) /\ ~ (k < N)
      BY <1>6, <1>11, <2>1, <2>2
    <2>5. \A c \in Buffer : nn[c] = (IF c = b THEN Null ELSE n[c]) /\ pp[c] = (IF c = b THEN Null ELSE p[c])
      BY <2>1, <2>3
    <2>6. Unlinked(o, k, h, t, p, n, hh, tt, pp, nn)
      BY <1>1, <1>7, <2>2, <2>3, <2>4, <2>5 DEF Unlinked
    <2> QED
      BY <1>1, <1>3, <1>4, <2>6, UnlinkedChain
  <1> QED
    BY <1>1, <1>12, <1>13, <1>14, <1>15 DEF RemoveFromList

(* add_at_head.                                                              *)
LEMMA AddLinks ==
  ASSUME NEW o, Chain(o, head, tail, prev, next), NEW b \in Buffer, b \notin ToSet(o), AddAtHead(b),
         BufferCacheAssumption
  PROVE  Chain(<<b>> \o o, head', tail', prev', next')
  <1>1. PICK N, longer : N = Len(o) /\ longer = <<b>> \o o
    OBVIOUS
  <1>2. PICK h, t, p, n : h = head /\ t = tail /\ p = prev /\ n = next
    OBVIOUS
  <1>3. PICK hh, tt, pp, nn : hh = head' /\ tt = tail' /\ pp = prev' /\ nn = next'
    OBVIOUS
  <1>4. Chain(o, h, t, p, n)
    BY <1>2
  <1>5. /\ N \in Nat /\ DOMAIN o = 1..N /\ o \in Seq(Buffer)
        /\ \A i \in 1..N : o[i] \in Buffer /\ o[i] # Null /\ o[i] # b
        /\ \A i, j \in 1..N : o[i] = o[j] => i = j
        /\ b # Null
    <2>1. Once(o) /\ N \in Nat
      BY <1>1, <1>4 DEF Chain, Once
    <2>2. DOMAIN o = 1..N /\ \A i, j \in 1..N : o[i] = o[j] => i = j
      <3>1. DOMAIN o = 1..N
        BY <1>1, <2>1 DEF Once
      <3> QED
        BY <2>1, <3>1 DEF Once, IsInjective
    <2>3. \A i \in 1..N : o[i] # b
      BY <2>2 DEF ToSet
    <2>4. o \in Seq(Buffer) /\ \A i \in 1..N : o[i] \in Buffer
      BY <1>1, <2>1 DEF Once
    <2> QED
      BY <2>1, <2>2, <2>3, <2>4, BufferCacheAssumption
  <1>6. p \in [Buffer -> Nodes] /\ n \in [Buffer -> Nodes] /\ h = HeadOf(o) /\ t = TailOf(o)
    BY <1>4 DEF Chain
  <1>7. Once(longer) /\ ToSet(longer) = ToSet(o) \cup {b}
    BY <1>1, <1>4, ConsOnce DEF Chain
  <1>8. /\ longer \in Seq(Buffer) /\ Len(longer) = N + 1 /\ longer[1] = b
        /\ \A j \in 2..(N + 1) : longer[j] = o[j - 1]
    BY <1>1, <1>5
  <1>9. /\ hh = b
        /\ tt = IF h = Null THEN b ELSE t
        /\ pp = IF h = Null THEN p ELSE [p EXCEPT ![h] = b]
        /\ nn = IF h = Null THEN n ELSE [n EXCEPT ![b] = h]
    BY <1>2, <1>3 DEF AddAtHead
  <1>10. n[b] = Null /\ p[b] = Null
    BY <1>4 DEF Chain
  <1>11. N # 0 => 1 \in 1..N /\ o # <<>> /\ h = o[1] /\ h \in Buffer /\ h # Null /\ h # b
    <2>1. N # 0 => o # <<>> /\ 1 \in 1..N
      BY <1>1, <1>5
    <2> QED
      BY <1>5, <1>6, <2>1 DEF HeadOf
  <1>12. N = 0 => o = <<>> /\ h = Null
    <2>1. N = 0 => o = <<>>
      BY <1>1, <1>5, EmptySeq
    <2> QED
      BY <1>6, <2>1 DEF HeadOf
  <1>13. /\ pp \in [Buffer -> Nodes] /\ nn \in [Buffer -> Nodes]
         /\ \A c \in Buffer :
              /\ nn[c] = IF c = b /\ N # 0 THEN o[1] ELSE n[c]
              /\ pp[c] = IF N # 0 /\ c = o[1] THEN b ELSE p[c]
    <2>1. CASE N = 0
      BY <1>6, <1>9, <1>12, <2>1
    <2>2. CASE N # 0
      <3>1. pp = [p EXCEPT ![h] = b] /\ nn = [n EXCEPT ![b] = h] /\ h \in Nodes /\ b \in Nodes
        BY <1>9, <1>11, <2>2 DEF Nodes
      <3>2. pp \in [Buffer -> Nodes] /\ nn \in [Buffer -> Nodes]
        BY <1>6, <3>1
      <3>3. \A c \in Buffer : nn[c] = (IF c = b THEN h ELSE n[c]) /\ pp[c] = (IF c = h THEN b ELSE p[c])
        BY <1>6, <3>1
      <3> QED
        BY <1>11, <2>2, <3>2, <3>3
    <2> QED
      BY <2>1, <2>2
  <1>14. hh = HeadOf(longer) /\ tt = TailOf(longer)
    <2>1. longer # <<>>
      BY <1>5, <1>8
    <2>2. tt = longer[N + 1]
      <3>1. CASE N = 0
        BY <1>8, <1>9, <1>12, <3>1
      <3>2. CASE N # 0
        <4>1. N + 1 \in 2..(N + 1) /\ (N + 1) - 1 = N
          BY <1>5, <3>2
        <4>2. longer[N + 1] = o[N]
          BY <1>8, <4>1
        <4> QED
          BY <1>1, <1>6, <1>9, <1>11, <3>2, <4>2 DEF TailOf
      <3> QED
        BY <3>1, <3>2
    <2> QED
      BY <1>8, <1>9, <2>1, <2>2 DEF HeadOf, TailOf
  <1>15. ASSUME NEW j \in 1..(N + 1)
         PROVE  nn[longer[j]] = After(longer, j) /\ pp[longer[j]] = Before(longer, j)
    <2>1. CASE j = 1
      <3>1. longer[1] = b /\ b \in Buffer
        BY <1>8
      <3>2. After(longer, 1) = IF N = 0 THEN Null ELSE o[1]
        <4>1. N # 0 => 2 \in 2..(N + 1)
          BY <1>5
        <4>2. 1 = N + 1 <=> N = 0
          BY <1>5
        <4> QED
          BY <1>8, <4>1, <4>2 DEF After
      <3>3. Before(longer, 1) = Null
        BY DEF Before
      <3>4. nn[b] = IF N # 0 THEN o[1] ELSE Null
        BY <1>10, <1>13
      <3>5. pp[b] = Null
        BY <1>5, <1>10, <1>11, <1>13
      <3> QED
        BY <2>1, <3>1, <3>2, <3>3, <3>4, <3>5
    <2>2. CASE j # 1
      <3>1. PICK i, c : i = j - 1 /\ c = longer[j]
        OBVIOUS
      <3>2. i \in 1..N /\ j \in 2..(N + 1) /\ N # 0
        BY <1>5, <2>2, <3>1
      <3>3. c = o[i] /\ c \in Buffer /\ c # b
        BY <1>5, <1>8, <3>1, <3>2
      <3>4. nn[c] = After(o, i)
        BY <1>1, <1>4, <1>13, <3>2, <3>3 DEF Chain
      <3>5. p[c] = Before(o, i)
        BY <1>1, <1>4, <3>2, <3>3 DEF Chain
      <3>6. c = o[1] <=> i = 1
        BY <1>5, <1>11, <3>2, <3>3
      <3>7. pp[c] = IF i = 1 THEN b ELSE o[i - 1]
        BY <1>13, <3>2, <3>3, <3>5, <3>6 DEF Before
      <3>8. After(longer, j) = After(o, i)
        <4>1. (j = N + 1 <=> i = N) /\ (j # N + 1 => j + 1 \in 2..(N + 1) /\ (j + 1) - 1 = i + 1)
          BY <1>5, <3>1, <3>2
        <4> QED
          BY <1>1, <1>8, <4>1 DEF After
      <3>9. Before(longer, j) = IF i = 1 THEN b ELSE o[i - 1]
        <4>1. i # 1 => i \in 2..(N + 1)
          BY <1>5, <3>2
        <4>2. Before(longer, j) = longer[i]
          BY <2>2, <3>1 DEF Before
        <4> QED
          BY <1>8, <4>1, <4>2
      <3> QED
        BY <3>1, <3>4, <3>7, <3>8, <3>9
    <2> QED
      BY <2>1, <2>2
  <1>16. ASSUME NEW c \in Buffer, c \notin ToSet(longer)
         PROVE  nn[c] = Null /\ pp[c] = Null
    <2>1. c # b /\ c \notin ToSet(o)
      BY <1>7, <1>16
    <2>2. n[c] = Null /\ p[c] = Null
      BY <1>4, <2>1 DEF Chain
    <2>3. N # 0 => c # o[1]
      BY <1>5, <1>11, <2>1 DEF ToSet
    <2> QED
      BY <1>13, <2>1, <2>2, <2>3
  <1>17. Chain(longer, hh, tt, pp, nn)
    BY <1>7, <1>8, <1>13, <1>14, <1>15, <1>16 DEF Chain
  <1> QED
    BY <1>1, <1>3, <1>17

-----------------------------------------------------------------------------
(* The multimap.                                                             *)
LEMMA AgreesEmpty == Agrees(<<>>, <<>>)
  <1>1. Once(<<>>) /\ Len(<<>>) = 0
    BY DEF Once, IsInjective
  <1>2. \A i \in 1..0 : FALSE
    OBVIOUS
  <1> QED
    BY <1>1, <1>2 DEF Agrees

LEMMA AgreesRemove ==
  ASSUME NEW o, NEW x, Agrees(o, x), NEW k \in 1..Len(o), NEW i \in 1..Len(x), o[k] = x[i]
  PROVE  Agrees(RemoveAt(o, k), RemoveAt(x, i))
  <1>1. PICK M, N, oo, xx : M = Len(o) /\ N = Len(x) /\ oo = RemoveAt(o, k) /\ xx = RemoveAt(x, i)
    OBVIOUS
  <1>2. /\ M \in Nat /\ DOMAIN o = 1..M /\ o \in Seq(Buffer) /\ k \in 1..M
        /\ \A a, b \in 1..M : o[a] = o[b] => a = b
    BY <1>1 DEF Agrees, Once, IsInjective
  <1>3. /\ N \in Nat /\ DOMAIN x = 1..N /\ x \in Seq(Buffer) /\ i \in 1..N
        /\ \A a, b \in 1..N : x[a] = x[b] => a = b
    BY <1>1 DEF Agrees, Once, IsInjective
  <1>4. /\ Len(oo) = M - 1
        /\ \A j \in 1..(M - 1) : oo[j] = IF j < k THEN o[j] ELSE o[j + 1]
    BY <1>1, <1>2, RemoveAtElements
  <1>5. /\ Len(xx) = N - 1
        /\ \A j \in 1..(N - 1) : xx[j] = IF j < i THEN x[j] ELSE x[j + 1]
    BY <1>1, <1>3, RemoveAtElements
  <1>6. Once(oo) /\ ToSet(oo) = ToSet(o) \ {o[k]} /\ Once(xx) /\ ToSet(xx) = ToSet(x) \ {x[i]}
    BY <1>1, <1>2, <1>3, RemoveAtOnce DEF Agrees
  <1>7. ASSUME NEW b, NEW c, Older(o, b, c), b # o[k], c # o[k]
        PROVE  Older(oo, b, c)
    <2>1. PICK u, v \in 1..M : o[u] = b /\ o[v] = c /\ u > v
      BY <1>1, <1>7 DEF Older
    <2>2. u # k /\ v # k
      BY <1>7, <2>1
    <2>3. PICK q, r : q = (IF u < k THEN u ELSE u - 1) /\ r = (IF v < k THEN v ELSE v - 1)
      OBVIOUS
    <2>4. q \in 1..(M - 1) /\ r \in 1..(M - 1) /\ q > r
      BY <1>2, <2>1, <2>2, <2>3
    <2>5. (q < k <=> u < k) /\ (r < k <=> v < k) /\ (~ (u < k) => q + 1 = u) /\ (~ (v < k) => r + 1 = v)
      BY <1>2, <2>1, <2>2, <2>3
    <2>6. oo[q] = o[u] /\ oo[r] = o[v]
      BY <1>4, <2>3, <2>4, <2>5
    <2> QED
      BY <1>4, <2>1, <2>4, <2>6 DEF Older
  <1>8. ASSUME NEW a \in 1..(N - 1), NEW b \in 1..(N - 1), a < b
        PROVE  \/ Length[xx[a]] < Length[xx[b]]
               \/ Length[xx[a]] = Length[xx[b]] /\ Older(oo, xx[a], xx[b])
    <2>1. PICK q, r : q = (IF a < i THEN a ELSE a + 1) /\ r = (IF b < i THEN b ELSE b + 1)
      OBVIOUS
    <2>2. q \in 1..N /\ r \in 1..N /\ q < r /\ q # i /\ r # i
      BY <1>3, <1>8, <2>1
    <2>3. xx[a] = x[q] /\ xx[b] = x[r]
      BY <1>5, <2>1
    <2>4. x[q] # x[i] /\ x[r] # x[i]
      BY <1>3, <2>2
    <2>5. \/ Length[x[q]] < Length[x[r]]
          \/ Length[x[q]] = Length[x[r]] /\ Older(o, x[q], x[r])
      BY <1>1, <2>2 DEF Agrees
    <2> QED
      BY <1>7, <2>3, <2>4, <2>5
  <1>9. ToSet(xx) = ToSet(oo)
    BY <1>6 DEF Agrees
  <1>10. Agrees(oo, xx)
    BY <1>5, <1>6, <1>8, <1>9 DEF Agrees
  <1> QED
    BY <1>1, <1>10

(* emplace: the buffer goes behind those that are not longer.                *)
NotLonger(x, b) == Cardinality({i \in DOMAIN x : Length[x[i]] <= Length[b]})

LEMMA AgreesInsert ==
  ASSUME NEW o, NEW x, Agrees(o, x), NEW b \in Buffer, b \notin ToSet(o),
         NEW at, at = NotLonger(x, b) + 1
  PROVE  /\ at \in 1..(Len(x) + 1)
         /\ Agrees(<<b>> \o o, InsertAt(x, at, b))
  <1>1. PICK M, N, oo, xx : M = Len(o) /\ N = Len(x) /\ oo = <<b>> \o o /\ xx = InsertAt(x, at, b)
    OBVIOUS
  <1>2. M \in Nat /\ DOMAIN o = 1..M /\ o \in Seq(Buffer) /\ Once(o)
    BY <1>1 DEF Agrees, Once
  <1>3. N \in Nat /\ DOMAIN x = 1..N /\ x \in Seq(Buffer) /\ Once(x) /\ \A i \in 1..N : x[i] \in Buffer
    BY <1>1 DEF Agrees, Once
  <1>4. PICK P, m : P = {i \in 1..N : Length[x[i]] <= Length[b]} /\ m = Cardinality(P)
    OBVIOUS
  <1>5. at = m + 1
    BY <1>3, <1>4 DEF NotLonger
  <1>6. Length[b] \in Nat /\ \A i \in 1..N : Length[x[i]] \in Nat
    BY <1>3, FreeBuffersAssumption
  <1>7. \A i, j \in 1..N : i < j =>
          \/ Length[x[i]] < Length[x[j]]
          \/ Length[x[i]] = Length[x[j]] /\ Older(o, x[i], x[j])
    BY <1>1 DEF Agrees
  <1>8. m \in 0..N /\ P = 1..m
    <2>1. ASSUME NEW i \in P, NEW j \in 1..N, j <= i
          PROVE  j \in P
      <3>1. i \in 1..N /\ Length[x[i]] <= Length[b]
        BY <1>4
      <3>2. Length[x[j]] <= Length[x[i]]
        <4>1. CASE j = i
          BY <1>6, <4>1
        <4>2. CASE j # i
          <5>1. j < i
            BY <2>1, <3>1, <4>2
          <5> QED
            BY <1>6, <1>7, <3>1, <5>1
        <4> QED
          BY <4>1, <4>2
      <3>3. Length[x[j]] <= Length[b]
        BY <1>6, <3>1, <3>2
      <3> QED
        BY <1>4, <3>3
    <2>2. P \in SUBSET (1..N)
      BY <1>4
    <2> QED
      BY <1>3, <1>4, <2>1, <2>2, Prefix
  <1>9. at \in 1..(N + 1)
    BY <1>3, <1>5, <1>8
  <1>10. Once(oo) /\ ToSet(oo) = ToSet(o) \cup {b}
    BY <1>1, <1>2, ConsOnce
  <1>11. ToSet(x) = ToSet(o)
    BY DEF Agrees
  <1>12. Once(xx) /\ ToSet(xx) = ToSet(x) \cup {b}
    BY <1>1, <1>3, <1>9, <1>11, InsertAtOnce
  <1>13. /\ Len(xx) = N + 1
         /\ \A j \in 1..(N + 1) : xx[j] = IF j < at THEN x[j] ELSE IF j = at THEN b ELSE x[j - 1]
    <2>1. x \in Seq(Buffer) /\ at \in 1..(Len(x) + 1)
      BY <1>1, <1>3, <1>9
    <2>2. /\ InsertAt(x, at, b) \in Seq(Buffer)
          /\ Len(InsertAt(x, at, b)) = Len(x) + 1
          /\ \A j \in 1..(Len(x) + 1) :
               InsertAt(x, at, b)[j] = IF j < at THEN x[j] ELSE IF j = at THEN b ELSE x[j - 1]
      BY <2>1, InsertAtElements
    <2> QED
      BY <1>1, <2>2
  <1>14. /\ oo \in Seq(Buffer) /\ Len(oo) = M + 1 /\ oo[1] = b
         /\ \A j \in 2..(M + 1) : oo[j] = o[j - 1]
    BY <1>1, <1>2
  <1>15. ASSUME NEW c, NEW d, Older(o, c, d)
         PROVE  Older(oo, c, d)
    <2>1. PICK u, v \in 1..M : o[u] = c /\ o[v] = d /\ u > v
      BY <1>1, <1>15 DEF Older
    <2>2. /\ u + 1 \in 2..(M + 1) /\ v + 1 \in 2..(M + 1) /\ u + 1 > v + 1
          /\ (u + 1) - 1 = u /\ (v + 1) - 1 = v
      BY <1>2, <2>1
    <2>3. oo[u + 1] = c /\ oo[v + 1] = d
      BY <1>14, <2>1, <2>2
    <2>4. u + 1 \in 1..(M + 1) /\ v + 1 \in 1..(M + 1)
      BY <1>2, <2>1
    <2> QED
      BY <1>14, <2>2, <2>3, <2>4 DEF Older
  <1>16. ASSUME NEW c \in ToSet(o)
         PROVE  Older(oo, c, b)
    <2>1. PICK u \in 1..M : o[u] = c
      BY <1>2 DEF ToSet
    <2>2. u + 1 \in 2..(M + 1) /\ u + 1 > 1 /\ (u + 1) - 1 = u /\ u + 1 \in 1..(M + 1) /\ 1 \in 1..(M + 1)
      BY <1>2, <2>1
    <2>3. oo[u + 1] = c
      BY <1>14, <2>1, <2>2
    <2> QED
      BY <1>14, <2>2, <2>3 DEF Older
  <1>17. ASSUME NEW a \in 1..(N + 1), NEW c \in 1..(N + 1), a < c
         PROVE  \/ Length[xx[a]] < Length[xx[c]]
                \/ Length[xx[a]] = Length[xx[c]] /\ Older(oo, xx[a], xx[c])
    <2>1. CASE a # at /\ c # at
      <3>1. PICK q, r : q = (IF a < at THEN a ELSE a - 1) /\ r = (IF c < at THEN c ELSE c - 1)
        OBVIOUS
      <3>2. q \in 1..N /\ r \in 1..N /\ q < r
        BY <1>3, <1>9, <1>17, <2>1, <3>1
      <3>3. xx[a] = x[q] /\ xx[c] = x[r]
        BY <1>13, <2>1, <3>1
      <3> QED
        BY <1>7, <1>15, <3>2, <3>3
    <2>2. CASE a = at
      <3>1. c - 1 \in 1..N /\ ~ (c < at) /\ c # at /\ c - 1 \notin 1..m /\ ~ (a < at)
        BY <1>3, <1>5, <1>8, <1>9, <1>17, <2>2
      <3>2. xx[a] = b /\ xx[c] = x[c - 1]
        BY <1>13, <2>2, <3>1
      <3>3. ~ (Length[x[c - 1]] <= Length[b])
        BY <1>4, <1>8, <3>1
      <3>4. Length[b] < Length[x[c - 1]]
        <4>1. PICK u, v : u = Length[b] /\ v = Length[x[c - 1]]
          OBVIOUS
        <4>2. u \in Nat /\ v \in Nat /\ ~ (v <= u)
          BY <1>6, <3>1, <3>3, <4>1
        <4> QED
          BY <4>1, <4>2
      <3> QED
        BY <3>2, <3>4
    <2>3. CASE c = at
      <3>1. a \in 1..m /\ a < at /\ a \in 1..N /\ ~ (c < at)
        BY <1>3, <1>5, <1>8, <1>9, <1>17, <2>3
      <3>2. xx[a] = x[a] /\ xx[c] = b
        BY <1>13, <2>3, <3>1
      <3>3. Length[x[a]] <= Length[b]
        BY <1>4, <1>8, <3>1
      <3>4. x[a] \in ToSet(o)
        BY <1>3, <1>11, <3>1 DEF ToSet
      <3>5. Length[x[a]] < Length[b] \/ Length[x[a]] = Length[b]
        BY <1>6, <3>1, <3>3
      <3> QED
        BY <1>16, <3>2, <3>4, <3>5
    <2> QED
      BY <2>1, <2>2, <2>3
  <1>18. ToSet(xx) = ToSet(oo)
    BY <1>10, <1>11, <1>12
  <1>19. Agrees(oo, xx)
    BY <1>10, <1>12, <1>13, <1>17, <1>18 DEF Agrees
  <1> QED
    BY <1>1, <1>9, <1>19

(* lower_bound finds the best fit.                                           *)
LEMMA LowerBoundIsBest ==
  ASSUME NEW o, NEW x, Agrees(o, x), NEW size \in Nat, NEW i \in 1..Len(x), NEW k \in 1..Len(o), o[k] = x[i],
         size <= Length[x[i]], \A j \in 1..(i - 1) : Length[x[j]] < size
  PROVE  \A j \in DOMAIN o :
           size <= Length[o[j]] =>
             \/ Length[o[k]] < Length[o[j]]
             \/ Length[o[k]] = Length[o[j]] /\ j <= k
  <1> SUFFICES ASSUME NEW j \in DOMAIN o, size <= Length[o[j]]
               PROVE  \/ Length[o[k]] < Length[o[j]]
                      \/ Length[o[k]] = Length[o[j]] /\ j <= k
    OBVIOUS
  <1>1. PICK M, N : M = Len(o) /\ N = Len(x)
    OBVIOUS
  <1>2. /\ M \in Nat /\ DOMAIN o = 1..M /\ j \in 1..M /\ k \in 1..M
        /\ \A a, b \in 1..M : o[a] = o[b] => a = b
    BY <1>1 DEF Agrees, Once, IsInjective
  <1>3. N \in Nat /\ DOMAIN x = 1..N /\ i \in 1..N /\ \A a \in 1..N : Length[x[a]] \in Nat
    BY <1>1, FreeBuffersAssumption DEF Agrees, Once
  <1>4. o[j] \in ToSet(x)
    BY DEF Agrees, ToSet
  <1>5. PICK l \in 1..N : o[j] = x[l]
    BY <1>3, <1>4 DEF ToSet
  <1>6. ~ (l < i)
    <2>1. SUFFICES ASSUME l < i PROVE FALSE
      OBVIOUS
    <2>2. l \in 1..(i - 1)
      BY <1>3, <2>1
    <2>3. PICK u : u = Length[x[l]]
      OBVIOUS
    <2>4. u \in Nat /\ u < size /\ size <= u
      BY <1>3, <1>5, <2>2, <2>3
    <2> QED
      BY <2>4
  <1>7. CASE l = i
    <2>1. j = k
      BY <1>2, <1>5, <1>7
    <2> QED
      BY <1>2, <2>1
  <1>8. CASE l > i
    <2>1. \/ Length[x[i]] < Length[x[l]]
          \/ Length[x[i]] = Length[x[l]] /\ Older(o, x[i], x[l])
      BY <1>1, <1>8 DEF Agrees
    <2>2. CASE Older(o, x[i], x[l])
      <3>1. PICK u, v \in 1..M : o[u] = x[i] /\ o[v] = x[l] /\ u > v
        BY <1>1, <2>2 DEF Older
      <3>2. u = k /\ v = j
        BY <1>2, <1>5, <3>1
      <3>3. j <= k
        BY <1>2, <3>1, <3>2
      <3> QED
        BY <1>5, <2>1, <3>3
    <2> QED
      BY <1>5, <2>1, <2>2
  <1> QED
    BY <1>3, <1>6, <1>7, <1>8

-----------------------------------------------------------------------------
(* What one buffer more or less is to the total.                             *)
LEMMA BytesChange ==
  ASSUME NEW x, Once(x), NEW y, Once(y), NEW b \in Buffer, BufferCacheAssumption
  PROVE  /\ Bytes(x) \in Nat /\ Bytes(y) \in Nat /\ Length[b] \in Nat
         /\ b \notin ToSet(x) /\ ToSet(y) = ToSet(x) \cup {b} => Bytes(y) = Bytes(x) + Length[b]
         /\ b \in ToSet(x) /\ ToSet(y) = ToSet(x) \ {b} => Bytes(y) = Bytes(x) - Length[b]
  <1>1. IsFiniteSet(Buffer) /\ Weighs(Length, Buffer)
    BY BufferCacheAssumption, FreeBuffersAssumption DEF Weighs
  <1>2. PICK g : SumsUp(g, Buffer, Length)
    BY <1>1, SumExists
  <1>3. PICK q, r : q = ToSet(x) /\ r = ToSet(y)
    OBVIOUS
  <1>4. q \in SUBSET Buffer /\ r \in SUBSET Buffer
    BY <1>3 DEF Once, ToSet
  <1>5. Bytes(x) = g[q] /\ Bytes(y) = g[r]
    BY <1>2, <1>3, <1>4, BytesAreSum
  <1>6. g[r] \in Nat
    BY <1>2, <1>4 DEF SumsUp
  <1>7. /\ g[q] \in Nat /\ Length[b] \in Nat
        /\ b \notin q => g[q \cup {b}] = g[q] + Length[b]
        /\ b \in q => g[q \ {b}] = g[q] - Length[b]
    <2>1. b \in Buffer /\ q \in SUBSET Buffer
      BY <1>4
    <2>2. /\ g[q] \in Nat /\ g[q \cup {b}] \in Nat /\ g[q \ {b}] \in Nat /\ Length[b] \in Nat
          /\ b \notin q => g[q \cup {b}] = g[q] + Length[b]
          /\ b \in q => g[q \ {b}] = g[q] - Length[b] /\ Length[b] <= g[q]
      BY <1>1, <1>2, <2>1, SumAdds
    <2> QED
      BY <2>2
  <1> QED
    BY <1>3, <1>5, <1>6, <1>7

LEMMA NoBytes == Bytes(<<>>) = 0
  <1>1. Once(<<>>) /\ ToSet(<<>>) = {}
    BY DEF Once, IsInjective, ToSet
  <1>2. Weighs(Length, {}) /\ IsFiniteSet({})
    BY FS_EmptySet DEF Weighs
  <1>3. PICK g : SumsUp(g, {}, Length)
    BY <1>2, SumExists
  <1>4. Bytes(<<>>) = g[{}]
    BY <1>1, <1>3, BytesAreSum
  <1> QED
    BY <1>3, <1>4 DEF SumsUp

-----------------------------------------------------------------------------
(* The list behind the pointers and the multimap, now and after a step.      *)
HoldsList(o) == Chain(o, head, tail, prev, next) /\ Agrees(o, index)
WillHold(o) == Chain(o, head', tail', prev', next') /\ Agrees(o, index')

LEMMA RecycleList ==
  ASSUME BufferCacheAssumption, NEW o, HoldsList(o), NEW b \in Buffer, RecycleToCache(b)
  PROVE  b \notin ToSet(o) /\ WillHold(<<b>> \o o)
  <1>1. Chain(o, head, tail, prev, next) /\ Agrees(o, index)
    BY DEF HoldsList
  <1>2. b \notin ToSet(o)
    BY <1>1 DEF Agrees, RecycleToCache, Cached
  <1>3. Chain(<<b>> \o o, head', tail', prev', next')
    <2>1. AddAtHead(b)
      BY DEF RecycleToCache
    <2> QED
      BY <1>1, <1>2, <2>1, AddLinks
  <1>4. PICK x, at : x = index /\ at = NotLonger(x, b) + 1
    OBVIOUS
  <1>5. index' = InsertAt(x, at, b)
    BY <1>4 DEF RecycleToCache, Emplace, NotLonger
  <1>6. Agrees(o, x)
    BY <1>1, <1>4
  <1>7. Agrees(<<b>> \o o, InsertAt(x, at, b))
    BY <1>2, <1>4, <1>6, AgreesInsert
  <1> QED
    BY <1>2, <1>3, <1>5, <1>7 DEF WillHold

LEMMA ReuseList ==
  ASSUME BufferCacheAssumption, NEW o, HoldsList(o), NEW size \in Request, ReuseFromCache(size)
  PROVE  \E k \in DOMAIN o : /\ BestFit(o, size, k)
                            /\ WillHold(RemoveAt(o, k))
                            /\ poolSize' = poolSize - Length[o[k]]
  <1>1. Chain(o, head, tail, prev, next) /\ Agrees(o, index)
    BY DEF HoldsList
  <1>2. PICK i \in DOMAIN index :
          /\ LowerBound(size, i)
          /\ Fits(Length[index[i]], size)
          /\ RemoveFromList(index[i])
          /\ index' = RemoveAt(index, i)
          /\ poolSize' = poolSize - Length[index[i]]
    BY DEF ReuseFromCache
  <1>3. PICK x, N, M : x = index /\ N = Len(x) /\ M = Len(o)
    OBVIOUS
  <1>4. Agrees(o, x)
    BY <1>1, <1>3
  <1>5. DOMAIN x = 1..N /\ DOMAIN o = 1..M /\ i \in 1..N
    BY <1>2, <1>3, <1>4 DEF Agrees, Once
  <1>6. x[i] \in ToSet(o)
    BY <1>4, <1>5 DEF Agrees, ToSet
  <1>7. PICK k \in 1..M : o[k] = x[i]
    BY <1>5, <1>6 DEF ToSet
  <1>8. RemoveFromList(o[k])
    BY <1>2, <1>3, <1>7
  <1>9. Chain(RemoveAt(o, k), head', tail', prev', next')
    BY <1>1, <1>3, <1>8, RemoveUnlinks
  <1>10. Agrees(RemoveAt(o, k), RemoveAt(x, i))
    BY <1>3, <1>4, <1>5, <1>7, AgreesRemove
  <1>11. WillHold(RemoveAt(o, k))
    BY <1>2, <1>3, <1>9, <1>10 DEF WillHold
  <1>12. size \in Nat
    BY FreeBuffersAssumption
  <1>13. size <= Length[x[i]] /\ \A j \in 1..(i - 1) : Length[x[j]] < size
    BY <1>2, <1>3 DEF LowerBound
  <1>14. \A j \in DOMAIN o :
           size <= Length[o[j]] =>
             \/ Length[o[k]] < Length[o[j]]
             \/ Length[o[k]] = Length[o[j]] /\ j <= k
    BY <1>3, <1>4, <1>5, <1>7, <1>12, <1>13, LowerBoundIsBest
  <1>15. BestFit(o, size, k)
    BY <1>2, <1>3, <1>5, <1>7, <1>14 DEF BestFit
  <1> QED
    BY <1>2, <1>3, <1>5, <1>7, <1>11, <1>15

LEMMA ReleaseTailList ==
  ASSUME BufferCacheAssumption, NEW o, HoldsList(o), ReleaseTail
  PROVE  /\ o # <<>> /\ tail \in Buffer /\ tail \in ToSet(o)
         /\ WillHold(Front(o))
         /\ ToSet(Front(o)) = ToSet(o) \ {tail}
  <1>1. Chain(o, head, tail, prev, next) /\ Agrees(o, index)
    BY DEF HoldsList
  <1>2. tail # Null /\ RemoveFromList(tail)
    BY DEF ReleaseTail
  <1>3. PICK i \in DOMAIN index : index[i] = tail /\ index' = RemoveAt(index, i)
    BY DEF ReleaseTail
  <1>4. PICK x, N, M : x = index /\ N = Len(x) /\ M = Len(o)
    OBVIOUS
  <1>5. Agrees(o, x) /\ Once(o)
    BY <1>1, <1>4 DEF Agrees
  <1>6. o # <<>> /\ tail = o[M]
    BY <1>1, <1>2, <1>4 DEF Chain, TailOf
  <1>7. M \in 1..M /\ RemoveAt(o, M) = Front(o)
    BY <1>4, <1>5, <1>6, FrontIs
  <1>8. DOMAIN x = 1..N /\ DOMAIN o = 1..M /\ i \in 1..N /\ x[i] = o[M]
    BY <1>3, <1>4, <1>5, <1>6 DEF Agrees, Once
  <1>9. Chain(RemoveAt(o, M), head', tail', prev', next')
    <2>1. RemoveFromList(o[M])
      BY <1>2, <1>6
    <2> QED
      BY <1>1, <1>4, <1>7, <2>1, RemoveUnlinks
  <1>10. Agrees(RemoveAt(o, M), RemoveAt(x, i))
    BY <1>4, <1>5, <1>7, <1>8, AgreesRemove
  <1>11. WillHold(Front(o))
    BY <1>3, <1>4, <1>7, <1>9, <1>10 DEF WillHold
  <1>12. ToSet(RemoveAt(o, M)) = ToSet(o) \ {o[M]}
    BY <1>5, <1>7, <1>8, RemoveAtOnce
  <1>13. o[M] \in Buffer /\ o[M] \in ToSet(o)
    BY <1>4, <1>5, <1>7, <1>8 DEF Once, ToSet
  <1> QED
    BY <1>6, <1>7, <1>11, <1>12, <1>13

LEMMA ClearList ==
  ASSUME ClearAll
  PROVE  WillHold(<<>>)
  <1>1. /\ head' = Null /\ tail' = Null /\ prev' = [b \in Buffer |-> Null] /\ next' = [b \in Buffer |-> Null]
        /\ index' = <<>>
    BY DEF ClearAll
  <1> QED
    BY <1>1, ChainEmpty, AgreesEmpty DEF WillHold

-----------------------------------------------------------------------------
(* The inductive invariant: some list is what pointers and multimap hold,    *)
(* and the books are kept.                                                   *)
CInv ==
  /\ \E o : HoldsList(o)
  /\ PoolAccounts
  /\ NoneReleased
  /\ exists \subseteq Buffer
  /\ call \in [on : BOOLEAN, min : Nat, total : Nat, released : Nat]
  /\ ~call.on => call = NoCall

(* What holds of the books when a list is held.                              *)
LEMMA HeldIndex ==
  ASSUME BufferCacheAssumption, NEW o, HoldsList(o)
  PROVE  /\ Once(index) /\ Once(o) /\ Cached = ToSet(o)
         /\ Len(index) = Cardinality(Cached) /\ Len(o) = Len(index)
         /\ Bytes(index) \in Nat
         /\ Walk(head, next) = o /\ Walk(tail, prev) = Reverse(o)
  <1>1. Once(index) /\ Once(o) /\ ToSet(index) = ToSet(o)
    BY DEF HoldsList, Agrees
  <1>2. Cached = ToSet(o)
    BY <1>1 DEF Cached
  <1>3. Len(index) = Cardinality(ToSet(index)) /\ Len(o) = Cardinality(ToSet(o))
    BY <1>1, OnceLength
  <1>4. Bytes(index) \in Nat
    <2>1. PICK x : x = index
      OBVIOUS
    <2>2. Weighs(Length, Buffer) /\ IsFiniteSet(Buffer)
      BY BufferCacheAssumption, FreeBuffersAssumption DEF Weighs
    <2>3. PICK g : SumsUp(g, Buffer, Length)
      BY <2>2, SumExists
    <2>4. Once(x) /\ ToSet(x) \in SUBSET Buffer
      BY <1>1, <2>1 DEF Once, ToSet
    <2>5. Bytes(x) = g[ToSet(x)]
      BY <2>3, <2>4, BytesAreSum
    <2>6. g[ToSet(x)] \in Nat
      BY <2>3, <2>4 DEF SumsUp
    <2> QED
      BY <2>1, <2>5, <2>6
  <1>5. Walk(head, next) = o /\ Walk(tail, prev) = Reverse(o)
    BY ChainWalks DEF HoldsList
  <1> QED
    BY <1>1, <1>2, <1>3, <1>4, <1>5 DEF Cached

LEMMA FiniteExists ==
  ASSUME BufferCacheAssumption, exists \subseteq Buffer
  PROVE  IsFiniteSet(exists) /\ Cardinality(exists) \in Nat
  BY FS_Subset, FS_CardinalityType DEF BufferCacheAssumption

LEMMA CInvSuffices ==
  ASSUME BufferCacheAssumption, CInv
  PROVE  Coherent
  <1>1. PICK o : HoldsList(o)
    BY DEF CInv
  <1>2. /\ Once(index) /\ Once(o) /\ Cached = ToSet(o)
        /\ Len(index) = Cardinality(Cached) /\ Len(o) = Len(index)
        /\ Bytes(index) \in Nat
        /\ Walk(head, next) = o /\ Walk(tail, prev) = Reverse(o)
    BY <1>1, HeldIndex
  <1>3. ListMatchesIndex
    <2>1. Reverse(Reverse(o)) = o
      BY <1>2, ReverseOnce
    <2> QED
      BY <1>2, <2>1 DEF ListMatchesIndex
  <1>4. head \in Buffer \cup {Null} /\ tail \in Buffer \cup {Null}
    <2>1. head = HeadOf(o) /\ tail = TailOf(o)
      BY <1>1 DEF HoldsList, Chain
    <2>2. CASE o = <<>>
      BY <2>1, <2>2 DEF HeadOf, TailOf
    <2>3. CASE o # <<>>
      <3>1. PICK N : N = Len(o)
        OBVIOUS
      <3>2. o \in Seq(Buffer) /\ N \in Nat \ {0}
        BY <1>2, <2>3, <3>1, EmptySeq DEF Once
      <3>3. o[1] \in Buffer /\ o[N] \in Buffer
        BY <3>1, <3>2
      <3> QED
        BY <2>1, <2>3, <3>1, <3>3 DEF HeadOf, TailOf
    <2> QED
      BY <2>2, <2>3
  <1>5. prev \in [Buffer -> Buffer \cup {Null}] /\ next \in [Buffer -> Buffer \cup {Null}]
    BY <1>1 DEF HoldsList, Chain, Nodes
  <1>6. index \in Seq(Buffer)
    BY <1>2 DEF Once
  <1>7. call.total \in Nat /\ call.released \in Nat
    BY DEF CInv
  <1>8. poolSize \in Nat
    BY <1>2, <1>7 DEF CInv, PoolAccounts
  <1>9. numResources \in Nat
    BY <1>7, FiniteExists DEF CInv, PoolAccounts
  <1> QED
    BY <1>3, <1>4, <1>5, <1>6, <1>8, <1>9 DEF CInv, Coherent, CacheTypeOK

LEMMA CInvInit ==
  ASSUME BufferCacheAssumption, CacheInit
  PROVE  CInv
  <1>1. /\ head = Null /\ tail = Null /\ prev = [b \in Buffer |-> Null] /\ next = [b \in Buffer |-> Null]
        /\ index = <<>> /\ poolSize = 0 /\ call = NoCall /\ exists = {} /\ numResources = 0
    BY DEF CacheInit
  <1>2. HoldsList(<<>>)
    BY <1>1, ChainEmpty, AgreesEmpty DEF HoldsList
  <1>3. Cached = {}
    BY <1>1 DEF Cached, ToSet
  <1>4. Cardinality({}) = 0
    BY FS_EmptySet
  <1>5. PoolAccounts
    BY <1>1, <1>4, NoBytes DEF PoolAccounts, NoCall
  <1> QED
    BY <1>1, <1>2, <1>3, <1>5 DEF CInv, NoneReleased, NoCall

(* A list that a step leaves behind is held after it.                        *)
LEMMA HoldsNext ==
  ASSUME NEW o, WillHold(o)
  PROVE  HoldsList(o)' /\ Cached' = ToSet(o)
  BY DEF WillHold, HoldsList, Agrees, Cached

LEMMA SameList ==
  ASSUME NEW o, HoldsList(o), UNCHANGED <<head, tail, prev, next, index>>
  PROVE  WillHold(o)
  BY DEF WillHold, HoldsList

(* The steps of the cache, each on a list that is held.                      *)
LEMMA NewBufferStep ==
  ASSUME BufferCacheAssumption, CInv, NEW b \in Buffer, NewBuffer(b)
  PROVE  CInv'
  <1>1. PICK o : HoldsList(o)
    BY DEF CInv
  <1>2. UNCHANGED <<head, tail, prev, next, index, poolSize, call>>
    BY DEF NewBuffer
  <1>3. HoldsList(o)' /\ Cached' = Cached /\ Bytes(index)' = Bytes(index)
    BY <1>1, <1>2 DEF HoldsList, Cached
  <1>4. exists' = exists \cup {b} /\ numResources' = numResources + 1 /\ b \notin exists
    BY DEF NewBuffer
  <1>5. PICK e : e = exists
    OBVIOUS
  <1>6. Cardinality(exists') = Cardinality(exists) + 1 /\ Cardinality(exists) \in Nat
    <2>1. IsFiniteSet(exists) /\ Cardinality(exists) \in Nat
      BY FiniteExists DEF CInv
    <2> QED
      BY <1>4, <2>1, FS_AddElement
  <1>7. PoolAccounts'
    <2>1. poolSize' = Bytes(index)' + call'.total
      BY <1>2, <1>3 DEF CInv, PoolAccounts
    <2>2. numResources = Cardinality(exists) + call.released /\ call.released \in Nat
      BY DEF CInv, PoolAccounts
    <2>3. numResources' = Cardinality(exists') + call'.released
      BY <1>2, <1>4, <1>6, <2>2
    <2> QED
      BY <2>1, <2>3 DEF PoolAccounts
  <1>8. NoneReleased' /\ exists' \subseteq Buffer
    BY <1>3, <1>4 DEF NoneReleased, CInv
  <1> QED
    BY <1>2, <1>3, <1>7, <1>8 DEF CInv, NoCall

LEMMA RecycleStep ==
  ASSUME BufferCacheAssumption, CInv, NEW b \in Buffer, RecycleToCache(b)
  PROVE  CInv'
  <1>1. PICK o : HoldsList(o)
    BY DEF CInv
  <1>2. PICK oo : oo = <<b>> \o o
    OBVIOUS
  <1>3. b \notin ToSet(o) /\ WillHold(oo)
    BY <1>1, <1>2, RecycleList
  <1>4. HoldsList(oo)' /\ Cached' = ToSet(oo)
    BY <1>3, HoldsNext
  <1>5. Once(o) /\ Cached = ToSet(o) /\ Once(index)
    BY <1>1, HeldIndex
  <1>6. ToSet(oo) = ToSet(o) \cup {b}
    BY <1>2, <1>3, <1>5, ConsOnce
  <1>7. UNCHANGED <<call, exists, numResources>> /\ poolSize' = poolSize + Length[b] /\ b \in exists
    BY DEF RecycleToCache
  <1>8. PICK x, y : x = index /\ y = index'
    OBVIOUS
  <1>9. Once(x) /\ Once(y) /\ ToSet(x) = ToSet(o) /\ ToSet(y) = ToSet(oo)
    BY <1>3, <1>5, <1>8 DEF Cached, WillHold, Agrees
  <1>10. Bytes(x) \in Nat /\ Length[b] \in Nat /\ Bytes(y) = Bytes(x) + Length[b]
    BY <1>3, <1>6, <1>9, BytesChange
  <1>11. PoolAccounts'
    <2>1. poolSize = Bytes(x) + call.total /\ call.total \in Nat
      BY <1>8 DEF CInv, PoolAccounts
    <2>2. poolSize' = Bytes(y) + call'.total
      BY <1>7, <1>10, <2>1
    <2> QED
      BY <1>7, <1>8, <2>2 DEF CInv, PoolAccounts
  <1>12. NoneReleased'
    BY <1>4, <1>5, <1>6, <1>7 DEF CInv, NoneReleased
  <1> QED
    BY <1>4, <1>7, <1>11, <1>12 DEF CInv, NoCall

LEMMA ReuseStep ==
  ASSUME BufferCacheAssumption, CInv, NEW size \in Request, ReuseFromCache(size)
  PROVE  CInv'
  <1>1. PICK o : HoldsList(o)
    BY DEF CInv
  <1>2. PICK k \in DOMAIN o : WillHold(RemoveAt(o, k)) /\ poolSize' = poolSize - Length[o[k]]
    BY <1>1, ReuseList
  <1>3. PICK oo, b : oo = RemoveAt(o, k) /\ b = o[k]
    OBVIOUS
  <1>4. HoldsList(oo)' /\ Cached' = ToSet(oo)
    BY <1>2, <1>3, HoldsNext
  <1>5. Once(o) /\ Cached = ToSet(o) /\ Once(index)
    BY <1>1, HeldIndex
  <1>6. ToSet(oo) = ToSet(o) \ {b} /\ b \in ToSet(o) /\ b \in Buffer
    <2>1. ToSet(oo) = ToSet(o) \ {b}
      BY <1>3, <1>5, RemoveAtOnce
    <2>2. b \in ToSet(o)
      BY <1>3 DEF ToSet
    <2>3. b \in Buffer
      BY <1>3, <1>5 DEF Once
    <2> QED
      BY <2>1, <2>2, <2>3
  <1>7. UNCHANGED <<call, exists, numResources>>
    BY DEF ReuseFromCache
  <1>8. PICK x, y : x = index /\ y = index'
    OBVIOUS
  <1>9. Once(x) /\ Once(y) /\ ToSet(x) = ToSet(o) /\ ToSet(y) = ToSet(oo)
    BY <1>2, <1>3, <1>5, <1>8 DEF Cached, WillHold, Agrees
  <1>10. Bytes(x) \in Nat /\ Length[b] \in Nat /\ Bytes(y) = Bytes(x) - Length[b]
    BY <1>6, <1>9, BytesChange
  <1>11. PoolAccounts'
    <2>1. poolSize = Bytes(x) + call.total /\ call.total \in Nat
      BY <1>8 DEF CInv, PoolAccounts
    <2>2. poolSize' = Bytes(y) + call'.total
      BY <1>2, <1>3, <1>7, <1>10, <2>1
    <2> QED
      BY <1>7, <1>8, <2>2 DEF CInv, PoolAccounts
  <1>12. NoneReleased'
    BY <1>4, <1>5, <1>6, <1>7 DEF CInv, NoneReleased
  <1> QED
    BY <1>4, <1>7, <1>11, <1>12 DEF CInv, NoCall

LEMMA CacheClearStep ==
  ASSUME BufferCacheAssumption, CInv, ~call.on, ClearAll, UNCHANGED call
  PROVE  CInv'
  <1>1. PICK o : HoldsList(o)
    BY DEF CInv
  <1>2. HoldsList(<<>>)' /\ Cached' = ToSet(<<>>)
    BY ClearList, HoldsNext
  <1>3. exists' = exists \ Cached /\ numResources' = numResources - Len(index) /\ index' = <<>> /\ poolSize' = 0
    BY DEF ClearAll
  <1>4. call = NoCall /\ call' = NoCall
    BY DEF CInv
  <1>5. PICK e, c : e = exists /\ c = Cached
    OBVIOUS
  <1>6. IsFiniteSet(e) /\ Cardinality(e) \in Nat /\ c \subseteq e
    BY <1>5, FiniteExists DEF CInv, NoneReleased
  <1>7. Len(index) = Cardinality(c)
    BY <1>1, <1>5, HeldIndex
  <1>8. Cardinality(e \ c) = Cardinality(e) - Cardinality(c)
    <2>1. Cardinality(e \ c) = Cardinality(e) - Cardinality(e \cap c)
      BY <1>6, FS_Difference
    <2>2. e \cap c = c
      BY <1>6
    <2> QED
      BY <2>1, <2>2
  <1>9. PoolAccounts'
    <2>1. numResources = Cardinality(e) + 0
      BY <1>4, <1>5 DEF CInv, PoolAccounts, NoCall
    <2>2. Cardinality(c) \in Nat
      BY <1>6, FS_Subset, FS_CardinalityType
    <2>3. numResources' = Cardinality(exists') + 0
      BY <1>3, <1>5, <1>6, <1>7, <1>8, <2>1, <2>2
    <2>4. Bytes(index') = 0
      BY <1>3, NoBytes
    <2> QED
      BY <1>3, <1>4, <2>3, <2>4 DEF PoolAccounts, NoCall
  <1>10. NoneReleased' /\ exists' \subseteq Buffer
    <2>1. Cached' = {}
      BY <1>2 DEF ToSet
    <2> QED
      BY <1>3, <2>1 DEF CInv, NoneReleased
  <1> QED
    BY <1>2, <1>4, <1>9, <1>10 DEF CInv, NoCall

LEMMA ReleaseSomeStep ==
  ASSUME BufferCacheAssumption, CInv, NEW min \in MinBytes, ReleaseSome(min)
  PROVE  CInv'
  <1>1. PICK o : HoldsList(o)
    BY DEF CInv
  <1>2. UNCHANGED <<head, tail, prev, next, index, poolSize, exists, numResources>>
        /\ call' = [on |-> TRUE, min |-> min, total |-> 0, released |-> 0]
    BY DEF ReleaseSome
  <1>3. HoldsList(o)' /\ Cached' = Cached /\ Bytes(index)' = Bytes(index)
    BY <1>1, <1>2 DEF HoldsList, Cached
  <1>4. call = NoCall
    BY DEF CInv, ReleaseSome
  <1>5. PoolAccounts'
    BY <1>2, <1>3, <1>4 DEF CInv, PoolAccounts, NoCall
  <1>6. min \in Nat
    BY DEF BufferCacheAssumption
  <1> QED
    BY <1>2, <1>3, <1>5, <1>6 DEF CInv, NoneReleased

LEMMA ReleaseTailStep ==
  ASSUME BufferCacheAssumption, CInv, ReleaseTail
  PROVE  CInv'
  <1>1. PICK o : HoldsList(o)
    BY DEF CInv
  <1>2. PICK oo, b : oo = Front(o) /\ b = tail
    OBVIOUS
  <1>3. b \in Buffer /\ b \in ToSet(o) /\ WillHold(oo) /\ ToSet(oo) = ToSet(o) \ {b}
    BY <1>1, <1>2, ReleaseTailList
  <1>4. HoldsList(oo)' /\ Cached' = ToSet(oo)
    BY <1>3, HoldsNext
  <1>5. Cached = ToSet(o) /\ Once(index)
    BY <1>1, HeldIndex
  <1>6. UNCHANGED <<poolSize, numResources>> /\ exists' = exists \ {b} /\ call.on
    BY <1>2 DEF ReleaseTail
  <1>7. PICK c, d : c = call /\ d = call'
    OBVIOUS
  <1>8. c \in [on : BOOLEAN, min : Nat, total : Nat, released : Nat] /\ Length[b] \in Nat
    BY <1>3, <1>7, FreeBuffersAssumption DEF CInv
  <1>9. d = [c EXCEPT !.total = c.total + Length[b], !.released = c.released + 1]
    BY <1>2, <1>7 DEF ReleaseTail
  <1>10. /\ d \in [on : BOOLEAN, min : Nat, total : Nat, released : Nat]
         /\ d.on = c.on /\ d.total = c.total + Length[b] /\ d.released = c.released + 1
    <2>1. PICK u, v : u = c.total + Length[b] /\ v = c.released + 1
      OBVIOUS
    <2>2. u \in Nat /\ v \in Nat
      BY <1>8, <2>1
    <2>3. d = [c EXCEPT !.total = u, !.released = v]
      BY <1>9, <2>1
    <2> QED
      BY <1>8, <2>1, <2>2, <2>3
  <1>11. PICK x, y : x = index /\ y = index'
    OBVIOUS
  <1>12. Once(x) /\ Once(y) /\ ToSet(x) = ToSet(o) /\ ToSet(y) = ToSet(oo)
    BY <1>3, <1>5, <1>11 DEF Cached, WillHold, Agrees
  <1>13. Bytes(x) \in Nat /\ Bytes(y) = Bytes(x) - Length[b]
    BY <1>3, <1>12, BytesChange
  <1>14. PICK e : e = exists
    OBVIOUS
  <1>15. Cardinality(e \ {b}) = Cardinality(e) - 1 /\ Cardinality(e) \in Nat
    <2>1. IsFiniteSet(e) /\ Cardinality(e) \in Nat /\ b \in e
      BY <1>3, <1>5, <1>14, FiniteExists DEF CInv, NoneReleased
    <2> QED
      BY <2>1, FS_RemoveElement
  <1>16. PoolAccounts'
    <2>1. poolSize = Bytes(x) + c.total /\ numResources = Cardinality(e) + c.released
      BY <1>7, <1>11, <1>14 DEF CInv, PoolAccounts
    <2>2. poolSize' = Bytes(y) + d.total
      BY <1>6, <1>8, <1>10, <1>13, <2>1
    <2>3. numResources' = Cardinality(e \ {b}) + d.released
      BY <1>6, <1>8, <1>10, <1>15, <2>1
    <2> QED
      BY <1>6, <1>7, <1>11, <1>14, <2>2, <2>3 DEF PoolAccounts
  <1>17. NoneReleased' /\ exists' \subseteq Buffer
    BY <1>3, <1>4, <1>5, <1>6 DEF CInv, NoneReleased
  <1> QED
    BY <1>4, <1>6, <1>7, <1>10, <1>16, <1>17 DEF CInv

LEMMA ReleaseReturnStep ==
  ASSUME BufferCacheAssumption, CInv, ReleaseReturn
  PROVE  CInv'
  <1>1. PICK o : HoldsList(o)
    BY DEF CInv
  <1>2. /\ UNCHANGED <<head, tail, prev, next, index, exists>> /\ call' = NoCall
        /\ poolSize' = poolSize - call.total /\ numResources' = numResources - call.released
    BY DEF ReleaseReturn
  <1>3. HoldsList(o)' /\ Cached' = Cached /\ Bytes(index)' = Bytes(index)
    BY <1>1, <1>2 DEF HoldsList, Cached
  <1>4. Bytes(index) \in Nat /\ Cardinality(exists) \in Nat
    BY <1>1, HeldIndex, FiniteExists DEF CInv
  <1>5. call.total \in Nat /\ call.released \in Nat
    BY DEF CInv
  <1>6. poolSize' = Bytes(index)' + 0 /\ numResources' = Cardinality(exists)' + 0
    <2>1. poolSize = Bytes(index) + call.total /\ numResources = Cardinality(exists) + call.released
      BY DEF CInv, PoolAccounts
    <2> QED
      BY <1>2, <1>3, <1>4, <1>5, <2>1
  <1>7. PoolAccounts'
    BY <1>2, <1>6 DEF PoolAccounts, NoCall
  <1> QED
    BY <1>2, <1>3, <1>7 DEF CInv, NoneReleased, NoCall

LEMMA CInvNext ==
  ASSUME BufferCacheAssumption, CInv, [CacheNext]_cacheVars
  PROVE  CInv'
  <1>1. ASSUME NEW b \in Buffer, NewBuffer(b)
        PROVE  CInv'
    BY <1>1, NewBufferStep
  <1>2. ASSUME NEW b \in Buffer, RecycleToCache(b)
        PROVE  CInv'
    BY <1>2, RecycleStep
  <1>3. ASSUME NEW size \in Request, ReuseFromCache(size)
        PROVE  CInv'
    BY <1>3, ReuseStep
  <1>4. CASE Clear
    <2>1. ~call.on /\ ClearAll /\ UNCHANGED call
      BY <1>4 DEF Clear
    <2> QED
      BY <2>1, CacheClearStep
  <1>5. ASSUME NEW min \in MinBytes, ReleaseMost(min)
        PROVE  CInv'
    <2>1. ~call.on /\ ClearAll /\ UNCHANGED call
      BY <1>5 DEF ReleaseMost
    <2> QED
      BY <2>1, CacheClearStep
  <1>6. ASSUME NEW min \in MinBytes, ReleaseSome(min)
        PROVE  CInv'
    BY <1>6, ReleaseSomeStep
  <1>7. CASE ReleaseTail
    BY <1>7, ReleaseTailStep
  <1>8. CASE ReleaseReturn
    BY <1>8, ReleaseReturnStep
  <1>9. CASE UNCHANGED cacheVars
    BY <1>9 DEF cacheVars, CInv, HoldsList, PoolAccounts, NoneReleased, Cached, NoCall
  <1> QED
    BY <1>1, <1>2, <1>3, <1>4, <1>5, <1>6, <1>7, <1>8, <1>9 DEF CacheNext

(* List, multimap, totals and the driver agree, whatever the buffers and the *)
(* requests, in the middle of release_cached_buffers too: what it looks up   *)
(* in the multimap is there, and every case of remove_from_list leaves the   *)
(* pointers of both directions right.                                        *)
THEOREM CacheCoherent == CacheSpec => []Coherent
  <1>1. CacheInit => CInv
    BY CInvInit, BufferCacheAssumption
  <1>2. CInv /\ [CacheNext]_cacheVars => CInv'
    BY CInvNext, BufferCacheAssumption
  <1>3. CInv => Coherent
    BY CInvSuffices, BufferCacheAssumption
  <1> QED
    BY <1>1, <1>2, <1>3, PTL DEF CacheSpec

-----------------------------------------------------------------------------
(* The cache implements FreeList.                                            *)
LEMMA ListNow ==
  ASSUME BufferCacheAssumption, NEW o, HoldsList(o)
  PROVE  Walk(head, next) = o
  BY HeldIndex

LEMMA ListThen ==
  ASSUME BufferCacheAssumption, NEW o, WillHold(o)
  PROVE  Walk(head, next)' = o
  <1>1. Chain(o, head', tail', prev', next')
    BY DEF WillHold
  <1>2. Walk(head', next') = o
    BY <1>1, ChainWalks
  <1>3. Walk(head, next)' = Walk(head', next')
    BY DEF Walk
  <1> QED
    BY <1>2, <1>3

LEMMA FreeListStep ==
  ASSUME BufferCacheAssumption, CInv, [CacheNext]_cacheVars
  PROVE  [Ordered!Next]_(Walk(head, next))
  <1>1. PICK o : HoldsList(o)
    BY DEF CInv
  <1>2. Walk(head, next) = o
    BY <1>1, ListNow
  <1>3. ASSUME NEW b \in Buffer, NewBuffer(b)
        PROVE  Walk(head, next)' = o
    <2>1. WillHold(o)
      BY <1>1, <1>3, SameList DEF NewBuffer
    <2> QED
      BY <2>1, ListThen
  <1>4. ASSUME NEW b \in Buffer, RecycleToCache(b)
        PROVE  Ordered!Put(b)
    <2>1. b \notin ToSet(o) /\ WillHold(<<b>> \o o)
      BY <1>1, <1>4, RecycleList
    <2>2. Walk(head, next)' = <<b>> \o o
      BY <2>1, ListThen
    <2> QED
      BY <1>2, <2>1, <2>2 DEF Ordered!Put, Ordered!ToSet, ToSet
  <1>5. ASSUME NEW size \in Request, ReuseFromCache(size)
        PROVE  Ordered!Take(size)
    <2>1. PICK k \in DOMAIN o : BestFit(o, size, k) /\ WillHold(RemoveAt(o, k))
      BY <1>1, <1>5, ReuseList
    <2>2. Walk(head, next)' = RemoveAt(o, k)
      BY <2>1, ListThen
    <2>3. Ordered!BestFit(o, size, k)
      BY <2>1 DEF BestFit, Fits, Ordered!BestFit, Ordered!Fits
    <2>4. Ordered!RemoveAt(o, k) = RemoveAt(o, k)
      BY DEF RemoveAt, Ordered!RemoveAt
    <2> QED
      BY <1>2, <2>2, <2>3, <2>4 DEF Ordered!Take
  <1>6. ASSUME ClearAll
        PROVE  Ordered!DropAll
    <2>1. WillHold(<<>>)
      BY <1>6, ClearList
    <2>2. Walk(head, next)' = <<>>
      BY <2>1, ListThen
    <2> QED
      BY <2>2 DEF Ordered!DropAll
  <1>7. ASSUME NEW min \in MinBytes, ReleaseSome(min)
        PROVE  Walk(head, next)' = o
    <2>1. WillHold(o)
      BY <1>1, <1>7, SameList DEF ReleaseSome
    <2> QED
      BY <2>1, ListThen
  <1>8. CASE ReleaseTail
    <2>1. o # <<>> /\ WillHold(Front(o))
      BY <1>1, <1>8, ReleaseTailList
    <2>2. Walk(head, next)' = Front(o)
      BY <2>1, ListThen
    <2>3. Ordered!DropOldest
      BY <1>2, <2>1, <2>2 DEF Ordered!DropOldest, Ordered!Front, Front
    <2> QED
      BY <2>3 DEF Ordered!Next
  <1>9. CASE ReleaseReturn
    <2>1. WillHold(o)
      BY <1>1, <1>9, SameList DEF ReleaseReturn
    <2> QED
      BY <1>2, <2>1, ListThen
  <1>10. CASE UNCHANGED cacheVars
    <2>1. WillHold(o)
      BY <1>1, <1>10, SameList DEF cacheVars
    <2> QED
      BY <1>2, <2>1, ListThen
  <1>11. CASE Clear
    BY <1>6, <1>11 DEF Clear, Ordered!Next
  <1>12. ASSUME NEW min \in MinBytes, ReleaseMost(min)
         PROVE  [Ordered!Next]_(Walk(head, next))
    BY <1>6, <1>12 DEF ReleaseMost, Ordered!Next
  <1>13. ASSUME NEW b \in Buffer, RecycleToCache(b)
         PROVE  [Ordered!Next]_(Walk(head, next))
    BY <1>4, <1>13 DEF Ordered!Next
  <1>14. ASSUME NEW size \in Request, ReuseFromCache(size)
         PROVE  [Ordered!Next]_(Walk(head, next))
    BY <1>5, <1>14 DEF Ordered!Next
  <1> QED
    BY <1>2, <1>3, <1>7, <1>8, <1>9, <1>10, <1>11, <1>12, <1>13, <1>14 DEF CacheNext

(* Seen through its list, read from the head, the cache does what FreeList   *)
(* promises: reuse_from_cache takes the best fit, the oldest of its length,  *)
(* and release_cached_buffers drops from the oldest end.                     *)
THEOREM CacheIsFreeList == CacheSpec => FreeListSpec
  <1>1. CacheInit => CInv
    BY CInvInit, BufferCacheAssumption
  <1>2. CInv /\ [CacheNext]_cacheVars => CInv'
    BY CInvNext, BufferCacheAssumption
  <1>3. CacheInit => Ordered!Init
    <2> SUFFICES ASSUME CacheInit PROVE Walk(head, next) = <<>>
      BY DEF Ordered!Init
    <2>1. HoldsList(<<>>)
      BY ChainEmpty, AgreesEmpty DEF CacheInit, HoldsList
    <2> QED
      BY <2>1, ListNow, BufferCacheAssumption
  <1>4. CInv /\ [CacheNext]_cacheVars => [Ordered!Next]_(Walk(head, next))
    BY FreeListStep, BufferCacheAssumption
  <1> QED
    BY <1>1, <1>2, <1>3, <1>4, PTL DEF CacheSpec, FreeListSpec, Ordered!Spec

-----------------------------------------------------------------------------
(* The allocator.                                                            *)
LEMMA AlignUp == \A size \in Nat : Align(size) \in Nat /\ size <= Align(size)
  <1> SUFFICES ASSUME NEW size \in Nat  PROVE Align(size) \in Nat /\ size <= Align(size)
    OBVIOUS
  <1>1. PageSize \in Nat /\ PageSize > 0
    BY FreeBuffersAssumption
  <1> DEFINE a == size + PageSize - 1
             q == a \div PageSize
  <1>2. a \in Nat /\ q \in Nat
    BY <1>1
  <1>3. a < PageSize * (q + 1) 
    BY <1>1, <1>2, SMT
  <1>4. PageSize * (q + 1) = PageSize * q + PageSize /\ PageSize * q \in Nat
    BY <1>1, <1>2, SMT
  <1>5. size <= PageSize * q
    BY <1>1, <1>2, <1>3, <1>4
  <1> QED
    BY <1>4, <1>5 DEF Align
-----------------------------------------------------------------------------
(* The part of the state that ownership depends on, with its types.          *)
Owned ==
  /\ want \in [Thread -> Nat]
  /\ doomed \in [Thread -> SUBSET Buffer]
  /\ alive \subseteq Buffer
  /\ uses \in [Buffer -> Seq(Nat)]
  /\ cached \in Seq(Buffer)
  /\ OnePlace

LEMMA TrimmedOnce ==
  ASSUME NEW list, Once(list)
  PROVE  Once(Trimmed(list)) /\ ToSet(Trimmed(list)) \subseteq ToSet(list)
  BY ReleasedOnce DEF Trimmed

LEMMA ReclaimedOnce ==
  ASSUME NEW size, Once(cached)
  PROVE  Once(Reclaimed(size)) /\ ToSet(Reclaimed(size)) \subseteq ToSet(cached)
  BY ReleasedOnce DEF Reclaimed

LEMMA OwnedOnce ==
  ASSUME Owned
  PROVE  Once(cached) /\ ToSet(cached) \subseteq Buffer
  BY DEF Owned, OnePlace, Once, ToSet

LEMMA DoomedStays ==
  ASSUME doomed' = doomed
  PROVE  Doomed' = Doomed
  BY DEF Doomed

LEMMA DoomedAlive ==
  ASSUME Owned, NEW t \in Thread
  PROVE  doomed[t] \subseteq Doomed /\ Doomed \subseteq alive
  BY DEF Owned, OnePlace, Doomed

LEMMA Places ==
  ASSUME Owned
  PROVE  /\ alive = InUse \cup ToSet(cached) \cup Doomed
         /\ Doomed \cap (InUse \cup ToSet(cached)) = {}
         /\ InUse \cap ToSet(cached) = {}
  BY DEF Owned, OnePlace, Doomed

(* Handing out a buffer nobody has, and taking one back.                     *)
LEMMA HandOut ==
  ASSUME Owned, NEW b \in Buffer, uses[b] = <<>>, NEW size \in Nat,
         uses' = [uses EXCEPT ![b] = Append(@, size)]
  PROVE  /\ uses' = [uses EXCEPT ![b] = <<size>>]
         /\ uses' \in [Buffer -> Seq(Nat)]
         /\ InUse' = InUse \cup {b}
         /\ \A c \in Buffer : Len(uses'[c]) <= 1
  <1>1. Append(uses[b], size) = <<size>> /\ <<size>> \in Seq(Nat) /\ Len(<<size>>) = 1
    OBVIOUS
  <1>2. <<size>> # <<>>
    OBVIOUS
  <1>3. uses' = [uses EXCEPT ![b] = <<size>>]
    BY <1>1
  <1>4. /\ uses' \in [Buffer -> Seq(Nat)]
        /\ \A c \in Buffer : uses'[c] = IF c = b THEN <<size>> ELSE uses[c]
    BY <1>1, <1>3 DEF Owned
  <1> QED
    BY <1>1, <1>2, <1>3, <1>4 DEF InUse, Owned, OnePlace

LEMMA TakeBack ==
  ASSUME Owned, NEW b \in InUse, uses' = [uses EXCEPT ![b] = Tail(@)]
  PROVE  /\ uses' = [uses EXCEPT ![b] = <<>>]
         /\ Len(uses[b]) = 1
         /\ uses' \in [Buffer -> Seq(Nat)]
         /\ InUse' = InUse \ {b}
         /\ \A c \in Buffer : Len(uses'[c]) <= 1
  <1>1. b \in Buffer /\ uses[b] \in Seq(Nat) /\ uses[b] # <<>> /\ Len(uses[b]) <= 1
    BY DEF InUse, Owned, OnePlace
  <1>2. Len(uses[b]) = 1
    <2>0. \A s \in Seq(Nat) : s # <<>> => Len(s) \in Nat \ {0}
      BY EmptySeq, Zenon
    <2>1. Len(uses[b]) \in Nat \ {0}
      BY <1>1, <2>0
    <2>2. \A n \in Nat \ {0} : n <= 1 => n = 1
      OBVIOUS
    <2> QED
      BY <1>1, <2>1, <2>2, Zenon
  <1>3. Tail(uses[b]) \in Seq(Nat) /\ Len(Tail(uses[b])) = 0
    BY <1>1, <1>2, HeadTailProperties
  <1>4. Tail(uses[b]) = <<>> /\ <<>> \in Seq(Nat) /\ Len(<<>>) = 0
    BY <1>3, EmptySeq
  <1>5. uses' = [uses EXCEPT ![b] = <<>>]
    BY <1>4
  <1>6. /\ uses' \in [Buffer -> Seq(Nat)]
        /\ \A c \in Buffer : uses'[c] = IF c = b THEN <<>> ELSE uses[c]
    BY <1>1, <1>4, <1>5 DEF Owned
  <1>7. InUse' = InUse \ {b}
    BY <1>6 DEF InUse
  <1>8. \A c \in Buffer : Len(uses'[c]) <= 1
    BY <1>4, <1>6 DEF Owned, OnePlace
  <1> QED
    BY <1>2, <1>5, <1>6, <1>7, <1>8

(* What every step does to the places of buffers, given what it does to the  *)
(* three sets and that the list stays without duplicates.                    *)
LEMMA PlaceStep ==
  ASSUME Owned, Once(cached'), uses' \in [Buffer -> Seq(Nat)],
         want' \in [Thread -> Nat], doomed' \in [Thread -> SUBSET Buffer],
         \A b \in Buffer : Len(uses'[b]) <= 1,
         InUse' \cap ToSet(cached)' = {},
         \A t \in Thread : doomed'[t] \cap (InUse' \cup ToSet(cached)') = {},
         \A t, u \in Thread : t # u => doomed'[t] \cap doomed'[u] = {},
         alive' = InUse' \cup ToSet(cached)' \cup Doomed'
  PROVE  Owned'
  <1>1. alive' \subseteq Buffer
    <2>1. InUse' \subseteq Buffer
      BY DEF InUse
    <2>2. ToSet(cached)' \subseteq Buffer
      BY DEF Once, ToSet
    <2>3. Doomed' \subseteq Buffer
      BY DEF Doomed
    <2> QED
      BY <2>1, <2>2, <2>3
  <1>2. OnePlace'
    BY DEF OnePlace, Once
  <1> QED
    BY <1>1, <1>2 DEF Owned, Once

LEMMA OwnedInit == Init => Owned
  <1> SUFFICES ASSUME Init  PROVE Owned
    OBVIOUS
  <1>1. uses \in [Buffer -> Seq(Nat)] /\ \A b \in Buffer : uses[b] = <<>> /\ Len(uses[b]) <= 1
    BY DEF Init
  <1>2. InUse = {}
    BY <1>1 DEF InUse
  <1>3. cached \in Seq(Buffer) /\ IsInjective(cached) /\ ToSet(cached) = {}
    BY DEF Init, IsInjective, ToSet
  <1>4. /\ want \in [Thread -> Nat] /\ doomed \in [Thread -> SUBSET Buffer]
        /\ \A t \in Thread : doomed[t] = {}
        /\ alive = {}
    BY DEF Init
  <1>5. Doomed = {}
    BY <1>4 DEF Doomed
  <1> QED
    BY <1>1, <1>2, <1>3, <1>4, <1>5 DEF Owned, OnePlace

-----------------------------------------------------------------------------
(* The residency set holds the heap and, of the buffers in A, those outside  *)
(* the heap.                                                                 *)
Holds(r, A) ==
  /\ r \in [wired : SUBSET (Buffer \cup {Heap}),
            unwired : SUBSET (Buffer \cup {Heap}), capacity : Nat]
  /\ r.wired \cup r.unwired = {Heap} \cup (A \ OnHeap)
  /\ r.wired \cap r.unwired = {}

Exact == Holds(resident, InUse \cup ToSet(cached))

LEMMA EraseHolds ==
  ASSUME NEW r, NEW A, Holds(r, A), NEW S \in SUBSET Buffer
  PROVE  Holds(EraseBuffers(r, S), A \ S)
  <1> DEFINE T == S \ OnHeap
             q == Erase(r, T)
  <1>1. /\ q.wired = r.wired \ (T \ r.unwired) /\ q.unwired = r.unwired \ T
        /\ q \in [wired : SUBSET (Buffer \cup {Heap}),
                  unwired : SUBSET (Buffer \cup {Heap}), capacity : Nat]
    BY DEF Erase, Holds
  <1>2. Heap \notin T
    BY MetalAllocatorAssumption
  <1>3. q.wired \cup q.unwired = (r.wired \cup r.unwired) \ T
        /\ q.wired \cap q.unwired = {}
    BY <1>1 DEF Holds
  <1> QED
    BY <1>1, <1>2, <1>3, SMTT(20) DEF Holds, EraseBuffers

LEMMA InsertHolds ==
  ASSUME NEW r, NEW A, Holds(r, A), NEW b \in Buffer \ A
  PROVE  /\ Holds(InsertBuffer(r, b), A \cup {b})
         /\ b \notin OnHeap => Holds(Insert(r, b), A \cup {b})
  <1>1. b # Heap
    BY MetalAllocatorAssumption
  <1>2. ASSUME b \notin OnHeap  PROVE Holds(Insert(r, b), A \cup {b})
    <2>1. \/ Insert(r, b) = [r EXCEPT !.wired = @ \cup {b}]
          \/ Insert(r, b) = [r EXCEPT !.unwired = @ \cup {b}]
      BY DEF Insert
    <2> QED
      BY <1>1, <1>2, <2>1 DEF Holds
  <1> QED
    BY <1>2 DEF InsertBuffer, Holds

LEMMA ResizeHolds ==
  ASSUME NEW r, NEW A, Holds(r, A), NEW size \in Nat, NEW q \in Resize(r, size)
  PROVE  Holds(q, A)
  <1>1. CASE q = [r EXCEPT !.capacity = size]
    BY <1>1 DEF Holds
  <1>2. CASE q \in Grow(r, size)
    <2>1. PICK S \in SUBSET r.unwired :
            q = [wired |-> r.wired \cup S, unwired |-> r.unwired \ S, capacity |-> size]
      BY <1>2 DEF Grow
    <2> QED
      BY <2>1 DEF Holds
  <1>3. CASE q \in Shrink(r, size)
    <2>1. PICK S \in SUBSET r.wired :
            q = [wired |-> r.wired \ S, unwired |-> r.unwired \cup S, capacity |-> size]
      BY <1>3 DEF Shrink
    <2> QED
      BY <2>1 DEF Holds
  <1> QED
    BY <1>1, <1>2, <1>3 DEF Resize

LEMMA ExactInit == Init => Exact
  <1> SUFFICES ASSUME Init  PROVE Exact
    OBVIOUS
  <1>1. InUse = {} /\ ToSet(cached) = {}
    BY DEF Init, InUse, ToSet
  <1>2. resident = [wired |-> {}, unwired |-> {Heap}, capacity |-> 0]
    BY DEF Init
  <1> QED
    BY <1>1, <1>2 DEF Exact, Holds

-----------------------------------------------------------------------------
(* One lemma for each way a step treats the buffers: what it does to their   *)
(* places and what a client sees of it.                                      *)
LEMMA CachedStep ==
  ASSUME Owned, Exact, NEW t \in Thread, NEW size \in Request, MallocCached(t, size)
  PROVE  Owned' /\ Exact' /\ Clients!Next
  <1>1. PICK i \in DOMAIN cached : MallocCached(t, size)!2!(i)
    BY DEF MallocCached
  <1> DEFINE b == cached[i]
             rest == RemoveAt(cached, i)
  <1>2. Once(cached) /\ ToSet(cached) \subseteq Buffer
    BY OwnedOnce
  <1>3. Once(rest) /\ ToSet(rest) = ToSet(cached) \ {b}
    BY <1>2, RemoveAtOnce
  <1>4. Once(Trimmed(rest)) /\ ToSet(Trimmed(rest)) \subseteq ToSet(rest)
    BY <1>3, TrimmedOnce
  <1>5. b \in Buffer /\ b \in ToSet(cached) /\ uses[b] = <<>>
    BY <1>2 DEF ToSet, Owned, OnePlace, InUse
  <1>6. size \in Nat /\ size # 0 /\ size <= Length[b] /\ Length[b] \in Nat
    <2>1. Align(size) <= Length[b]
      BY <1>1 DEF BestFit, Fits
    <2> QED
      BY <2>1, <1>5, AlignUp, FreeBuffersAssumption
  <1>7. uses' = [uses EXCEPT ![b] = Append(@, size)]
    BY <1>1
  <1>8. /\ uses' = [uses EXCEPT ![b] = <<size>>]
        /\ uses' \in [Buffer -> Seq(Nat)]
        /\ InUse' = InUse \cup {b}
        /\ \A c \in Buffer : Len(uses'[c]) <= 1
    BY <1>5, <1>6, <1>7, HandOut
  <1>9. /\ cached' = Trimmed(rest)
        /\ alive' = alive \ Lost(rest, Trimmed(rest))
        /\ resident' = EraseBuffers(resident, Lost(rest, Trimmed(rest)))
        /\ want' = want /\ doomed' = doomed
    BY <1>1 DEF MallocCached
  <1> HIDE DEF b, rest
  <1>10. Owned'
    <2>1. InUse' \cap ToSet(cached)' = {}
      BY <1>3, <1>4, <1>8, <1>9 DEF Owned, OnePlace
    <2>2. \A u \in Thread : doomed'[u] \cap (InUse' \cup ToSet(cached)') = {}
      BY <1>3, <1>4, <1>5, <1>8, <1>9 DEF Owned, OnePlace
    <2>3. alive' = InUse' \cup ToSet(cached)' \cup Doomed'
      BY <1>3, <1>4, <1>5, <1>8, <1>9, DoomedStays, Places DEF Lost
    <2> QED
      BY <1>4, <1>8, <1>9, <2>1, <2>2, <2>3, PlaceStep DEF Owned, OnePlace
  <1>11. Exact'
    <2> DEFINE lost == Lost(rest, Trimmed(rest))
    <2>1. lost \subseteq Buffer
      BY <1>2, <1>3 DEF Lost
    <2>2. InUse' \cup ToSet(cached)' = (InUse \cup ToSet(cached)) \ lost
      BY <1>3, <1>4, <1>5, <1>8, <1>9, Places DEF Lost
    <2>3. Holds(resident', (InUse \cup ToSet(cached)) \ lost)
      BY <1>9, <2>1, EraseHolds DEF Exact
    <2> QED
      BY <2>2, <2>3 DEF Exact
  <1>12. Clients!Lend(b, size)
    BY <1>5, <1>6, <1>8 DEF Clients!Lend
  <1> QED
    BY <1>5, <1>6, <1>10, <1>11, <1>12 DEF Clients!Next

LEMMA ReclaimStep ==
  ASSUME Owned, Exact, NEW t \in Thread, NEW size \in Request,
         MallocMiss(t, size) \/ MallocThrow(t, size)
  PROVE  Owned' /\ Exact' /\ uses' = uses
  <1>1. /\ cached' = Reclaimed(size)
        /\ alive' = alive \ Lost(cached, Reclaimed(size))
        /\ resident' = EraseBuffers(resident, Lost(cached, Reclaimed(size)))
        /\ uses' = uses /\ doomed' = doomed
    BY DEF MallocMiss, MallocThrow, Reclaim
  <1>2. want' \in [Thread -> Nat]
    <2>1. size \in Nat
      BY FreeBuffersAssumption
    <2> QED
      BY <2>1, AlignUp DEF MallocMiss, MallocThrow, Owned
  <1>3. Once(cached') /\ ToSet(cached)' \subseteq ToSet(cached)
    BY <1>1, OwnedOnce, ReclaimedOnce
  <1>4. InUse' = InUse
    BY <1>1 DEF InUse
  <1>5. alive' = InUse' \cup ToSet(cached)' \cup Doomed'
    BY <1>1, <1>3, <1>4, DoomedStays, Places DEF Lost
  <1>6. InUse' \cap ToSet(cached)' = {}
    BY <1>3, <1>4 DEF Owned, OnePlace
  <1>7. \A u \in Thread : doomed'[u] \cap (InUse' \cup ToSet(cached)') = {}
    BY <1>1, <1>3, <1>4 DEF Owned, OnePlace
  <1>8. Owned'
    BY <1>1, <1>2, <1>3, <1>5, <1>6, <1>7, PlaceStep DEF Owned, OnePlace
  <1>9. Exact'
    <2> DEFINE lost == Lost(cached, Reclaimed(size))
    <2>1. lost \subseteq Buffer
      BY OwnedOnce DEF Lost
    <2>2. InUse' \cup ToSet(cached)' = (InUse \cup ToSet(cached)) \ lost
      BY <1>1, <1>3, <1>4, Places DEF Lost
    <2>3. Holds(resident', (InUse \cup ToSet(cached)) \ lost)
      BY <1>1, <2>1, EraseHolds DEF Exact
    <2> QED
      BY <2>2, <2>3 DEF Exact
  <1> QED
    BY <1>1, <1>8, <1>9

LEMMA NewStep ==
  ASSUME Owned, Exact, NEW t \in Thread, MallocNew(t)
  PROVE  Owned' /\ Exact' /\ Clients!Next
  <1>1. PICK b \in Buffer \ (alive \cup External) : MallocNew(t)!2!(b)
    BY DEF MallocNew
  <1>2. Once(Trimmed(cached)) /\ ToSet(Trimmed(cached)) \subseteq ToSet(cached)
    BY OwnedOnce, TrimmedOnce
  <1>3. uses[b] = <<>> /\ b \notin alive
    BY DEF Owned, OnePlace, InUse
  <1>4. want[t] \in Nat /\ want[t] # 0 /\ Length[b] = want[t]
    BY <1>1 DEF MallocNew, Makes, Owned
  <1>5. uses' = [uses EXCEPT ![b] = Append(@, want[t])]
    BY <1>1
  <1>6. /\ uses' = [uses EXCEPT ![b] = <<want[t]>>]
        /\ uses' \in [Buffer -> Seq(Nat)]
        /\ InUse' = InUse \cup {b}
        /\ \A c \in Buffer : Len(uses'[c]) <= 1
    BY <1>3, <1>4, <1>5, HandOut
  <1>7. /\ cached' = Trimmed(cached)
        /\ alive' = (alive \cup {b}) \ Lost(cached, Trimmed(cached))
        /\ resident' = EraseBuffers(InsertBuffer(resident, b), Lost(cached, Trimmed(cached)))
        /\ doomed' = doomed
        /\ want' \in [Thread -> Nat]
    BY <1>1 DEF MallocNew, Owned
  <1>8. Owned'
    <2>1. InUse' \cap ToSet(cached)' = {}
      BY <1>2, <1>3, <1>6, <1>7 DEF Owned, OnePlace
    <2>2. \A u \in Thread : doomed'[u] \cap (InUse' \cup ToSet(cached)') = {}
      BY <1>2, <1>3, <1>6, <1>7, DoomedAlive DEF Owned, OnePlace
    <2>3. alive' = InUse' \cup ToSet(cached)' \cup Doomed'
      BY <1>2, <1>3, <1>6, <1>7, DoomedStays, Places DEF Lost
    <2> QED
      BY <1>2, <1>6, <1>7, <2>1, <2>2, <2>3, PlaceStep DEF Owned, OnePlace
  <1>9. Exact'
    <2> DEFINE lost == Lost(cached, Trimmed(cached))
               counted == InUse \cup ToSet(cached)
    <2>1. lost \subseteq Buffer /\ b \notin counted
      BY <1>3, OwnedOnce, Places DEF Lost
    <2>2. InUse' \cup ToSet(cached)' = (counted \cup {b}) \ lost
      BY <1>2, <1>3, <1>6, <1>7, Places DEF Lost
    <2>3. Holds(InsertBuffer(resident, b), counted \cup {b})
      BY <2>1, InsertHolds DEF Exact
    <2>4. Holds(resident', (counted \cup {b}) \ lost)
      BY <1>7, <2>1, <2>3, EraseHolds
    <2> QED
      BY <2>2, <2>4 DEF Exact
  <1>10. Clients!Lend(b, want[t])
    BY <1>3, <1>4, <1>6 DEF Clients!Lend
  <1> QED
    BY <1>4, <1>8, <1>9, <1>10 DEF Clients!Next

LEMMA MakeStep ==
  ASSUME Owned, Exact, NEW t \in Thread, NEW b \in Buffer, MakeBuffer(t, b)
  PROVE  Owned' /\ Exact' /\ Clients!Next
  <1>1. uses[b] = <<>> /\ b \notin alive
    BY DEF MakeBuffer, Owned, OnePlace, InUse
  <1>2. Length[b] \in Nat \ {0}
    BY FreeBuffersAssumption
  <1>3. uses' = [uses EXCEPT ![b] = Append(@, Length[b])]
    BY DEF MakeBuffer
  <1>4. /\ uses' = [uses EXCEPT ![b] = <<Length[b]>>]
        /\ uses' \in [Buffer -> Seq(Nat)]
        /\ InUse' = InUse \cup {b}
        /\ \A c \in Buffer : Len(uses'[c]) <= 1
    BY <1>1, <1>2, <1>3, HandOut
  <1>5. /\ cached' = cached /\ alive' = alive \cup {b}
        /\ doomed' = doomed /\ want' = want
        /\ resident' = Insert(resident, b)
    BY DEF MakeBuffer
  <1>6. Owned'
    <2>1. ToSet(cached)' = ToSet(cached)
      BY <1>5
    <2>2. Once(cached')
      BY <1>5, OwnedOnce
    <2>3. alive' = InUse' \cup ToSet(cached)' \cup Doomed'
      BY <1>4, <1>5, <2>1, DoomedStays DEF Owned, OnePlace
    <2>4. InUse' \cap ToSet(cached)' = {}
      BY <1>1, <1>4, <2>1 DEF Owned, OnePlace
    <2>5. \A u \in Thread : doomed'[u] \cap (InUse' \cup ToSet(cached)') = {}
      BY <1>1, <1>4, <1>5, <2>1, DoomedAlive DEF Owned, OnePlace
    <2> QED
      BY <1>4, <1>5, <2>2, <2>3, <2>4, <2>5, PlaceStep DEF Owned, OnePlace
  <1>7. Exact'
    <2>1. b \notin InUse \cup ToSet(cached) /\ b \notin OnHeap
      BY <1>1, Places, MetalAllocatorAssumption DEF MakeBuffer
    <2>2. InUse' \cup ToSet(cached)' = InUse \cup ToSet(cached) \cup {b}
      BY <1>4, <1>5
    <2>3. Holds(resident', InUse \cup ToSet(cached) \cup {b})
      BY <1>5, <2>1, InsertHolds DEF Exact
    <2> QED
      BY <2>2, <2>3 DEF Exact
  <1>8. Clients!Lend(b, Length[b])
    BY <1>1, <1>2, <1>4 DEF Clients!Lend
  <1> QED
    BY <1>2, <1>6, <1>7, <1>8 DEF Clients!Next

LEMMA FreeToCacheStep ==
  ASSUME Owned, Exact, NEW t \in Thread, NEW b \in Buffer, FreeToCache(t, b)
  PROVE  Owned' /\ Exact' /\ Clients!Next
  <1>1. b \in InUse /\ uses' = [uses EXCEPT ![b] = Tail(@)]
    BY DEF FreeToCache
  <1>2. /\ uses' = [uses EXCEPT ![b] = <<>>]
        /\ Len(uses[b]) = 1
        /\ uses' \in [Buffer -> Seq(Nat)]
        /\ InUse' = InUse \ {b}
        /\ \A c \in Buffer : Len(uses'[c]) <= 1
    BY <1>1, TakeBack
  <1>3. /\ cached' = <<b>> \o cached /\ alive' = alive
        /\ doomed' = doomed /\ want' = want /\ resident' = resident
    BY DEF FreeToCache
  <1>4. Once(cached') /\ ToSet(cached)' = ToSet(cached) \cup {b}
    <2>1. b \notin ToSet(cached)
      BY <1>1 DEF Owned, OnePlace
    <2> QED
      BY <1>3, <2>1, OwnedOnce, ConsOnce
  <1>5. Owned'
    <2>1. alive' = InUse' \cup ToSet(cached)' \cup Doomed'
      <3>1. alive = InUse \cup ToSet(cached) \cup Doomed
        BY DEF Owned, OnePlace
      <3>2. InUse' \cup ToSet(cached)' = InUse \cup ToSet(cached)
        BY <1>1, <1>2, <1>4
      <3> QED
        BY <1>3, <3>1, <3>2, DoomedStays
    <2>2. InUse' \cap ToSet(cached)' = {}
      BY <1>2, <1>4 DEF Owned, OnePlace
    <2>3. \A u \in Thread : doomed'[u] \cap (InUse' \cup ToSet(cached)') = {}
      <3> SUFFICES ASSUME NEW u \in Thread
                   PROVE  doomed[u] \cap (InUse' \cup ToSet(cached)') = {}
        BY <1>3
      <3>1. doomed[u] \cap (InUse \cup ToSet(cached)) = {}
        BY DEF Owned, OnePlace
      <3> QED
        BY <1>1, <1>2, <1>4, <3>1
    <2> QED
      BY <1>2, <1>3, <1>4, <2>1, <2>2, <2>3, PlaceStep DEF Owned, OnePlace
  <1>6. Exact'
    BY <1>1, <1>2, <1>3, <1>4 DEF Exact
  <1>7. Clients!GiveBack(b)
    BY <1>2 DEF Clients!GiveBack
  <1> QED
    BY <1>5, <1>6, <1>7 DEF Clients!Next

LEMMA DiscardStep ==
  ASSUME Owned, Exact, NEW t \in Thread, NEW b \in InUse, Discard(t, b)
  PROVE  Owned' /\ Exact' /\ Clients!Next
  <1>0. b \in Buffer
    BY DEF InUse
  <1>1. uses' = [uses EXCEPT ![b] = Tail(@)] /\ doomed[t] = {}
    BY DEF Discard, Free
  <1>2. /\ uses' = [uses EXCEPT ![b] = <<>>]
        /\ Len(uses[b]) = 1
        /\ uses' \in [Buffer -> Seq(Nat)]
        /\ InUse' = InUse \ {b}
        /\ \A c \in Buffer : Len(uses'[c]) <= 1
    BY <1>1, TakeBack
  <1>3. /\ cached' = cached /\ alive' = alive /\ want' = want
        /\ doomed' = [doomed EXCEPT ![t] = {b}]
        /\ resident' = EraseBuffers(resident, {b})
    BY DEF Discard
  <1>4. /\ doomed' \in [Thread -> SUBSET Buffer]
        /\ \A u \in Thread : doomed'[u] = IF u = t THEN {b} ELSE doomed[u]
    BY <1>0, <1>3 DEF Owned
  <1>5. Owned'
    <2>1. Once(cached') /\ ToSet(cached)' = ToSet(cached)
      BY <1>3, OwnedOnce
    <2>2. Doomed' = Doomed \cup {b}
      BY <1>0, <1>1, <1>4 DEF Doomed
    <2>3. alive' = InUse' \cup ToSet(cached)' \cup Doomed'
      BY <1>2, <1>3, <2>1, <2>2 DEF Owned, OnePlace
    <2>4. InUse' \cap ToSet(cached)' = {}
      BY <1>2, <2>1 DEF Owned, OnePlace
    <2>5. \A u \in Thread : doomed'[u] \cap (InUse' \cup ToSet(cached)') = {}
      BY <1>2, <1>4, <2>1, SMTT(20) DEF Owned, OnePlace
    <2>6. \A u, v \in Thread : u # v => doomed'[u] \cap doomed'[v] = {}
      BY <1>4, SMTT(20) DEF Owned, OnePlace
    <2> QED
      BY <1>2, <1>3, <1>4, <2>1, <2>3, <2>4, <2>5, <2>6, PlaceStep DEF Owned
  <1>6. Exact'
    <2>1. Holds(resident', (InUse \cup ToSet(cached)) \ {b})
      BY <1>0, <1>3, EraseHolds DEF Exact
    <2>2. InUse' \cup ToSet(cached)' = (InUse \cup ToSet(cached)) \ {b}
      BY <1>2, <1>3, Places
    <2> QED
      BY <2>1, <2>2 DEF Exact
  <1>7. Clients!GiveBack(b)
    BY <1>2 DEF Clients!GiveBack
  <1> QED
    BY <1>0, <1>5, <1>6, <1>7 DEF Clients!Next

LEMMA DriverReleaseStep ==
  ASSUME Owned, Exact, NEW t \in Thread, DriverRelease(t)
  PROVE  Owned' /\ Exact'
  <1>1. /\ cached' = cached /\ uses' = uses /\ want' = want
        /\ alive' = alive \ doomed[t]
        /\ doomed' = [doomed EXCEPT ![t] = {}]
        /\ resident' = resident
    BY DEF DriverRelease
  <1>2. /\ doomed' \in [Thread -> SUBSET Buffer]
        /\ \A u \in Thread : doomed'[u] = IF u = t THEN {} ELSE doomed[u]
    BY <1>1 DEF Owned
  <1>3. Once(cached') /\ ToSet(cached)' = ToSet(cached) /\ InUse' = InUse
    BY <1>1, OwnedOnce DEF InUse
  <1>4. Doomed' = Doomed \ doomed[t]
    BY <1>2 DEF Owned, OnePlace, Doomed
  <1>5. alive' = InUse' \cup ToSet(cached)' \cup Doomed'
    BY <1>1, <1>3, <1>4 DEF Owned, OnePlace
  <1>6. \A u \in Thread : doomed'[u] \cap (InUse' \cup ToSet(cached)') = {}
    BY <1>2, <1>3 DEF Owned, OnePlace
  <1>7. \A u, v \in Thread : u # v => doomed'[u] \cap doomed'[v] = {}
    BY <1>2 DEF Owned, OnePlace
  <1>8. Owned'
    BY <1>1, <1>2, <1>3, <1>5, <1>6, <1>7, PlaceStep DEF Owned, OnePlace
  <1>9. Exact'
    BY <1>1, <1>3 DEF Exact
  <1> QED
    BY <1>8, <1>9

LEMMA ClearStep ==
  ASSUME Owned, Exact, ClearCache
  PROVE  Owned' /\ Exact' /\ uses' = uses
  <1>1. /\ cached' = <<>> /\ uses' = uses /\ want' = want /\ doomed' = doomed
        /\ alive' = alive \ ToSet(cached)
        /\ resident' = EraseBuffers(resident, ToSet(cached))
    BY DEF ClearCache
  <1>2. Once(cached') /\ ToSet(cached)' = {} /\ InUse' = InUse
    BY <1>1 DEF Once, IsInjective, ToSet, InUse
  <1>3. alive' = InUse' \cup ToSet(cached)' \cup Doomed'
    BY <1>1, <1>2, DoomedStays, Places
  <1>4. Owned'
    BY <1>1, <1>2, <1>3, PlaceStep DEF Owned, OnePlace
  <1>5. Exact'
    <2>1. Holds(resident', (InUse \cup ToSet(cached)) \ ToSet(cached))
      BY <1>1, OwnedOnce, EraseHolds DEF Exact
    <2>2. InUse' \cup ToSet(cached)' = (InUse \cup ToSet(cached)) \ ToSet(cached)
      BY <1>2, Places
    <2> QED
      BY <2>1, <2>2 DEF Exact
  <1> QED
    BY <1>1, <1>4, <1>5

LEMMA ElsewhereStep ==
  ASSUME Owned, Exact, UNCHANGED <<doomed, alive, uses, cached>>, want' \in [Thread -> Nat],
         resident' = resident \/ \E limit \in WiredLimits : resident' \in Resize(resident, limit)
  PROVE  Owned' /\ Exact'
  <1>1. Owned'
    BY DoomedStays DEF Owned, OnePlace, InUse, ToSet
  <1>2. InUse' \cup ToSet(cached)' = InUse \cup ToSet(cached)
    BY DEF InUse
  <1>3. Holds(resident', InUse \cup ToSet(cached))
    BY ResizeHolds, MetalAllocatorAssumption DEF Exact
  <1> QED
    BY <1>1, <1>2, <1>3 DEF Exact

LEMMA OwnedStep ==
  ASSUME Owned, Exact, [Next]_vars
  PROVE  Owned' /\ Exact' /\ [Clients!Next]_uses
  <1>1. ASSUME NEW t \in Thread, NEW size \in Request,
               MallocCached(t, size) \/ MallocMiss(t, size) \/ MallocThrow(t, size)
        PROVE  Owned' /\ Exact' /\ [Clients!Next]_uses
    BY <1>1, CachedStep, ReclaimStep
  <1>2. ASSUME NEW t \in Thread, MallocNew(t)  PROVE Owned' /\ Exact' /\ [Clients!Next]_uses
    BY <1>2, NewStep
  <1>3. ASSUME NEW t \in Thread, MallocFail(t) \/ Catch(t)
        PROVE  Owned' /\ Exact' /\ [Clients!Next]_uses
    <2>1. /\ UNCHANGED <<doomed, alive, uses, cached>> /\ resident' = resident
          /\ want' \in [Thread -> Nat]
      BY <1>3 DEF MallocFail, Catch, Owned
    <2> QED
      BY <2>1, ElsewhereStep
  <1>4. ASSUME NEW t \in Thread, DriverRelease(t)  PROVE Owned' /\ Exact' /\ [Clients!Next]_uses
    BY <1>4, DriverReleaseStep DEF DriverRelease
  <1>5. ASSUME NEW t \in Thread, NEW b \in Buffer, FreeToCache(t, b) \/ MakeBuffer(t, b)
        PROVE  Owned' /\ Exact' /\ [Clients!Next]_uses
    BY <1>5, FreeToCacheStep, MakeStep
  <1>6. ASSUME NEW t \in Thread, NEW b \in Buffer, FreeToDriver(t, b) \/ Release(t, b)
        PROVE  Owned' /\ Exact' /\ [Clients!Next]_uses
    BY <1>6, DiscardStep DEF FreeToDriver, Release
  <1>7. CASE ClearCache
    BY <1>7, ClearStep
  <1>8. CASE \/ \E limit \in CacheLimits : SetCacheLimit(limit)
             \/ \E limit \in MemoryLimits : SetMemoryLimit(limit)
             \/ \E limit \in WiredLimits : SetWiredLimit(limit)
    BY <1>8, ElsewhereStep DEF SetCacheLimit, SetMemoryLimit, SetWiredLimit, Owned
  <1>9. CASE UNCHANGED vars
    BY <1>9, ElsewhereStep DEF vars, Owned
  <1> QED
    BY <1>1, <1>2, <1>3, <1>4, <1>5, <1>6, <1>7, <1>8, <1>9 DEF Next

(* A buffer is never with two clients, nor with a client and in the cache or *)
(* on its way to the driver, and none is lost (MetalAllocator::malloc, free, *)
(* release, clear_cache).                                                    *)
THEOREM OwnedOnePlace == Spec => []OnePlace
  <1>1. Owned /\ Exact /\ [Next]_vars => Owned' /\ Exact'
    BY OwnedStep
  <1>2. Owned => OnePlace
    BY DEF Owned
  <1> QED
    BY OwnedInit, ExactInit, <1>1, <1>2, PTL DEF Spec

(* The residency set never keeps a buffer the driver may take back, nor      *)
(* misses one that is in use (ResidencySet::insert, erase, resize and their  *)
(* calls in the allocator).                                                  *)
THEOREM ResidencyIsExact == Spec => []ResidencyExact
  <1>1. Owned /\ Exact /\ [Next]_vars => Owned' /\ Exact'
    BY OwnedStep
  <1>2. Exact => ResidencyExact
    BY DEF Exact, Holds, ResidencyExact
  <1> QED
    BY OwnedInit, ExactInit, <1>1, <1>2, PTL DEF Spec

-----------------------------------------------------------------------------
(* The number of resources against the limit.                                *)
Asking == {t \in Thread : want[t] # 0}

Bounded == Owned /\ Exact /\ resources \in Int /\ ResourceBound

LEMMA AskingCounted ==
  /\ IsFiniteSet(Asking) /\ Cardinality(Asking) \in Nat
  /\ Cardinality(Asking) <= Cardinality(Thread)
  /\ Cardinality(Thread) \in Nat \ {0}
  <1>1. Asking \subseteq Thread /\ IsFiniteSet(Thread) /\ Thread # {}
    BY MetalAllocatorAssumption DEF Asking
  <1>2. Cardinality(Thread) \in Nat /\ Cardinality(Thread) # 0
    BY <1>1, FS_CardinalityType, FS_EmptySet
  <1> QED
    BY <1>1, <1>2, FS_Subset, FS_CardinalityType

LEMMA AskingStops ==
  ASSUME Owned, NEW t \in Asking, want' = [want EXCEPT ![t] = 0]
  PROVE  Cardinality(Asking') = Cardinality(Asking) - 1
  <1>1. Asking' = Asking \ {t}
    BY DEF Asking, Owned
  <1> QED
    BY <1>1, AskingCounted, FS_RemoveElement

LEMMA Held ==
  /\ IsFiniteSet(InUse \cap External)
  /\ Cardinality(InUse \cap External) \in Nat
  <1>1. InUse \cap External \subseteq Buffer /\ IsFiniteSet(Buffer)
    BY MetalAllocatorAssumption DEF InUse
  <1> QED
    BY <1>1, FS_Subset, FS_CardinalityType

LEMMA HeldMore ==
  ASSUME InUse \subseteq InUse'
  PROVE  Cardinality(InUse \cap External) <= Cardinality(InUse' \cap External)
  <1>1. IsFiniteSet(InUse' \cap External)
    <2>1. InUse' \cap External \subseteq Buffer /\ IsFiniteSet(Buffer)
      BY MetalAllocatorAssumption DEF InUse
    <2> QED
      BY <2>1, FS_Subset
  <1>2. InUse \cap External \subseteq InUse' \cap External
    OBVIOUS
  <1> QED
    BY <1>1, <1>2, FS_Subset

LEMMA LostCounted ==
  ASSUME NEW list, Once(list), NEW other
  PROVE  Cardinality(Lost(list, other)) \in Nat
  <1>1. Lost(list, other) \subseteq Buffer /\ IsFiniteSet(Buffer)
    BY MetalAllocatorAssumption DEF Lost, ToSet, Once
  <1> QED
    BY <1>1, FS_Subset, FS_CardinalityType

LEMMA BoundedInit == Init => Bounded
  <1> SUFFICES ASSUME Init  PROVE Bounded
    OBVIOUS
  <1>1. Asking = {} /\ resources = 0
    BY DEF Init, Asking
  <1>2. Cardinality(Asking) = 0
    BY <1>1, FS_EmptySet
  <1>3. ResourceLimit \in Nat
    BY MetalAllocatorAssumption
  <1> QED
    BY <1>1, <1>2, <1>3, AskingCounted, Held, OwnedInit, ExactInit
    DEF Bounded, ResourceBound, Asking

(* Only MallocMiss lets one more thread ask, and it has just looked at the   *)
(* limit; every other step adds no more than it takes away.                  *)
LEMMA BoundedStep ==
  ASSUME Bounded, [Next]_vars
  PROVE  resources' \in Int /\ ResourceBound'
  <1> DEFINE held == Cardinality(InUse \cap External)
             asking == Cardinality(Asking)
             slack == ResourceLimit + (Cardinality(Thread) - 1)
  <1>1. /\ resources \in Int /\ held \in Nat /\ asking \in Nat
        /\ slack \in Int /\ asking <= Cardinality(Thread)
        /\ held' \in Nat /\ asking' \in Nat /\ asking' <= Cardinality(Thread)
        /\ Cardinality(Thread) \in Nat /\ ResourceLimit \in Nat
        /\ resources + asking <= slack + held
    <2>1. held' \in Nat
      <3>1. InUse' \cap External \subseteq Buffer /\ IsFiniteSet(Buffer)
        BY MetalAllocatorAssumption DEF InUse
      <3> QED
        BY <3>1, FS_Subset, FS_CardinalityType
    <2>2. asking' \in Nat /\ asking' <= Cardinality(Thread)
      <3>1. Asking' \subseteq Thread /\ IsFiniteSet(Thread)
        BY MetalAllocatorAssumption DEF Asking
      <3> QED
        BY <3>1, FS_Subset, FS_CardinalityType
    <2>3. ResourceLimit \in Nat
      BY MetalAllocatorAssumption
    <2> QED
      BY <2>1, <2>2, <2>3, Held, AskingCounted DEF Bounded, ResourceBound, Asking
  <1> HIDE DEF held, asking, slack
  <1>2. SUFFICES resources' \in Int /\ resources' + asking' <= slack + held'
    BY DEF ResourceBound, Asking, held, asking, slack
  <1>3. ASSUME NEW lost \in Nat, resources' = resources - lost,
               asking' = asking, held <= held'
        PROVE  resources' \in Int /\ resources' + asking' <= slack + held'
    <2>1. resources' \in Int
      BY <1>1, <1>3
    <2>2. \A h, k \in Nat : h <= k => \E more \in Nat : k = h + more
      <3>1. \A h, k \in Nat : h <= k => k - h \in Nat /\ k = h + (k - h)
        OBVIOUS
      <3> QED
        BY <3>1, Zenon
    <2>3. PICK more \in Nat : held' = held + more
      BY <1>1, <1>3, <2>2, Zenon
    <2> QED
      BY <1>1, <1>3, <2>1, <2>3
  <1>4. InUse' = InUse => held' = held
    BY DEF held
  <1>5. want' = want => asking' = asking
    BY DEF asking, Asking
  <1>6. ASSUME NEW t \in Thread, NEW size \in Request, MallocCached(t, size)
        PROVE  resources' \in Int /\ resources' + asking' <= slack + held'
    <2>1. PICK i \in DOMAIN cached : MallocCached(t, size)!2!(i)
      BY <1>6 DEF MallocCached
    <2> DEFINE rest == RemoveAt(cached, i)
               lost == Lost(rest, Trimmed(rest))
    <2>2. Once(rest)
      BY OwnedOnce, RemoveAtOnce DEF Bounded
    <2>3. Cardinality(lost) \in Nat
      BY <2>2, LostCounted
    <2>4. resources' = resources - Cardinality(lost) /\ want' = want
      BY <1>6, <2>1 DEF MallocCached
    <2>5. InUse \subseteq InUse'
      <3>1. \A b \in Buffer : b # cached[i] => uses'[b] = uses[b]
        BY <2>1 DEF Bounded, Owned
      <3>2. cached[i] \notin InUse
        BY DEF Bounded, Owned, OnePlace, ToSet
      <3> QED
        BY <3>1, <3>2 DEF InUse
    <2> QED
      BY <1>3, <1>5, <2>3, <2>4, <2>5, HeldMore DEF held
  <1>7. ASSUME NEW t \in Thread, NEW size \in Request,
               MallocMiss(t, size) \/ MallocThrow(t, size)
        PROVE  resources' \in Int /\ resources' + asking' <= slack + held'
    <2>1. /\ resources' = resources - Cardinality(Lost(cached, Reclaimed(size)))
          /\ uses' = uses
      BY <1>7 DEF MallocMiss, MallocThrow, Reclaim
    <2>2. Cardinality(Lost(cached, Reclaimed(size))) \in Nat
      BY OwnedOnce, LostCounted DEF Bounded
    <2>3. held' = held
      BY <1>4, <2>1 DEF InUse
    <2>4. CASE MallocThrow(t, size)
      BY <1>1, <1>3, <1>5, <2>1, <2>2, <2>3, <2>4 DEF MallocThrow
    <2>5. CASE MallocMiss(t, size)
      <3>1. resources' < ResourceLimit /\ resources' \in Int
        BY <1>1, <2>1, <2>2, <2>5 DEF MallocMiss
      <3> QED
        BY <1>1, <2>3, <3>1 DEF slack
    <2> QED
      BY <1>7, <2>4, <2>5
  <1>8. ASSUME NEW t \in Thread, MallocNew(t)
        PROVE  resources' \in Int /\ resources' + asking' <= slack + held'
    <2>1. PICK b \in Buffer \ (alive \cup External) : MallocNew(t)!2!(b)
      BY <1>8 DEF MallocNew
    <2> DEFINE lost == Lost(cached, Trimmed(cached))
    <2>2. Cardinality(lost) \in Nat
      BY OwnedOnce, LostCounted DEF Bounded
    <2>3. resources' = resources + 1 - Cardinality(lost)
      BY <2>1
    <2>4. asking' = asking - 1
      BY <1>8, AskingStops DEF Asking, asking, MallocNew, Bounded
    <2>5. InUse \subseteq InUse'
      <3>1. \A c \in Buffer : c # b => uses'[c] = uses[c]
        BY <2>1 DEF Bounded, Owned
      <3>2. b \notin InUse
        BY DEF Bounded, Owned, OnePlace
      <3> QED
        BY <3>1, <3>2 DEF InUse
    <2>6. held <= held'
      BY <2>5, HeldMore DEF held
    <2> QED
      BY <1>1, <2>2, <2>3, <2>4, <2>6
  <1>9. ASSUME NEW t \in Thread, MallocFail(t)
        PROVE  resources' \in Int /\ resources' + asking' <= slack + held'
    <2>1. asking' = asking - 1
      BY <1>9, AskingStops DEF Asking, asking, MallocFail, Bounded
    <2>2. resources' = resources /\ held' = held
      BY <1>4, <1>9 DEF MallocFail, accounts, InUse
    <2> QED
      BY <1>1, <2>1, <2>2
  <1>10. ASSUME NEW t \in Thread, NEW b \in Buffer, FreeToCache(t, b)
         PROVE  resources' \in Int /\ resources' + asking' <= slack + held'
    <2>1. InUse' = InUse \ {b} /\ b \notin External
      BY <1>10, TakeBack DEF FreeToCache, Bounded
    <2>2. held' = held
      <3>1. InUse' \cap External = InUse \cap External
        BY <2>1
      <3> QED
        BY <3>1 DEF held
    <2>3. resources' = resources /\ want' = want
      BY <1>10 DEF FreeToCache
    <2> QED
      BY <1>1, <1>5, <2>2, <2>3
  <1>11. ASSUME NEW t \in Thread, NEW b \in InUse, Discard(t, b)
         PROVE  resources' \in Int /\ resources' + asking' <= slack + held'
    <2>1. InUse' = InUse \ {b}
      BY <1>11, TakeBack DEF Discard, Bounded
    <2>2. \E more \in Nat : held' = held - 1 + more
      <3>1. InUse' \cap External = (InUse \cap External) \ {b}
        BY <2>1
      <3>2. CASE b \in External
        <4>1. held' = held - 1
          BY <3>1, <3>2, Held, FS_RemoveElement DEF held
        <4> QED
          BY <1>1, <4>1
      <3>3. CASE b \notin External
        <4>1. InUse' \cap External = InUse \cap External
          BY <2>1, <3>3
        <4>2. held' = held
          BY <4>1 DEF held
        <4> QED
          BY <1>1, <4>2
      <3> QED
        BY <3>2, <3>3
    <2>3. resources' = resources - 1 /\ want' = want
      BY <1>11 DEF Discard
    <2> QED
      BY <1>1, <1>5, <2>2, <2>3
  <1>12. ASSUME NEW t \in Thread, NEW b \in Buffer, MakeBuffer(t, b)
         PROVE  resources' \in Int /\ resources' + asking' <= slack + held'
    <2>1. uses[b] = <<>> /\ b \notin InUse /\ b \in External
      BY <1>12 DEF MakeBuffer, Bounded, Owned, OnePlace, InUse
    <2>2. InUse' = InUse \cup {b}
      BY <1>12, <2>1, HandOut, FreeBuffersAssumption DEF MakeBuffer, Bounded
    <2>3. held' = held + 1
      <3>1. InUse' \cap External = (InUse \cap External) \cup {b}
        BY <2>1, <2>2
      <3> QED
        BY <2>1, <3>1, Held, FS_AddElement DEF held
    <2>4. resources' = resources + 1 /\ want' = want
      BY <1>12 DEF MakeBuffer
    <2> QED
      BY <1>1, <1>5, <2>3, <2>4
  <1>13. CASE ClearCache
    <2>1. resources' = resources - Len(cached) /\ want' = want /\ uses' = uses
      BY <1>13 DEF ClearCache
    <2>2. Len(cached) \in Nat
      BY DEF Bounded, Owned
    <2>3. held' = held
      BY <1>4, <2>1 DEF InUse
    <2> QED
      BY <1>1, <1>3, <1>5, <2>1, <2>2, <2>3
  <1>14. ASSUME UNCHANGED <<want, uses, resources>>
         PROVE  resources' \in Int /\ resources' + asking' <= slack + held'
    BY <1>1, <1>4, <1>5, <1>14 DEF InUse
  <1>15. CASE \/ \E t \in Thread : Catch(t) \/ DriverRelease(t)
              \/ \E limit \in CacheLimits : SetCacheLimit(limit)
              \/ \E limit \in MemoryLimits : SetMemoryLimit(limit)
              \/ \E limit \in WiredLimits : SetWiredLimit(limit)
              \/ UNCHANGED vars
    BY <1>14, <1>15
    DEF Catch, DriverRelease, SetCacheLimit, SetMemoryLimit, SetWiredLimit, vars, accounts
  <1> QED
    BY <1>6, <1>7, <1>8, <1>9, <1>10, <1>11, <1>12, <1>13, <1>15
    DEF Next, FreeToDriver, Release

(* However malloc's looks at resource_limit_ interleave with the buffers     *)
(* that the driver is making, the limit is passed by less than one buffer    *)
(* for each thread, client memory apart (allocator.cpp, malloc).             *)
THEOREM ResourcesBounded == Spec => []ResourceBound
  <1>1. Bounded /\ [Next]_vars => Bounded'
    BY OwnedStep, BoundedStep DEF Bounded
  <1>2. Bounded => ResourceBound
    BY DEF Bounded
  <1> QED
    BY BoundedInit, <1>1, <1>2, PTL DEF Spec

(* The allocator implements Lender: a buffer that is handed out is as long   *)
(* as was asked for and nobody else has it.                                  *)
THEOREM ImplementsLender == Spec => LenderSpec
  <1>1. Init => Clients!Init
    BY DEF Init, Clients!Init
  <1>2. Owned /\ Exact /\ [Next]_vars => Owned' /\ Exact' /\ [Clients!Next]_uses
    BY OwnedStep
  <1> QED
    BY OwnedInit, ExactInit, <1>1, <1>2, PTL DEF Spec, LenderSpec, Clients!Spec

-----------------------------------------------------------------------------
(* The accounts.  The allocations of the residency set are the heap and the  *)
(* buffers; their sizes have a sum over any of them.                         *)
Space == Buffer \cup {Heap}
Weight == [a \in Space |-> IF a = Heap THEN HeapSize ELSE Length[a]]

LEMMA Weights ==
  /\ IsFiniteSet(Space) /\ Weighs(Weight, Space)
  /\ \A b \in Buffer : Weight[b] = Length[b] /\ b # Heap
  <1>1. IsFiniteSet(Space)
    BY MetalAllocatorAssumption, FS_AddElement DEF Space
  <1>2. \A b \in Buffer : b # Heap /\ Length[b] \in Nat
    BY MetalAllocatorAssumption, FreeBuffersAssumption
  <1> QED
    BY <1>1, <1>2, MetalAllocatorAssumption DEF Space, Weight, Weighs

LEMMA Sizes ==
  \E g : SumsUp(g, Space, Weight) /\ \A T \in SUBSET Space : Size(T) = g[T]
  <1>1. PICK g : SumsUp(g, Space, Weight)
    BY Weights, SumExists
  <1>2. ASSUME NEW T \in SUBSET Space
        PROVE  Size(T) = g[T]
    <2>1. PICK c : c = [s \in SUBSET T |-> CHOOSE x \in s : TRUE]
      OBVIOUS
    <2>2. Chooses(c, T)
      BY <2>1 DEF Chooses
    <2>3. \A s \in SUBSET T : s # {} =>
            /\ (CHOOSE x \in s : TRUE) \in s /\ c[s] = (CHOOSE x \in s : TRUE)
            /\ Weight[c[s]] = (IF (CHOOSE x \in s : TRUE) = Heap THEN HeapSize ELSE Length[CHOOSE x \in s : TRUE])
      <3> SUFFICES ASSUME NEW s \in SUBSET T, s # {}
                   PROVE  /\ (CHOOSE x \in s : TRUE) \in s /\ c[s] = (CHOOSE x \in s : TRUE)
                          /\ Weight[c[s]] = (IF (CHOOSE x \in s : TRUE) = Heap THEN HeapSize ELSE Length[CHOOSE x \in s : TRUE])
        OBVIOUS
      <3>1. PICK y : y = (CHOOSE x \in s : TRUE)
        OBVIOUS
      <3>2. y \in s /\ c[s] = y
        BY <2>1, <3>1
      <3> QED
        BY <3>1, <3>2 DEF Weight
    <2>4. PICK h : h = [s \in SUBSET T |-> g[s]]
      OBVIOUS
    <2>5. h = [s \in SUBSET T |-> IF s = {} THEN 0
                ELSE (IF (CHOOSE x \in s : TRUE) = Heap THEN HeapSize ELSE Length[CHOOSE x \in s : TRUE])
                       + h[s \ {CHOOSE x \in s : TRUE}]]
      <3>1. \A s \in SUBSET T : s # {} =>
              h[s] = (IF (CHOOSE x \in s : TRUE) = Heap THEN HeapSize ELSE Length[CHOOSE x \in s : TRUE])
                       + h[s \ {CHOOSE x \in s : TRUE}]
        <4> SUFFICES ASSUME NEW s \in SUBSET T, s # {}
                     PROVE  h[s] = (IF (CHOOSE x \in s : TRUE) = Heap THEN HeapSize ELSE Length[CHOOSE x \in s : TRUE])
                                     + h[s \ {CHOOSE x \in s : TRUE}]
          OBVIOUS
        <4>1. PICK y : y = (CHOOSE x \in s : TRUE)
          OBVIOUS
        <4>2. y \in s /\ Weight[y] = (IF y = Heap THEN HeapSize ELSE Length[y])
          BY <2>3, <4>1
        <4>3. g[s] = Weight[y] + g[s \ {y}]
          BY <1>1, <4>2 DEF SumsUp
        <4>4. h[s] = g[s] /\ h[s \ {y}] = g[s \ {y}]
          BY <2>4
        <4> QED
          BY <4>1, <4>2, <4>3, <4>4
      <3>2. h[{}] = 0
        BY <1>1, <2>4 DEF SumsUp
      <3> QED
        BY <2>4, <3>1, <3>2
    <2>6. Size(T) =
            (CHOOSE iter : iter = [s \in SUBSET T |-> IF s = {} THEN 0
                ELSE (IF (CHOOSE x \in s : TRUE) = Heap THEN HeapSize ELSE Length[CHOOSE x \in s : TRUE])
                       + iter[s \ {CHOOSE x \in s : TRUE}]])[T]
      BY DEF Size, MapThenSumSet, MapThenFoldSet
    <2>7. PICK k : /\ k = [s \in SUBSET T |-> IF s = {} THEN 0
                           ELSE (IF (CHOOSE x \in s : TRUE) = Heap THEN HeapSize ELSE Length[CHOOSE x \in s : TRUE])
                                  + k[s \ {CHOOSE x \in s : TRUE}]]
                   /\ Size(T) = k[T]
      BY <2>5, <2>6
    <2>8. Takes(k, T, Weight, c)
      <3>1. k[{}] = 0
        BY <2>7
      <3>2. \A s \in SUBSET T : s # {} =>
              k[s] = (IF (CHOOSE x \in s : TRUE) = Heap THEN HeapSize ELSE Length[CHOOSE x \in s : TRUE])
                       + k[s \ {CHOOSE x \in s : TRUE}]
        BY <2>7
      <3> QED
        BY <2>3, <3>1, <3>2 DEF Takes
    <2>9. IsFiniteSet(T) /\ Weighs(Weight, T)
      BY Weights, FS_Subset DEF Weighs
    <2>10. SumsUp(h, T, Weight)
      <3>1. h \in [SUBSET T -> Nat] /\ h[{}] = 0
        BY <1>1, <2>4 DEF SumsUp
      <3>2. \A r \in SUBSET T : \A x \in r : h[r] = g[r] /\ h[r \ {x}] = g[r \ {x}] /\ r \in SUBSET Space
        BY <2>4
      <3> QED
        BY <1>1, <3>1, <3>2 DEF SumsUp
    <2>11. k[T] = h[T]
      BY <2>2, <2>8, <2>9, <2>10, SumByTaking
    <2> QED
      BY <2>4, <2>7, <2>11
  <1> QED
    BY <1>1, <1>2

LEMMA SizeAdds ==
  ASSUME NEW T \in SUBSET Space, NEW x \in Buffer
  PROVE  /\ Size(T) \in Nat
         /\ x \notin T => Size(T \cup {x}) = Size(T) + Length[x]
         /\ x \in T => Size(T \ {x}) = Size(T) - Length[x]
  <1>1. PICK g : SumsUp(g, Space, Weight) /\ \A S \in SUBSET Space : Size(S) = g[S]
    BY Sizes
  <1>2. x \in Space /\ T \cup {x} \in SUBSET Space /\ T \ {x} \in SUBSET Space /\ Weight[x] = Length[x]
    BY Weights DEF Space
  <1>3. /\ g[T] \in Nat
        /\ x \notin T => g[T \cup {x}] = g[T] + Weight[x]
        /\ x \in T => g[T \ {x}] = g[T] - Weight[x]
    <2>1. PICK U, w : U = Space /\ w = Weight
      OBVIOUS
    <2>2. Weighs(w, U) /\ SumsUp(g, U, w) /\ T \in SUBSET U /\ x \in U
      BY <1>1, <1>2, <2>1, Weights
    <2>3. /\ g[T] \in Nat /\ g[T \cup {x}] \in Nat /\ g[T \ {x}] \in Nat /\ w[x] \in Nat
          /\ x \notin T => g[T \cup {x}] = g[T] + w[x]
          /\ x \in T => g[T \ {x}] = g[T] - w[x] /\ w[x] <= g[T]
      BY <2>2, SumAdds, Zenon
    <2> QED
      BY <2>1, <2>3
  <1> QED
    BY <1>1, <1>2, <1>3

LEMMA SizeMonotone ==
  ASSUME NEW T \in SUBSET Space, NEW S \in SUBSET T
  PROVE  Size(T) \in Nat /\ Size(S) \in Nat /\ Size(S) <= Size(T)
  <1>1. PICK g : SumsUp(g, Space, Weight) /\ \A R \in SUBSET Space : Size(R) = g[R]
    BY Sizes
  <1>2. S \in SUBSET Space
    OBVIOUS
  <1>3. g[S] <= g[T] /\ g[S] \in Nat /\ g[T] \in Nat
    <2>1. PICK U, w : U = Space /\ w = Weight
      OBVIOUS
    <2>2. /\ IsFiniteSet(U) /\ Weighs(w, U) /\ SumsUp(g, U, w)
          /\ T \in SUBSET U /\ S \in SUBSET T /\ S \in SUBSET U
      BY <1>1, <1>2, <2>1, Weights
    <2>3. g[S] <= g[T]
      BY <2>2, SumMonotone
    <2> QED
      BY <2>2, <2>3 DEF SumsUp
  <1> QED
    BY <1>1, <1>2, <1>3

LEMMA SizeOfNone == Size({}) = 0
  <1>1. PICK g : SumsUp(g, Space, Weight) /\ \A S \in SUBSET Space : Size(S) = g[S]
    BY Sizes
  <1> QED
    BY <1>1 DEF SumsUp

-----------------------------------------------------------------------------
(* What the operations of the residency set leave wired keeps within its     *)
(* capacity.                                                                 *)
Within(r) == Size(r.wired) <= r.capacity

LEMMA EraseWithin ==
  ASSUME NEW r, NEW A, Holds(r, A), Within(r), NEW S \in SUBSET Buffer
  PROVE  Within(EraseBuffers(r, S))
  <1>1. PICK q : q = EraseBuffers(r, S)
    OBVIOUS
  <1>2. q.wired \subseteq r.wired /\ q.capacity = r.capacity
    BY <1>1 DEF EraseBuffers, Erase, Holds
  <1>3. r.wired \in SUBSET Space /\ r.capacity \in Nat
    BY DEF Holds, Space
  <1>4. Size(r.wired) \in Nat /\ Size(q.wired) \in Nat /\ Size(q.wired) <= Size(r.wired)
    BY <1>2, <1>3, SizeMonotone
  <1> QED
    BY <1>1, <1>2, <1>3, <1>4 DEF Within

LEMMA InsertWithin ==
  ASSUME NEW r, NEW A, Holds(r, A), Within(r), NEW b \in Buffer \ A
  PROVE  Within(Insert(r, b)) /\ Within(InsertBuffer(r, b))
  <1>1. r.wired \in SUBSET Space /\ b \notin r.wired
    <2>1. b # Heap
      BY Weights
    <2> QED
      BY <2>1 DEF Holds, Space
  <1>2. Size(r.wired \cup {b}) = Size(r.wired) + Length[b]
    BY <1>1, SizeAdds
  <1>3. Within(Insert(r, b))
    <2>1. PICK q : q = Insert(r, b)
      OBVIOUS
    <2>2. CASE Size(r.wired) + Length[b] <= r.capacity
      <3>1. q.wired = r.wired \cup {b} /\ q.capacity = r.capacity
        BY <2>1, <2>2 DEF Insert, Holds
      <3> QED
        BY <1>2, <2>1, <2>2, <3>1 DEF Within
    <2>3. CASE ~ (Size(r.wired) + Length[b] <= r.capacity)
      <3>1. q.wired = r.wired /\ q.capacity = r.capacity
        BY <2>1, <2>3 DEF Insert, Holds
      <3> QED
        BY <2>1, <3>1 DEF Within
    <2> QED
      BY <2>2, <2>3
  <1> QED
    BY <1>3 DEF InsertBuffer

LEMMA ResizeWithin ==
  ASSUME NEW r, NEW A, Holds(r, A), Within(r), NEW size \in Nat, NEW q \in Resize(r, size)
  PROVE  Within(q)
  <1>1. CASE q = [r EXCEPT !.capacity = size] /\ (r.capacity = size \/ Size(r.wired) = size)
    <2>1. q.wired = r.wired /\ q.capacity = size
      BY <1>1 DEF Holds
    <2> QED
      BY <1>1, <2>1 DEF Within
  <1>2. CASE q \in Grow(r, size)
    <2>1. PICK S \in SUBSET r.unwired :
            /\ q = [wired |-> r.wired \cup S, unwired |-> r.unwired \ S, capacity |-> size]
            /\ Size(r.wired \cup S) <= size
      BY <1>2 DEF Grow
    <2> QED
      BY <2>1 DEF Within
  <1>3. CASE q \in Shrink(r, size)
    <2>1. PICK S \in SUBSET r.wired :
            /\ q = [wired |-> r.wired \ S, unwired |-> r.unwired \cup S, capacity |-> size]
            /\ Size(r.wired \ S) <= size
      BY <1>3 DEF Shrink
    <2> QED
      BY <2>1 DEF Within
  <1>4. \/ q = [r EXCEPT !.capacity = size] /\ (r.capacity = size \/ Size(r.wired) = size)
        \/ q \in Grow(r, size) \/ q \in Shrink(r, size)
    BY DEF Resize
  <1> QED
    BY <1>1, <1>2, <1>3, <1>4

-----------------------------------------------------------------------------
(* The buffers that are counted are those with clients and in the cache.     *)
Counted == InUse \cup ToSet(cached)

Tally ==
  /\ threw \subseteq Thread /\ maxPool \in Nat /\ gcLimit \in Nat
  /\ active = Size(InUse)
  /\ resources = Cardinality(Counted)
  /\ Within(resident)

Whole == Owned /\ Exact /\ Tally

LEMMA CountedFinite ==
  ASSUME Owned
  PROVE  /\ InUse \subseteq Buffer /\ InUse \in SUBSET Space
         /\ ToSet(cached) \subseteq Buffer /\ Counted \subseteq Buffer
         /\ IsFiniteSet(Counted) /\ Cardinality(Counted) \in Nat
  <1>1. InUse \subseteq Buffer /\ ToSet(cached) \subseteq Buffer
    BY OwnedOnce DEF InUse
  <1>2. IsFiniteSet(Buffer) /\ Counted \in SUBSET Buffer
    BY <1>1, MetalAllocatorAssumption DEF Counted
  <1> QED
    BY <1>1, <1>2, FS_Subset, FS_CardinalityType DEF Space

LEMMA CountLess ==
  ASSUME NEW S, IsFiniteSet(S), NEW T \in SUBSET S
  PROVE  Cardinality(S \ T) = Cardinality(S) - Cardinality(T)
  <1>1. S \cap T = T
    OBVIOUS
  <1> QED
    BY <1>1, FS_Difference

LEMMA TallyInit == Init => Tally
  <1> SUFFICES ASSUME Init  PROVE Tally
    OBVIOUS
  <1>1. InUse = {} /\ ToSet(cached) = {} /\ Counted = {}
    BY DEF Init, InUse, ToSet, Counted
  <1>2. resident.wired = {} /\ resident.capacity = 0
    BY DEF Init
  <1>3. threw = {} /\ active = 0 /\ resources = 0 /\ maxPool \in Nat /\ gcLimit \in Nat
    BY MetalAllocatorAssumption DEF Init
  <1>4. Cardinality(Counted) = 0 /\ Size(InUse) = 0 /\ Size(resident.wired) = 0
    BY <1>1, <1>2, SizeOfNone, FS_EmptySet
  <1> QED
    BY <1>2, <1>3, <1>4 DEF Tally, Within

(* What a step that gives buffers away, and perhaps hands one out, does.     *)
LEMMA Handed ==
  ASSUME Whole, NEW b \in Buffer, b \notin InUse, InUse' = InUse \cup {b}, active' = active + Length[b]
  PROVE  active' = Size(InUse')
  BY CountedFinite, SizeAdds DEF Whole, Tally

LEMMA Returned ==
  ASSUME Whole, NEW b \in InUse, InUse' = InUse \ {b}, active' = active - Length[b]
  PROVE  active' = Size(InUse')
  <1>1. b \in Buffer
    BY DEF InUse
  <1> QED
    BY <1>1, CountedFinite, SizeAdds DEF Whole, Tally

LEMMA Forgotten ==
  ASSUME Whole, NEW lost \in SUBSET Counted, Counted' = Counted \ lost,
         resources' = resources - Cardinality(lost)
  PROVE  resources' = Cardinality(Counted')
  BY CountedFinite, CountLess DEF Whole, Tally

LEMMA CachedTally ==
  ASSUME Whole, NEW t \in Thread, NEW size \in Request, MallocCached(t, size)
  PROVE  Tally'
  <1>1. PICK i \in DOMAIN cached : MallocCached(t, size)!2!(i)
    BY DEF MallocCached
  <1>2. PICK b, rest, lost : b = cached[i] /\ rest = RemoveAt(cached, i) /\ lost = Lost(rest, Trimmed(rest))
    OBVIOUS
  <1>3. /\ cached' = Trimmed(rest) /\ active' = active + Length[b]
        /\ resources' = resources - Cardinality(lost)
        /\ resident' = EraseBuffers(resident, lost)
        /\ uses' = [uses EXCEPT ![b] = Append(@, size)]
        /\ threw' = threw /\ maxPool' = maxPool /\ gcLimit' = gcLimit
    BY <1>1, <1>2 DEF MallocCached, limits
  <1>4. Once(cached)
    BY OwnedOnce DEF Whole
  <1>5. Once(rest) /\ ToSet(rest) = ToSet(cached) \ {b}
    BY <1>2, <1>4, RemoveAtOnce
  <1>6. ToSet(Trimmed(rest)) \subseteq ToSet(rest)
    BY <1>5, TrimmedOnce
  <1>7. b \in Buffer /\ b \in ToSet(cached) /\ uses[b] = <<>> /\ b \notin InUse
    BY <1>2, <1>4, OwnedOnce DEF ToSet, Whole, Owned, OnePlace, InUse
  <1>8. size \in Nat
    BY FreeBuffersAssumption
  <1>9. InUse' = InUse \cup {b}
    BY <1>3, <1>7, <1>8, HandOut DEF Whole
  <1>10. lost \in SUBSET Counted /\ lost \in SUBSET Buffer
    BY <1>2, <1>5, CountedFinite DEF Lost, Counted, Whole
  <1>11. Counted' = Counted \ lost
    BY <1>2, <1>3, <1>5, <1>6, <1>7, <1>9, Places DEF Lost, Counted, Whole
  <1>12. active' = Size(InUse') /\ resources' = Cardinality(Counted')
    BY <1>3, <1>7, <1>9, <1>10, <1>11, Handed, Forgotten
  <1>13. Within(resident')
    BY <1>3, <1>10, EraseWithin DEF Whole, Exact, Tally
  <1> QED
    BY <1>3, <1>12, <1>13 DEF Whole, Tally

LEMMA ReclaimTally ==
  ASSUME Whole, NEW t \in Thread, NEW size \in Request, MallocMiss(t, size) \/ MallocThrow(t, size)
  PROVE  Tally'
  <1>1. PICK lost : lost = Lost(cached, Reclaimed(size))
    OBVIOUS
  <1>2. /\ cached' = Reclaimed(size) /\ active' = active /\ uses' = uses
        /\ resources' = resources - Cardinality(lost)
        /\ resident' = EraseBuffers(resident, lost)
        /\ threw' \subseteq Thread /\ maxPool' = maxPool /\ gcLimit' = gcLimit
    BY <1>1 DEF MallocMiss, MallocThrow, Reclaim, limits, Whole, Tally
  <1>3. InUse' = InUse
    BY <1>2 DEF InUse
  <1>4. ToSet(cached)' \subseteq ToSet(cached)
    BY <1>2, OwnedOnce, ReclaimedOnce DEF Whole
  <1>5. lost \in SUBSET Counted /\ lost \in SUBSET Buffer
    BY <1>1, CountedFinite DEF Lost, Counted, Whole
  <1>6. Counted' = Counted \ lost
    BY <1>1, <1>2, <1>3, <1>4, Places DEF Lost, Counted, Whole
  <1>7. active' = Size(InUse') /\ resources' = Cardinality(Counted')
    BY <1>2, <1>3, <1>5, <1>6, Forgotten DEF Whole, Tally
  <1>8. Within(resident')
    BY <1>2, <1>5, EraseWithin DEF Whole, Exact, Tally
  <1> QED
    BY <1>2, <1>7, <1>8 DEF Whole, Tally

LEMMA NewTally ==
  ASSUME Whole, NEW t \in Thread, MallocNew(t)
  PROVE  Tally'
  <1>1. PICK b \in Buffer \ (alive \cup External) : MallocNew(t)!2!(b)
    BY DEF MallocNew
  <1>2. PICK lost, more, r : lost = Lost(cached, Trimmed(cached)) /\ more = Counted \cup {b} /\ r = InsertBuffer(resident, b)
    OBVIOUS
  <1>3. /\ cached' = Trimmed(cached) /\ active' = active + Length[b]
        /\ resources' = resources + 1 - Cardinality(lost)
        /\ resident' = EraseBuffers(r, lost)
        /\ uses' = [uses EXCEPT ![b] = Append(@, want[t])]
        /\ threw' = threw /\ maxPool' = maxPool /\ gcLimit' = gcLimit
    BY <1>1, <1>2 DEF MallocNew, limits
  <1>4. ToSet(Trimmed(cached)) \subseteq ToSet(cached)
    BY OwnedOnce, TrimmedOnce DEF Whole
  <1>5. uses[b] = <<>> /\ b \notin alive /\ b \notin Counted /\ b \notin InUse
    BY Places DEF Whole, Owned, OnePlace, InUse, Counted
  <1>6. want[t] \in Nat
    BY DEF Whole, Owned
  <1>7. InUse' = InUse \cup {b}
    BY <1>3, <1>5, <1>6, HandOut DEF Whole
  <1>8. lost \in SUBSET Counted /\ lost \in SUBSET Buffer /\ lost \in SUBSET more
    BY <1>2, CountedFinite DEF Lost, Counted, Whole
  <1>9. Counted' = more \ lost
    BY <1>2, <1>3, <1>4, <1>5, <1>7, Places DEF Lost, Counted, Whole
  <1>10. IsFiniteSet(more) /\ Cardinality(more) = Cardinality(Counted) + 1
    <2>1. IsFiniteSet(Counted)
      BY CountedFinite DEF Whole
    <2>2. PICK S : S = Counted
      OBVIOUS
    <2>3. IsFiniteSet(S \cup {b}) /\ Cardinality(S \cup {b}) = Cardinality(S) + 1
      BY <1>5, <2>1, <2>2, FS_AddElement
    <2> QED
      BY <1>2, <2>2, <2>3
  <1>11. Cardinality(Counted') = Cardinality(Counted) + 1 - Cardinality(lost)
    <2>1. Cardinality(more \ lost) = Cardinality(more) - Cardinality(lost)
      BY <1>8, <1>10, CountLess
    <2>2. PICK q : q = Counted'
      OBVIOUS
    <2>3. Cardinality(q) = Cardinality(more) - Cardinality(lost)
      BY <1>9, <2>1, <2>2
    <2>4. Cardinality(lost) \in Nat /\ Cardinality(Counted) \in Nat
      BY <1>8, CountedFinite, FS_Subset, FS_CardinalityType DEF Whole
    <2>5. Cardinality(q) = Cardinality(Counted) + 1 - Cardinality(lost)
      BY <1>10, <2>3, <2>4
    <2> QED
      BY <2>2, <2>5
  <1>12. active' = Size(InUse') /\ resources' = Cardinality(Counted')
    BY <1>3, <1>5, <1>7, <1>11, Handed DEF Whole, Tally
  <1>13. Holds(r, more) /\ Within(r)
    BY <1>2, <1>5, InsertHolds, InsertWithin DEF Whole, Exact, Tally, Counted
  <1>14. Within(resident')
    BY <1>3, <1>8, <1>13, EraseWithin
  <1> QED
    BY <1>3, <1>12, <1>14 DEF Whole, Tally

LEMMA MakeTally ==
  ASSUME Whole, NEW t \in Thread, NEW b \in Buffer, MakeBuffer(t, b)
  PROVE  Tally'
  <1>1. uses[b] = <<>> /\ b \notin Counted /\ b \notin InUse /\ Length[b] \in Nat
    BY Places, FreeBuffersAssumption DEF MakeBuffer, Whole, Owned, OnePlace, InUse, Counted
  <1>2. /\ cached' = cached /\ active' = active + Length[b] /\ resources' = resources + 1
        /\ resident' = Insert(resident, b)
        /\ uses' = [uses EXCEPT ![b] = Append(@, Length[b])]
        /\ threw' = threw /\ maxPool' = maxPool /\ gcLimit' = gcLimit
    BY DEF MakeBuffer, limits
  <1>3. InUse' = InUse \cup {b}
    BY <1>1, <1>2, HandOut DEF Whole
  <1>4. Counted' = Counted \cup {b}
    BY <1>2, <1>3 DEF Counted
  <1>5. Cardinality(Counted') = Cardinality(Counted) + 1
    BY <1>1, <1>4, CountedFinite, FS_AddElement DEF Whole
  <1>6. active' = Size(InUse') /\ resources' = Cardinality(Counted')
    BY <1>1, <1>2, <1>3, <1>5, Handed DEF Whole, Tally
  <1>7. Within(resident')
    BY <1>1, <1>2, InsertWithin DEF Whole, Exact, Tally, Counted
  <1> QED
    BY <1>2, <1>6, <1>7 DEF Whole, Tally

LEMMA FreeToCacheTally ==
  ASSUME Whole, NEW t \in Thread, NEW b \in Buffer, FreeToCache(t, b)
  PROVE  Tally'
  <1>1. b \in InUse /\ uses' = [uses EXCEPT ![b] = Tail(@)]
    BY DEF FreeToCache
  <1>2. InUse' = InUse \ {b}
    BY <1>1, TakeBack DEF Whole
  <1>3. /\ cached' = <<b>> \o cached /\ active' = active - Length[b] /\ resources' = resources
        /\ resident' = resident /\ threw' = threw /\ maxPool' = maxPool /\ gcLimit' = gcLimit
    BY DEF FreeToCache, limits
  <1>4. ToSet(cached)' = ToSet(cached) \cup {b}
    <2>1. b \notin ToSet(cached)
      BY <1>1 DEF Whole, Owned, OnePlace
    <2> QED
      BY <1>3, <2>1, OwnedOnce, ConsOnce DEF Whole
  <1>5. Counted' = Counted
    BY <1>1, <1>2, <1>4 DEF Counted
  <1>6. active' = Size(InUse')
    BY <1>1, <1>2, <1>3, Returned
  <1> QED
    BY <1>3, <1>5, <1>6 DEF Whole, Tally

LEMMA DiscardTally ==
  ASSUME Whole, NEW t \in Thread, NEW b \in InUse, Discard(t, b)
  PROVE  Tally'
  <1>1. uses' = [uses EXCEPT ![b] = Tail(@)]
    BY DEF Discard
  <1>2. InUse' = InUse \ {b}
    BY <1>1, TakeBack DEF Whole
  <1>3. /\ cached' = cached /\ active' = active - Length[b] /\ resources' = resources - 1
        /\ resident' = EraseBuffers(resident, {b})
        /\ threw' = threw /\ maxPool' = maxPool /\ gcLimit' = gcLimit
    BY DEF Discard, limits
  <1>4. {b} \in SUBSET Counted /\ {b} \in SUBSET Buffer
    BY CountedFinite DEF Counted, Whole
  <1>5. Counted' = Counted \ {b}
    BY <1>2, <1>3, Places DEF Counted, Whole
  <1>6. Cardinality({b}) = 1
    BY FS_Singleton
  <1>7. active' = Size(InUse') /\ resources' = Cardinality(Counted')
    BY <1>2, <1>3, <1>4, <1>5, <1>6, Returned, Forgotten
  <1>8. Within(resident')
    BY <1>3, <1>4, EraseWithin DEF Whole, Exact, Tally
  <1> QED
    BY <1>3, <1>7, <1>8 DEF Whole, Tally

LEMMA ClearTally ==
  ASSUME Whole, ClearCache
  PROVE  Tally'
  <1>1. /\ cached' = <<>> /\ uses' = uses /\ active' = active
        /\ resources' = resources - Len(cached)
        /\ resident' = EraseBuffers(resident, ToSet(cached))
        /\ threw' = threw /\ maxPool' = maxPool /\ gcLimit' = gcLimit
    BY DEF ClearCache, limits
  <1>2. ToSet(cached)' = {} /\ InUse' = InUse
    BY <1>1 DEF ToSet, InUse
  <1>3. ToSet(cached) \in SUBSET Counted /\ ToSet(cached) \in SUBSET Buffer
    BY CountedFinite DEF Counted, Whole
  <1>4. Counted' = Counted \ ToSet(cached)
    BY <1>2, Places DEF Counted, Whole
  <1>5. Len(cached) = Cardinality(ToSet(cached))
    BY OwnedOnce, OnceLength DEF Whole
  <1>6. active' = Size(InUse') /\ resources' = Cardinality(Counted')
    BY <1>1, <1>2, <1>3, <1>4, <1>5, Forgotten DEF Whole, Tally
  <1>7. Within(resident')
    BY <1>1, <1>3, EraseWithin DEF Whole, Exact, Tally
  <1> QED
    BY <1>1, <1>6, <1>7 DEF Whole, Tally

LEMMA ElsewhereTally ==
  ASSUME Whole, UNCHANGED <<uses, cached, active, resources>>,
         threw' \subseteq Thread, maxPool' \in Nat, gcLimit' \in Nat,
         resident' = resident \/ \E limit \in WiredLimits : resident' \in Resize(resident, limit)
  PROVE  Tally'
  <1>1. InUse' = InUse /\ Counted' = Counted
    BY DEF InUse, Counted
  <1>2. Within(resident')
    <2>1. CASE resident' = resident
      BY <2>1 DEF Whole, Tally
    <2>2. ASSUME NEW limit \in WiredLimits, resident' \in Resize(resident, limit)
          PROVE  Within(resident')
      <3>1. limit \in Nat
        BY MetalAllocatorAssumption
      <3> QED
        BY <2>2, <3>1, ResizeWithin DEF Whole, Exact, Tally
    <2> QED
      BY <2>1, <2>2
  <1> QED
    BY <1>1, <1>2 DEF Whole, Tally

LEMMA MinOfTwo ==
  ASSUME NEW m \in Nat, NEW n \in Nat
  PROVE  Min({m, n}) \in {m, n} /\ Min({m, n}) <= m /\ Min({m, n}) <= n
  <1>1. \E x \in {m, n} : \A y \in {m, n} : x <= y
    <2>1. CASE m <= n
      BY <2>1
    <2>2. CASE n <= m
      BY <2>2
    <2> QED
      BY <2>1, <2>2
  <1> QED
    BY <1>1 DEF Min

LEMMA TallyStep ==
  ASSUME Whole, [Next]_vars
  PROVE  Tally'
  <1>1. ASSUME NEW t \in Thread, NEW size \in Request,
               MallocCached(t, size) \/ MallocMiss(t, size) \/ MallocThrow(t, size)
        PROVE  Tally'
    BY <1>1, CachedTally, ReclaimTally
  <1>2. ASSUME NEW t \in Thread, MallocNew(t)  PROVE Tally'
    BY <1>2, NewTally
  <1>3. ASSUME NEW t \in Thread, MallocFail(t) \/ Catch(t) \/ DriverRelease(t)
        PROVE  Tally'
    <2>1. /\ UNCHANGED <<uses, cached, active, resources, maxPool, gcLimit>> /\ resident' = resident
          /\ threw' \subseteq Thread
      BY <1>3 DEF MallocFail, Catch, DriverRelease, Whole, Tally, accounts, limits
    <2> QED
      BY <2>1, ElsewhereTally DEF Whole, Tally
  <1>4. ASSUME NEW t \in Thread, NEW b \in Buffer, FreeToCache(t, b) \/ MakeBuffer(t, b)
        PROVE  Tally'
    BY <1>4, FreeToCacheTally, MakeTally
  <1>5. ASSUME NEW t \in Thread, NEW b \in Buffer, FreeToDriver(t, b) \/ Release(t, b)
        PROVE  Tally'
    BY <1>5, DiscardTally DEF FreeToDriver, Release
  <1>6. CASE ClearCache
    BY <1>6, ClearTally
  <1>7. ASSUME NEW limit \in CacheLimits, SetCacheLimit(limit)  PROVE Tally'
    <2>1. /\ UNCHANGED <<uses, cached, active, resources, threw, gcLimit>> /\ resident' = resident
          /\ maxPool' \in Nat
      BY <1>7, MetalAllocatorAssumption DEF SetCacheLimit, accounts
    <2> QED
      BY <2>1, ElsewhereTally DEF Whole, Tally
  <1>8. ASSUME NEW limit \in MemoryLimits, SetMemoryLimit(limit)  PROVE Tally'
    <2>1. limit \in Nat /\ WorkingSet \in Nat
      BY MetalAllocatorAssumption
    <2>2. /\ UNCHANGED <<uses, cached, active, resources, threw, maxPool>> /\ resident' = resident
          /\ gcLimit' \in Nat
      BY <1>8, <2>1, MinOfTwo DEF SetMemoryLimit, accounts
    <2> QED
      BY <2>2, ElsewhereTally DEF Whole, Tally
  <1>9. ASSUME NEW limit \in WiredLimits, SetWiredLimit(limit)  PROVE Tally'
    <2>1. /\ UNCHANGED <<uses, cached, active, resources, threw, maxPool, gcLimit>>
          /\ resident' \in Resize(resident, limit)
      BY <1>9 DEF SetWiredLimit, accounts, limits
    <2> QED
      BY <2>1, ElsewhereTally DEF Whole, Tally
  <1>10. CASE UNCHANGED vars
    <2>1. UNCHANGED <<uses, cached, active, resources, threw, maxPool, gcLimit>> /\ resident' = resident
      BY <1>10 DEF vars, accounts, limits
    <2> QED
      BY <2>1, ElsewhereTally DEF Whole, Tally
  <1> QED
    BY <1>1, <1>2, <1>3, <1>4, <1>5, <1>6, <1>7, <1>8, <1>9, <1>10 DEF Next

(* active_memory_ and num_resources_ are those of the buffers at every step  *)
(* of every thread, and what is wired keeps within the limit, whatever is    *)
(* inserted, erased and resized in whatever order (allocator.cpp, malloc and *)
(* free; resident.cpp).                                                      *)
THEOREM AccountsExact == Spec => []Consistent
  <1>1. Whole /\ [Next]_vars => Whole'
    BY OwnedStep, TallyStep DEF Whole
  <1>2. Init => Whole
    BY OwnedInit, ExactInit, TallyInit DEF Whole
  <1>3. Whole => Consistent
    <2> SUFFICES ASSUME Whole  PROVE Consistent
      OBVIOUS
    <2>1. Size(InUse) \in Nat /\ Cardinality(Counted) \in Nat
      BY CountedFinite, SizeMonotone DEF Whole
    <2>2. TypeOK
      BY <2>1 DEF Whole, Owned, Exact, Holds, Tally, TypeOK
    <2>3. Cardinality(Counted) = Cardinality(InUse) + Len(cached)
      <3>1. IsFiniteSet(InUse) /\ IsFiniteSet(ToSet(cached)) /\ InUse \cap ToSet(cached) = {}
        <4>1. IsFiniteSet(Buffer) /\ InUse \in SUBSET Buffer /\ ToSet(cached) \in SUBSET Buffer
          BY CountedFinite, MetalAllocatorAssumption DEF Whole
        <4> QED
          BY <4>1, Places, FS_Subset DEF Whole
      <3>2. Cardinality(InUse) \in Nat /\ Cardinality(ToSet(cached)) \in Nat /\ Cardinality({}) = 0
        BY <3>1, FS_CardinalityType, FS_EmptySet
      <3>4. PICK S, T : S = InUse /\ T = ToSet(cached)
        OBVIOUS
      <3>5. IsFiniteSet(S) /\ IsFiniteSet(T) /\ S \cap T = {}
        BY <3>1, <3>4
      <3>6. Cardinality(S \cup T) = Cardinality(S) + Cardinality(T) - Cardinality({})
        BY <3>5, FS_Union
      <3>3. Cardinality(Counted) = Cardinality(InUse) + Cardinality(ToSet(cached))
        BY <3>2, <3>4, <3>6 DEF Counted
      <3> QED
        BY <3>3, OwnedOnce, OnceLength DEF Whole
    <2>4. Accounts
      BY <2>3 DEF Whole, Tally, Accounts
    <2>5. WiredWithin
      BY DEF Whole, Tally, Within, WiredWithin
    <2> QED
      BY <2>2, <2>4, <2>5 DEF Consistent
  <1> QED
    BY <1>1, <1>2, <1>3, PTL DEF Spec

-----------------------------------------------------------------------------
(* The limits.  The bytes of the cache are the sizes of its buffers.         *)
LEMMA BytesSize ==
  ASSUME NEW list, Once(list)
  PROVE  Bytes(list) = Size(ToSet(list)) /\ Bytes(list) \in Nat /\ ToSet(list) \in SUBSET Buffer
  <1>1. PICK g : SumsUp(g, Space, Weight) /\ \A T \in SUBSET Space : Size(T) = g[T]
    BY Sizes
  <1>2. PICK h : h = [T \in SUBSET Buffer |-> g[T]]
    OBVIOUS
  <1>3. \A T \in SUBSET Buffer : h[T] = g[T] /\ T \in SUBSET Space
    BY <1>2 DEF Space
  <1>4. \A T \in SUBSET Space : g[T] \in Nat /\ \A x \in T : g[T] = Weight[x] + g[T \ {x}]
    BY <1>1 DEF SumsUp
  <1>5. SumsUp(h, Buffer, Length)
    <2>1. h \in [SUBSET Buffer -> Nat]
      BY <1>2, <1>3, <1>4
    <2>2. h[{}] = 0
      BY <1>1, <1>3 DEF SumsUp
    <2>3. ASSUME NEW T \in SUBSET Buffer, NEW x \in T
          PROVE  h[T] = Length[x] + h[T \ {x}]
      <3>1. T \ {x} \in SUBSET Buffer /\ Weight[x] = Length[x]
        BY Weights
      <3>2. g[T] = Weight[x] + g[T \ {x}]
        BY <1>3, <1>4
      <3> QED
        BY <1>3, <3>1, <3>2
    <2> QED
      BY <2>1, <2>2, <2>3 DEF SumsUp
  <1>6. ToSet(list) \in SUBSET Buffer
    BY DEF Once, ToSet
  <1>7. Bytes(list) = h[ToSet(list)]
    BY <1>5, <1>6, BytesAreSum
  <1> QED
    BY <1>1, <1>3, <1>4, <1>6, <1>7

(* What is in use and what is cached are parts of what there is.             *)
LEMMA AllFits ==
  ASSUME Whole
  PROVE  /\ active \in Nat /\ Bytes(cached) \in Nat /\ Size(Buffer) \in Nat
         /\ active + Bytes(cached) <= Size(Buffer)
  <1>1. PICK g : SumsUp(g, Space, Weight) /\ \A T \in SUBSET Space : Size(T) = g[T]
    BY Sizes
  <1>2. Once(cached)
    BY OwnedOnce DEF Whole
  <1>3. PICK U, w, r, q : U = Space /\ w = Weight /\ r = InUse /\ q = ToSet(cached)
    OBVIOUS
  <1>4. /\ IsFiniteSet(U) /\ Weighs(w, U) /\ SumsUp(g, U, w)
        /\ r \in SUBSET U /\ q \in SUBSET U /\ r \cap q = {}
        /\ Buffer \in SUBSET U /\ r \cup q \in SUBSET Buffer
    BY <1>1, <1>3, Weights, CountedFinite, Places DEF Whole, Space
  <1>5. g[r \cup q] = g[r] + g[q]
    BY <1>4, SumDisjoint
  <1>6. g[r \cup q] <= g[Buffer]
    BY <1>4, SumMonotone
  <1>7. g[r] \in Nat /\ g[q] \in Nat /\ g[Buffer] \in Nat
    BY <1>4 DEF SumsUp
  <1>8. active = g[r] /\ Bytes(cached) = g[q] /\ Size(Buffer) = g[Buffer]
    BY <1>1, <1>2, <1>3, <1>4, BytesSize DEF Whole, Tally
  <1> QED
    BY <1>5, <1>6, <1>7, <1>8

LEMMA MinusExact ==
  ASSUME NEW m \in Nat, NEW n \in Nat
  PROVE  Minus(m, n) \in Nat /\ (n <= m /\ m < SizeMod => Minus(m, n) = m - n)
  <1>1. SizeMod \in Nat /\ SizeMod > 0
    BY MetalAllocatorAssumption
  <1>2. (m - n) % SizeMod \in Nat
    BY <1>1
  <1>3. ASSUME n <= m, m < SizeMod
        PROVE  (m - n) % SizeMod = m - n
    BY <1>1, <1>3
  <1> QED
    BY <1>2, <1>3 DEF Minus

LEMMA TrimmedBytes ==
  ASSUME NEW list, Once(list), maxPool \in Nat
  PROVE  Bytes(Trimmed(list)) <= maxPool
  <1>1. PICK n : n = Minus(Bytes(list), maxPool)
    OBVIOUS
  <1>2. Bytes(list) \in Nat /\ ToSet(list) \in SUBSET Buffer
    BY BytesSize
  <1>3. n \in Nat
    BY <1>1, <1>2, MinusExact
  <1>4. Bytes(<<>>) = 0
    <2>1. Once(<<>>) /\ ToSet(<<>>) = {}
      BY DEF Once, IsInjective, ToSet
    <2> QED
      BY <2>1, BytesSize, SizeOfNone
  <1>5. PICK q : q = Released(list, n)
    OBVIOUS
  <1>6. IsFiniteSet(Buffer)
    BY MetalAllocatorAssumption
  <1>7. Bytes(q) \in Nat /\ (q = <<>> \/ Bytes(q) + n <= Bytes(list))
    BY <1>2, <1>3, <1>5, <1>6, ReleasedBytes
  <1>8. CASE Bytes(list) > maxPool
    <2>1. Trimmed(list) = q
      BY <1>1, <1>5, <1>8 DEF Trimmed
    <2>2. Bytes(list) < SizeMod
      <3>1. PICK T : T = ToSet(list)
        OBVIOUS
      <3>2. Buffer \in SUBSET Space /\ T \in SUBSET Buffer
        BY <1>2, <3>1 DEF Space
      <3>3. Size(T) <= Size(Buffer) /\ Size(T) \in Nat /\ Size(Buffer) \in Nat
        BY <3>2, SizeMonotone
      <3>4. Bytes(list) = Size(T)
        BY <3>1, BytesSize
      <3>5. SizeMod \in Nat /\ Size(Buffer) < SizeMod
        BY SizesFit, MetalAllocatorAssumption
      <3> QED
        BY <3>3, <3>4, <3>5
    <2>3. n = Bytes(list) - maxPool
      BY <1>1, <1>2, <1>8, <2>2, MinusExact
    <2>4. CASE q = <<>>
      BY <1>4, <2>1, <2>4
    <2>5. CASE Bytes(q) + n <= Bytes(list)
      BY <1>2, <1>3, <1>7, <2>1, <2>3, <2>5
    <2> QED
      BY <1>7, <2>4, <2>5
  <1>9. CASE ~ (Bytes(list) > maxPool)
    BY <1>2, <1>9 DEF Trimmed
  <1> QED
    BY <1>8, <1>9

(* After malloc has reclaimed what exceeds gc_limit_, what is in use fits it *)
(* or the cache is empty.  When the resources are what it is short of, the   *)
(* difference wraps around, and even more is released.                       *)
LEMMA ReclaimedBytes ==
  ASSUME Whole, NEW size \in Request
  PROVE  Reclaimed(size) = <<>> \/ active + Bytes(Reclaimed(size)) + Align(size) <= gcLimit
  <1>1. /\ active \in Nat /\ Bytes(cached) \in Nat /\ Size(Buffer) \in Nat
        /\ active + Bytes(cached) <= Size(Buffer)
    BY AllFits
  <1>2. size \in Nat /\ Align(size) \in Nat
    BY AlignUp, FreeBuffersAssumption
  <1>3. PICK n, req : n = Minus(Required(size), gcLimit) /\ req = Required(size)
    OBVIOUS
  <1>4. req = active + Bytes(cached) + Align(size) /\ req \in Nat /\ req < SizeMod
    <2>1. SizeMod \in Nat /\ Size(Buffer) + Align(size) < SizeMod
      BY SizesFit, MetalAllocatorAssumption
    <2>2. req = active + Bytes(cached) + Align(size)
      BY <1>3 DEF Required
    <2> QED
      BY <1>1, <1>2, <2>1, <2>2
  <1>5. gcLimit \in Nat
    BY DEF Whole, Tally
  <1>6. n \in Nat /\ (gcLimit <= req => n = req - gcLimit)
    BY <1>3, <1>4, <1>5, MinusExact
  <1>7. PICK q : q = Released(cached, n)
    OBVIOUS
  <1>8. Once(cached) /\ ToSet(cached) \subseteq Buffer /\ IsFiniteSet(Buffer)
    BY OwnedOnce, MetalAllocatorAssumption DEF Whole
  <1>9. Bytes(q) \in Nat /\ (q = <<>> \/ Bytes(q) + n <= Bytes(cached))
    BY <1>6, <1>7, <1>8, ReleasedBytes
  <1>10. CASE Pressure(size)
    <2>1. Reclaimed(size) = q
      BY <1>3, <1>7, <1>10 DEF Reclaimed
    <2>2. CASE q = <<>>
      BY <2>1, <2>2
    <2>3. CASE Bytes(q) + n <= Bytes(cached)
      <3>1. active + Bytes(q) + Align(size) <= gcLimit
        BY <1>1, <1>2, <1>4, <1>5, <1>6, <1>9, <2>3, SMTT(20)
      <3> QED
        BY <2>1, <3>1
    <2> QED
      BY <1>9, <2>2, <2>3
  <1>11. CASE ~ Pressure(size)
    <2>1. Reclaimed(size) = cached /\ ~ (req >= gcLimit)
      BY <1>3, <1>11 DEF Reclaimed, Pressure
    <2>2. active + Bytes(cached) + Align(size) <= gcLimit
      BY <1>4, <1>5, <2>1
    <2> QED
      BY <2>1, <2>2
  <1> QED
    BY <1>10, <1>11

LEMMA TrimmedStep ==
  ASSUME Whole, Next, NEW b \in Buffer \ External, Len(uses'[b]) > Len(uses[b])
  PROVE  Bytes(cached') <= maxPool
  <1>1. maxPool \in Nat /\ Once(cached)
    BY OwnedOnce DEF Whole, Tally
  <1>2. uses[b] \in Seq(Nat) /\ Len(uses[b]) \in Nat
    BY DEF Whole, Owned
  <1>3. uses' # uses
    BY <1>2
  <1>4. ASSUME NEW t \in Thread, NEW size \in Request, MallocCached(t, size)
        PROVE  Bytes(cached') <= maxPool
    <2>1. PICK i \in DOMAIN cached : MallocCached(t, size)!2!(i)
      BY <1>4 DEF MallocCached
    <2>2. PICK rest : rest = RemoveAt(cached, i)
      OBVIOUS
    <2>3. cached' = Trimmed(rest) /\ Once(rest)
      BY <1>1, <2>1, <2>2, RemoveAtOnce
    <2> QED
      BY <1>1, <2>3, TrimmedBytes
  <1>5. ASSUME NEW t \in Thread, MallocNew(t)
        PROVE  Bytes(cached') <= maxPool
    <2>1. cached' = Trimmed(cached)
      BY <1>5 DEF MallocNew
    <2> QED
      BY <1>1, <2>1, TrimmedBytes
  <1>6. ASSUME NEW t \in Thread, NEW c \in InUse, uses' = [uses EXCEPT ![c] = Tail(@)]
        PROVE  FALSE
    <2>1. /\ uses' = [uses EXCEPT ![c] = <<>>] /\ c \in Buffer
      BY <1>6, TakeBack DEF Whole, InUse
    <2>2. uses'[b] = IF b = c THEN <<>> ELSE uses[b]
      BY <2>1 DEF Whole, Owned
    <2>3. Len(<<>>) = 0
      OBVIOUS
    <2> QED
      BY <1>2, <2>2, <2>3
  <1>7. ASSUME NEW t \in Thread, NEW c \in Buffer,
               FreeToCache(t, c) \/ FreeToDriver(t, c) \/ Release(t, c)
        PROVE  FALSE
    BY <1>6, <1>7 DEF FreeToCache, FreeToDriver, Release, Discard
  <1>8. ASSUME NEW t \in Thread, NEW c \in Buffer, MakeBuffer(t, c)
        PROVE  FALSE
    <2>1. uses'[b] = uses[b]
      BY <1>8 DEF MakeBuffer, Whole, Owned
    <2> QED
      BY <1>2, <2>1
  <1> QED
    BY <1>3, <1>4, <1>5, <1>7, <1>8
    DEF Next, MallocMiss, MallocThrow, MallocFail, Catch, DriverRelease, ClearCache,
        SetCacheLimit, SetMemoryLimit, SetWiredLimit

LEMMA ReclaimedStep ==
  ASSUME Whole, Next, NEW t \in Thread, want[t] = 0, want'[t] # 0
  PROVE  cached' = <<>> \/ active + Bytes(cached') + want'[t] <= gcLimit
  <1>1. want \in [Thread -> Nat]
    BY DEF Whole, Owned
  <1>2. want' # want
    OBVIOUS
  <1>3. ASSUME NEW u \in Thread, NEW size \in Request, MallocMiss(u, size)
        PROVE  cached' = <<>> \/ active + Bytes(cached') + want'[t] <= gcLimit
    <2>1. want' = [want EXCEPT ![u] = Align(size)] /\ cached' = Reclaimed(size)
      BY <1>3 DEF MallocMiss, Reclaim
    <2>2. want'[t] = Align(size)
      BY <1>1, <2>1
    <2> QED
      BY <2>1, <2>2, ReclaimedBytes
  <1>4. ASSUME NEW u \in Thread, MallocNew(u) \/ MallocFail(u)
        PROVE  FALSE
    <2>1. want' = [want EXCEPT ![u] = 0]
      BY <1>4 DEF MallocNew, MallocFail
    <2> QED
      BY <1>1, <2>1
  <1> QED
    BY <1>2, <1>3, <1>4
    DEF Next, MallocCached, MallocThrow, Catch, DriverRelease, FreeToCache, FreeToDriver, MakeBuffer,
        Release, Discard, ClearCache, SetCacheLimit, SetMemoryLimit, SetWiredLimit

(* malloc returns with the cache within max_pool_size_, and goes to the      *)
(* driver only when what it will use fits gc_limit_ or the cache has nothing *)
(* left (allocator.cpp, malloc; buffer_cache.h, release_cached_buffers).     *)
THEOREM LimitsAreKept == Spec => LimitsKept
  <1>1. Whole /\ [Next]_vars => Whole'
    BY OwnedStep, TallyStep DEF Whole
  <1>2. Init => Whole
    BY OwnedInit, ExactInit, TallyInit DEF Whole
  <1>3. Whole /\ [Next]_vars =>
          [(\E b \in Buffer \ External : Len(uses'[b]) > Len(uses[b])) => Bytes(cached') <= maxPool]_vars
    BY TrimmedStep
  <1>4. Whole /\ [Next]_vars =>
          [\A t \in Thread : want[t] = 0 /\ want'[t] # 0 =>
             cached' = <<>> \/ active + Bytes(cached') + want'[t] <= gcLimit]_vars
    BY ReclaimedStep
  <1> QED
    BY <1>1, <1>2, <1>3, <1>4, PTL DEF Spec, LimitsKept, TrimmedOnAllocation, ReclaimedEnough

=============================================================================

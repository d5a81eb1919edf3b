--------------------------- MODULE RuleGraphProofs ---------------------------
(***************************************************************************)
(* Theorems about RuleGraph: whatever rules are submitted, and however      *)
(* often sessions fail and repeat, the graph stays sound, a write only      *)
(* adds, and what it reports is what it did.  A merge is followed candidate *)
(* by candidate: IsMerging is what holds of a rule while it is merged,      *)
(* IsChange what holds of it in the change set that is written.             *)
(***************************************************************************)
EXTENDS RuleGraph, FiniteSetTheorems, SequenceTheorems, WellFoundedInduction, TLAPS

\* The smallest of some natural numbers.
LEMMA SmallestOf ==
    ASSUME NEW T \in SUBSET Nat, T # {}
    PROVE  \E n \in T : \A m \in T : n <= m
<1> DEFINE Below == {0 .. n : n \in T}
<1>1. Below \subseteq FiniteSubsetsOf(Nat) /\ Below # {}
  <2>1. \A n \in T : 0 .. n \in SUBSET Nat /\ IsFiniteSet(0 .. n)
    BY FS_Interval
  <2> QED BY <2>1 DEF FiniteSubsetsOf
<1>2. IsWellFoundedOn(StrictSubsetOrdering(Nat), FiniteSubsetsOf(Nat))
  BY FS_StrictSubsetOrderingWellFounded
<1>3. PICK B \in Below : \A C \in Below : <<C, B>> \notin StrictSubsetOrdering(Nat)
  <2> HIDE DEF Below
  <2> QED BY <1>1, <1>2, WFMin
<1>4. PICK n \in T : B = 0 .. n
  OBVIOUS
<1>5. ASSUME NEW m \in T, m < n PROVE FALSE
  <2>1. 0 .. m \in Below /\ 0 .. m \subseteq 0 .. n /\ 0 .. m # 0 .. n
    BY <1>5
  <2>2. <<0 .. m, B>> \in StrictSubsetOrdering(Nat)
    BY <1>4, <2>1 DEF StrictSubsetOrdering
  <2> QED BY <1>3, <2>1, <2>2
<1> QED BY <1>5

(***************************************************************************)
(* The elements of a sequence at some of its positions.                    *)
(***************************************************************************)

\* How many of these positions are before p.
Below(P, p) == {q \in P : q < p}

\* Every number up to that of the positions counts those before one of them.
LEMMA PositionOf ==
    ASSUME NEW P \in SUBSET Nat, IsFiniteSet(P)
    PROVE  /\ Cardinality(P) \in Nat
           /\ \A p \in P : Cardinality(Below(P, p)) \in 0..(Cardinality(P) - 1)
           /\ \A p, q \in P : p < q => Cardinality(Below(P, p)) < Cardinality(Below(P, q))
           /\ \A k \in 1..Cardinality(P) : \E p \in P : Cardinality(Below(P, p)) = k - 1
<1>1. Cardinality(P) \in Nat
  BY FS_CardinalityType
<1>2. \A p : Below(P, p) \in SUBSET P /\ IsFiniteSet(Below(P, p)) /\ Cardinality(Below(P, p)) \in Nat
  BY FS_Subset, FS_CardinalityType DEF Below
<1>0. ASSUME NEW A, IsFiniteSet(A), NEW B \in SUBSET A, NEW x \in A, x \notin B
      PROVE  Cardinality(B) < Cardinality(A)
  <2>1. Cardinality(B) <= Cardinality(A) /\ Cardinality(A) # Cardinality(B) /\ IsFiniteSet(B)
    BY <1>0, FS_Subset
  <2>2. Cardinality(A) \in Nat /\ Cardinality(B) \in Nat
    BY <1>0, <2>1, FS_CardinalityType
  <2> QED BY <2>1, <2>2
<1>3. ASSUME NEW p \in P PROVE Cardinality(Below(P, p)) < Cardinality(P)
  <2>1. p \notin Below(P, p)
    BY DEF Below
  <2>2. \A A, B, x : IsFiniteSet(A) /\ B \in SUBSET A /\ x \in A /\ x \notin B
                         => Cardinality(B) < Cardinality(A)
    BY <1>0
  <2> QED BY <1>2, <2>1, <2>2
<1>4. ASSUME NEW p \in P, NEW q \in P, p < q
      PROVE  Cardinality(Below(P, p)) < Cardinality(Below(P, q))
  <2>1. p \in Nat /\ q \in Nat
    OBVIOUS
  <2>2. Below(P, p) \in SUBSET Below(P, q) /\ p \in Below(P, q) /\ p \notin Below(P, p)
    <3>1. ~(p < p) /\ \A x \in P : x < p => x < q
      BY <1>4, <2>1
    <3>2. Below(P, p) \subseteq Below(P, q)
      BY <3>1 DEF Below
    <3> QED BY <1>4, <3>1, <3>2 DEF Below
  <2>3. \A A, B, x : IsFiniteSet(A) /\ B \in SUBSET A /\ x \in A /\ x \notin B
                         => Cardinality(B) < Cardinality(A)
    BY <1>0
  <2>4. IsFiniteSet(Below(P, q))
    BY <1>2
  <2> QED BY <2>2, <2>3, <2>4
<1>5. ASSUME NEW k \in 1..Cardinality(P) PROVE \E p \in P : Cardinality(Below(P, p)) = k - 1
  <2> DEFINE T == {n \in 1..Cardinality(P) : ~ \E p \in P : Cardinality(Below(P, p)) = n - 1}
  <2> SUFFICES ASSUME T # {} PROVE FALSE
    BY <1>5
  <2>1. PICK n \in T : \A m \in T : n <= m
    <3>1. T \in SUBSET Nat
      BY <1>1
    <3> HIDE DEF T
    <3> QED BY <3>1, SmallestOf
  <2>2. n \in 1..Cardinality(P) /\ n \in Nat
    BY <1>1, <2>1
  <2>3. CASE n = 1
    <3>1. P # {}
      BY <2>2, FS_EmptySet
    <3>2. PICK p \in P : \A q \in P : p <= q
      BY <3>1, SmallestOf
    <3>3. Below(P, p) = {}
      <4>1. \A q \in P : q \in Nat /\ p \in Nat
        OBVIOUS
      <4>2. \A q \in P : ~(q < p)
        BY <3>2, <4>1
      <4> QED BY <4>2 DEF Below
    <3> QED BY <2>1, <2>3, <3>3, FS_EmptySet
  <2>4. CASE n # 1
    <3>1. n - 1 \in 1..Cardinality(P) /\ ~(n <= n - 1) /\ n - 1 - 1 = n - 2
      BY <1>1, <2>2, <2>4
    <3>2. PICK p \in P : Cardinality(Below(P, p)) = n - 2
      <4>1. n - 1 \notin T
        <5> HIDE DEF T
        <5> QED BY <2>1, <3>1
      <4> QED BY <3>1, <4>1
    <3> DEFINE Above == {q \in P : p < q}
    <3>3. Cardinality(Below(P, p) \cup {p}) = n - 1
      <4>1. p \notin Below(P, p)
        BY DEF Below
      <4>2. PICK B : B = Below(P, p)
        OBVIOUS
      <4>3. Cardinality(B \cup {p}) = Cardinality(B) + 1
        BY <1>2, <4>1, <4>2, FS_AddElement
      <4> QED BY <2>2, <3>2, <4>2, <4>3
    <3>4. Above # {}
      <4> SUFFICES ASSUME Above = {} PROVE FALSE
        OBVIOUS
      <4>1. P = Below(P, p) \cup {p}
        <5>1. \A q \in P : q < p \/ q = p \/ p < q
          OBVIOUS
        <5>2. \A q \in P : q < p \/ q = p
          BY <5>1
        <5> QED BY <5>2 DEF Below
      <4> QED BY <1>1, <2>2, <3>3, <4>1
    <3>5. PICK q \in Above : \A x \in Above : q <= x
      <4>1. Above \in SUBSET Nat
        OBVIOUS
      <4> HIDE DEF Above
      <4> QED BY <3>4, <4>1, SmallestOf
    <3>7. q \in P /\ p < q
      BY <3>5
    <3>6. Below(P, q) = Below(P, p) \cup {p}
      <4>1. \A x \in P : p < x => q <= x
        BY <3>5
      <4>2. \A x \in P : x \in Nat /\ p \in Nat /\ q \in Nat
        BY <3>7
      <4>3. \A x \in P : x < q <=> (x < p \/ x = p)
        BY <3>7, <4>1, <4>2
      <4> QED BY <3>7, <4>3 DEF Below
    <3> QED BY <2>1, <3>3, <3>6, <3>7
  <2> QED BY <2>3, <2>4
<1> QED BY <1>1, <1>2, <1>3, <1>4, <1>5

\* u holds the elements of s at these positions, each position once.
Picks(u, s, P) ==
    \E f \in [DOMAIN u -> P] :
        /\ \A k \in DOMAIN u : u[k] = s[f[k]]
        /\ \A k, l \in DOMAIN u : k # l => f[k] # f[l]
        /\ \A p \in P : \E k \in DOMAIN u : f[k] = p

LEMMA AtIs ==
    ASSUME NEW S, NEW s \in Seq(S), NEW P \in SUBSET DOMAIN s
    PROVE  At(s, P) \in Seq(S) /\ Picks(At(s, P), s, P)
<1>1. P \in SUBSET Nat /\ IsFiniteSet(P) /\ Len(s) \in Nat /\ DOMAIN s = 1..Len(s)
  <2>1. DOMAIN s = 1..Len(s) /\ Len(s) \in Nat
    OBVIOUS
  <2>2. IsFiniteSet(1..Len(s))
    BY <2>1, FS_Interval
  <2> QED BY <2>1, <2>2, FS_Subset
<1> DEFINE n == Cardinality(P)
           f == [k \in 1..n |-> CHOOSE p \in P : Cardinality(Below(P, p)) = k - 1]
<1>2. n \in Nat
  BY <1>1, PositionOf
<1>3. \A k \in 1..n : f[k] \in P /\ Cardinality(Below(P, f[k])) = k - 1
  <2> TAKE k \in 1..n
  <2>1. \E p \in P : Cardinality(Below(P, p)) = k - 1
    BY <1>1, PositionOf
  <2>2. f[k] = CHOOSE p \in P : Cardinality(Below(P, p)) = k - 1
    OBVIOUS
  <2> HIDE DEF f
  <2> QED BY <2>1, <2>2
<1>4. At(s, P) = [k \in 1..n |-> s[f[k]]]
  BY DEF At, Below
<1>5. DOMAIN f = 1..n
  OBVIOUS
<1>6. f = [k \in 1..n |-> f[k]]
  OBVIOUS
<1> HIDE DEF f, n
<1>7. f \in [1..n -> P]
  BY <1>3, <1>6
<1>8. \A k \in 1..n : s[f[k]] \in S
  BY <1>1, <1>3
<1>9. At(s, P) \in [1..n -> S]
  BY <1>4, <1>8
<1>10. At(s, P) \in Seq(S) /\ Len(At(s, P)) = n /\ DOMAIN At(s, P) = 1..n
  BY <1>2, <1>9
<1>11. \A k, l \in 1..n : k # l => f[k] # f[l]
  BY <1>2, <1>3
<1>12. ASSUME NEW p \in P PROVE \E k \in 1..n : f[k] = p
  <2>1. PICK c : c = Cardinality(Below(P, p))
    OBVIOUS
  <2>2. c \in 0..(n - 1)
    BY <1>1, <2>1, PositionOf DEF n
  <2>3. PICK k \in 1..n : k - 1 = c
    <3>1. c + 1 \in 1..n /\ (c + 1) - 1 = c
      BY <1>2, <2>2
    <3> QED BY <3>1
  <2>4. PICK q \in P : q = f[k] /\ Cardinality(Below(P, q)) = c
    BY <1>3, <2>3
  <2>5. q = p
    <3>1. q \in Nat /\ p \in Nat
      BY <1>1
    <3>2. ~(q < p) /\ ~(p < q)
      <4>1. \A x, y \in P : x < y => Cardinality(Below(P, x)) < Cardinality(Below(P, y))
        BY <1>1, PositionOf
      <4>2. c \in Nat
        BY <1>2, <2>2
      <4> QED BY <2>1, <2>4, <4>1, <4>2
    <3> QED BY <3>1, <3>2
  <2> QED BY <2>3, <2>4, <2>5
<1>13. \A k \in 1..n : At(s, P)[k] = s[f[k]]
  BY <1>4
<1>14. PICK u : u = At(s, P) /\ DOMAIN u = 1..n
  BY <1>10
<1>15. f \in [DOMAIN u -> P]
  BY <1>7, <1>14
<1>16. /\ \A k \in DOMAIN u : u[k] = s[f[k]]
       /\ \A k, l \in DOMAIN u : k # l => f[k] # f[l]
       /\ \A p \in P : \E k \in DOMAIN u : f[k] = p
  BY <1>11, <1>12, <1>13, <1>14
<1>17. Picks(u, s, P)
  BY <1>15, <1>16 DEF Picks
<1> QED BY <1>10, <1>14, <1>17

(***************************************************************************)
(* What a merge makes of the texts and the groups of a rule.               *)
(***************************************************************************)

\* u lists each key of the texts once, in the spelling that comes first.
UniqueOf(u, texts) ==
    /\ u \in Seq(Texts) /\ IsInjective(KeysOf(u))
    /\ \A i \in DOMAIN u :
          /\ KeyOf[u[i]] # NoKey
          /\ \E p \in DOMAIN texts : /\ u[i] = texts[p]
                                     /\ \A j \in 1..(p - 1) : KeyOf[texts[j]] # KeyOf[texts[p]]
    /\ \A p \in DOMAIN texts : KeyOf[texts[p]] # NoKey
                                  => \E i \in DOMAIN u : KeyOf[u[i]] = KeyOf[texts[p]]

LEMMA UniqueTexts ==
    ASSUME NEW texts \in Seq(Texts)
    PROVE  UniqueOf(unique_texts(texts), texts)
<1> DEFINE First(i) == \A j \in 1..(i - 1) : KeyOf[texts[j]] # KeyOf[texts[i]]
           P == {i \in DOMAIN texts : KeyOf[texts[i]] # NoKey /\ First(i)}
           u == At(texts, P)
<1>1. unique_texts(texts) = u
  BY DEF unique_texts
<1>2. P \in SUBSET DOMAIN texts /\ \A i \in P : KeyOf[texts[i]] # NoKey /\ First(i)
  OBVIOUS
<1>3. \A p \in DOMAIN texts : KeyOf[texts[p]] # NoKey /\ First(p) => p \in P
  OBVIOUS
<1>4. DOMAIN texts = 1..Len(texts) /\ Len(texts) \in Nat
  OBVIOUS
<1> HIDE DEF P
<1>5. /\ u \in Seq(Texts)
      /\ Picks(u, texts, P)
  BY <1>2, AtIs
<1>6. PICK f \in [DOMAIN u -> P] :
            /\ \A k \in DOMAIN u : u[k] = texts[f[k]]
            /\ \A k, l \in DOMAIN u : k # l => f[k] # f[l]
            /\ \A p \in P : \E k \in DOMAIN u : f[k] = p
  BY <1>5 DEF Picks
<1> HIDE DEF u
<1>7. \A p, q \in P : KeyOf[texts[p]] = KeyOf[texts[q]] => p = q
  <2> SUFFICES ASSUME NEW p \in P, NEW q \in P, p < q PROVE KeyOf[texts[p]] # KeyOf[texts[q]]
    BY <1>2, <1>4
  <2>1. p \in 1..(q - 1)
    BY <1>2, <1>4
  <2> QED BY <1>2, <2>1
<1>8. IsInjective(KeysOf(u))
  <2>1. DOMAIN KeysOf(u) = DOMAIN u /\ \A i \in DOMAIN u : KeysOf(u)[i] = KeyOf[u[i]]
    BY DEF KeysOf
  <2>2. \A k, l \in DOMAIN u : KeyOf[u[k]] = KeyOf[u[l]] => k = l
    BY <1>6, <1>7
  <2> QED BY <2>1, <2>2 DEF IsInjective
<1>9. ASSUME NEW p \in DOMAIN texts, KeyOf[texts[p]] # NoKey
      PROVE  \E i \in DOMAIN u : KeyOf[u[i]] = KeyOf[texts[p]]
  <2> DEFINE Same == {q \in DOMAIN texts : KeyOf[texts[q]] = KeyOf[texts[p]]}
  <2>1. PICK q \in Same : \A x \in Same : q <= x
    <3>1. Same \in SUBSET Nat /\ p \in Same
      BY <1>4
    <3> HIDE DEF Same
    <3> QED BY <3>1, SmallestOf
  <2>2. First(q)
    <3> SUFFICES ASSUME NEW j \in 1..(q - 1), KeyOf[texts[j]] = KeyOf[texts[q]] PROVE FALSE
      OBVIOUS
    <3>1. j \in DOMAIN texts /\ ~(q <= j)
      BY <1>4, <2>1
    <3> QED BY <2>1, <3>1
  <2>3. q \in P /\ KeyOf[texts[q]] = KeyOf[texts[p]]
    BY <1>3, <1>9, <2>1, <2>2
  <2>4. PICK k \in DOMAIN u : f[k] = q
    BY <1>6, <2>3
  <2> QED BY <1>6, <2>3, <2>4
<1>10. ASSUME NEW i \in DOMAIN u
       PROVE  /\ KeyOf[u[i]] # NoKey
              /\ \E p \in DOMAIN texts : /\ u[i] = texts[p]
                                         /\ \A j \in 1..(p - 1) : KeyOf[texts[j]] # KeyOf[texts[p]]
  BY <1>2, <1>6
<1> QED BY <1>1, <1>5, <1>8, <1>9, <1>10 DEF UniqueOf

\* A condition group that can be written.
GroupIsSound(g) ==
    /\ g.all_of \in Seq(Texts) /\ g.none_of \in Seq(Texts)
    /\ g.all_of # <<>> \/ g.none_of # <<>>
    /\ \A i \in DOMAIN g.all_of, j \in DOMAIN g.none_of : KeyOf[g.all_of[i]] # KeyOf[g.none_of[j]]
    /\ IsInjective(KeysOf(g.all_of)) /\ IsInjective(KeysOf(g.none_of))
    /\ \A i \in DOMAIN g.all_of : KeyOf[g.all_of[i]] # NoKey
    /\ \A j \in DOMAIN g.none_of : KeyOf[g.none_of[j]] # NoKey

LEMMA NotEmpty ==
    ASSUME NEW S, NEW s \in Seq(S)
    PROVE  /\ s # <<>> => 1 \in DOMAIN s
           /\ DOMAIN s # {} => s # <<>>
<1>1. s # <<>> => Len(s) \in Nat \ {0}
  BY EmptySeq
<1> QED BY <1>1, LenProperties

LEMMA ConditionGroups ==
    ASSUME NEW g \in GroupRecords, g.all_of # <<>> \/ g.none_of # <<>>, validate_group(g)
    PROVE  GroupIsSound(condition_group(g))
<1>1. g.all_of \in Seq(Texts) /\ g.none_of \in Seq(Texts)
  BY DEF GroupRecords
<1> DEFINE all == unique_texts(g.all_of)
           none == unique_texts(g.none_of)
           P == {i \in DOMAIN all : KeyOf[all[i]] \notin ToSet(KeysOf(none))}
           kept == At(all, P)
<1>2. condition_group(g) = [all_of |-> kept, none_of |-> none]
  BY DEF condition_group
<1>3. UniqueOf(all, g.all_of) /\ UniqueOf(none, g.none_of)
  BY <1>1, UniqueTexts
<1>4. \A i : i \in P <=> i \in DOMAIN all /\ \A j \in DOMAIN none : KeyOf[all[i]] # KeyOf[none[j]]
  BY DEF ToSet, KeysOf
<1>5. \A i \in DOMAIN g.all_of, j \in DOMAIN g.none_of : /\ KeyOf[g.all_of[i]] # KeyOf[g.none_of[j]]
                                                         /\ KeyOf[g.all_of[i]] # NoKey
                                                         /\ KeyOf[g.none_of[j]] # NoKey
  BY DEF validate_group, ToSet, KeysOf
<1>6. /\ \A i \in DOMAIN g.all_of : KeyOf[g.all_of[i]] # NoKey
      /\ \A i \in DOMAIN g.none_of : KeyOf[g.none_of[i]] # NoKey
  BY DEF validate_group, ToSet, KeysOf
<1> HIDE DEF all, none, P
<1>7. /\ kept \in Seq(Texts)
      /\ Picks(kept, all, P)
  <2>1. P \in SUBSET DOMAIN all /\ all \in Seq(Texts)
    BY <1>3, <1>4 DEF UniqueOf
  <2> QED BY <2>1, AtIs
<1>8. PICK f \in [DOMAIN kept -> P] :
            /\ \A k \in DOMAIN kept : kept[k] = all[f[k]]
            /\ \A k, l \in DOMAIN kept : k # l => f[k] # f[l]
            /\ \A p \in P : \E k \in DOMAIN kept : f[k] = p
  BY <1>7 DEF Picks
<1> HIDE DEF kept
<1>9. \A i \in DOMAIN kept, j \in DOMAIN none : KeyOf[kept[i]] # KeyOf[none[j]]
  BY <1>4, <1>8
<1>10. none \in Seq(Texts)
  BY <1>3 DEF UniqueOf
<1>13. IsInjective(KeysOf(none)) /\ IsInjective(KeysOf(kept))
  <2>1. IsInjective(KeysOf(none)) /\ IsInjective(KeysOf(all))
    BY <1>3 DEF UniqueOf
  <2>2. \A a, b \in DOMAIN all : KeyOf[all[a]] = KeyOf[all[b]] => a = b
    BY <2>1 DEF IsInjective, KeysOf
  <2>3. \A k, l \in DOMAIN kept : KeyOf[kept[k]] = KeyOf[kept[l]] => k = l
    BY <1>4, <1>8, <2>2
  <2> QED BY <2>1, <2>3 DEF IsInjective, KeysOf
<1>14. /\ \A i \in DOMAIN kept : KeyOf[kept[i]] # NoKey
       /\ \A j \in DOMAIN none : KeyOf[none[j]] # NoKey
  BY <1>3, <1>4, <1>8 DEF UniqueOf
<1>11. CASE g.none_of # <<>>
  <2>1. PICK p \in DOMAIN g.none_of : p = 1
    BY <1>1, <1>11, NotEmpty
  <2>2. DOMAIN none # {}
    BY <1>3, <1>6, <2>1 DEF UniqueOf
  <2>3. none # <<>>
    BY <1>10, <2>2, NotEmpty
  <2> QED BY <1>2, <1>7, <1>9, <1>10, <1>13, <1>14, <2>3 DEF GroupIsSound
<1>12. CASE g.all_of # <<>>
  <2>1. PICK p \in DOMAIN g.all_of : p = 1
    BY <1>1, <1>12, NotEmpty
  <2>2. PICK i \in DOMAIN all : KeyOf[all[i]] = KeyOf[g.all_of[p]]
    BY <1>3, <1>6, <2>1 DEF UniqueOf
  <2>3. \A j \in DOMAIN none : \E q \in DOMAIN g.none_of : none[j] = g.none_of[q]
    BY <1>3 DEF UniqueOf
  <2>4. i \in P
    BY <1>4, <1>5, <2>2, <2>3
  <2>5. DOMAIN kept # {}
    BY <1>8, <2>4
  <2>6. kept # <<>>
    BY <1>7, <2>5, NotEmpty
  <2> QED BY <1>2, <1>7, <1>9, <1>10, <1>13, <1>14, <2>6 DEF GroupIsSound
<1> QED BY <1>11, <1>12

(***************************************************************************)
(* The ids of groups.                                                      *)
(***************************************************************************)

\* A sequence is cut in one way where a token stands that is not in the rest.
LEMMA CutsNotBefore ==
    ASSUME NEW S, NEW x \in S, NEW a \in Seq(S), NEW b \in Seq(S), NEW c \in Seq(S), NEW d \in Seq(S),
           x \notin ToSet(b), a \o <<x>> \o b = c \o <<x>> \o d
    PROVE  ~(Len(a) < Len(c))
<1> SUFFICES ASSUME Len(a) < Len(c) PROVE FALSE
  OBVIOUS
<1>1. <<x>> \in Seq(S) /\ Len(<<x>>) = 1 /\ <<x>>[1] = x
  OBVIOUS
<1>2. PICK u \in Seq(S) : u = a \o <<x>>
  BY <1>1, ConcatProperties
<1>3. PICK v \in Seq(S) : v = c \o <<x>>
  BY <1>1, ConcatProperties
<1>4. Len(u) = Len(a) + 1 /\ Len(v) = Len(c) + 1 /\ v[Len(c) + 1] = x
  <2>1. /\ Len(u) = Len(a) + 1 /\ Len(v) = Len(c) + 1
        /\ \A i \in 1..Len(v) : v[i] = IF i <= Len(c) THEN c[i] ELSE <<x>>[i - Len(c)]
    BY <1>1, <1>2, <1>3, ConcatProperties
  <2>2. Len(c) \in Nat /\ Len(c) + 1 \in 1..Len(v) /\ ~(Len(c) + 1 <= Len(c)) /\ (Len(c) + 1) - Len(c) = 1
    BY <2>1, LenProperties
  <2> QED BY <1>1, <2>1, <2>2
<1>5. PICK w : w = u \o b /\ w = v \o d
  BY <1>2, <1>3
<1>6. /\ Len(u \o b) = Len(u) + Len(b) /\ \A i \in 1..(Len(u) + Len(b)) : (u \o b)[i] = IF i <= Len(u) THEN u[i] ELSE b[i - Len(u)]
      /\ Len(v \o d) = Len(v) + Len(d) /\ \A i \in 1..(Len(v) + Len(d)) : (v \o d)[i] = IF i <= Len(v) THEN v[i] ELSE d[i - Len(v)]
  BY ConcatProperties
<1>7. Len(a) \in Nat /\ Len(b) \in Nat /\ Len(c) \in Nat /\ Len(d) \in Nat
  BY LenProperties
<1>8. PICK p : p = Len(c) + 1
  OBVIOUS
<1>9. /\ p \in 1..(Len(v) + Len(d)) /\ p <= Len(v)
      /\ p \in 1..(Len(u) + Len(b)) /\ ~(p <= Len(u)) /\ p - Len(u) \in 1..Len(b)
  BY <1>4, <1>5, <1>6, <1>7, <1>8
<1>10. b[p - Len(u)] = x
  BY <1>4, <1>5, <1>6, <1>8, <1>9
<1>11. DOMAIN b = 1..Len(b)
  BY LenProperties
<1> QED BY <1>9, <1>10, <1>11 DEF ToSet

LEMMA CutsAgree ==
    ASSUME NEW S, NEW x \in S, NEW a \in Seq(S), NEW b \in Seq(S), NEW c \in Seq(S), NEW d \in Seq(S),
           x \notin ToSet(b), x \notin ToSet(d), a \o <<x>> \o b = c \o <<x>> \o d
    PROVE  a = c /\ b = d
<1>1. Len(a) \in Nat /\ Len(b) \in Nat /\ Len(c) \in Nat /\ Len(d) \in Nat
  BY LenProperties
<1>2. Len(a) = Len(c)
  <2>1. ~(Len(a) < Len(c))
    BY CutsNotBefore
  <2>2. ~(Len(c) < Len(a))
    BY CutsNotBefore
  <2> QED BY <1>1, <2>1, <2>2
<1>3. <<x>> \in Seq(S) /\ Len(<<x>>) = 1
  OBVIOUS
<1>4. PICK u \in Seq(S) : u = a \o <<x>>
  BY <1>3, ConcatProperties
<1>5. PICK v \in Seq(S) : v = c \o <<x>>
  BY <1>3, ConcatProperties
<1>6. /\ Len(u) = Len(a) + 1 /\ \A i \in 1..Len(a) : u[i] = a[i]
      /\ Len(v) = Len(c) + 1 /\ \A i \in 1..Len(c) : v[i] = c[i]
  <2>1. /\ Len(u) = Len(a) + 1 /\ \A i \in 1..(Len(a) + 1) : u[i] = IF i <= Len(a) THEN a[i] ELSE <<x>>[i - Len(a)]
        /\ Len(v) = Len(c) + 1 /\ \A i \in 1..(Len(c) + 1) : v[i] = IF i <= Len(c) THEN c[i] ELSE <<x>>[i - Len(c)]
    BY <1>3, <1>4, <1>5, ConcatProperties
  <2>2. \A i \in 1..Len(a) : i \in 1..(Len(a) + 1) /\ i <= Len(a)
    BY <1>1
  <2> QED BY <1>2, <2>1, <2>2
<1>7. u \o b = v \o d
  BY <1>4, <1>5
<1>8. /\ Len(u \o b) = Len(u) + Len(b) /\ \A i \in 1..(Len(u) + Len(b)) : (u \o b)[i] = IF i <= Len(u) THEN u[i] ELSE b[i - Len(u)]
      /\ Len(v \o d) = Len(v) + Len(d) /\ \A i \in 1..(Len(v) + Len(d)) : (v \o d)[i] = IF i <= Len(v) THEN v[i] ELSE d[i - Len(v)]
  BY ConcatProperties
<1>9. Len(b) = Len(d)
  BY <1>1, <1>2, <1>6, <1>7, <1>8
<1>10. \A i \in 1..Len(a) : a[i] = c[i]
  <2> TAKE i \in 1..Len(a)
  <2>1. i \in 1..(Len(u) + Len(b)) /\ i <= Len(u) /\ i \in 1..(Len(v) + Len(d)) /\ i <= Len(v) /\ i \in 1..Len(c)
    BY <1>1, <1>2, <1>6, <1>9
  <2>2. u[i] = v[i]
    BY <1>7, <1>8, <2>1
  <2> QED BY <1>6, <2>1, <2>2
<1>11. \A i \in 1..Len(b) : b[i] = d[i]
  <2> TAKE i \in 1..Len(b)
  <2>1. PICK p : p = Len(u) + i
    OBVIOUS
  <2>2. /\ p \in 1..(Len(u) + Len(b)) /\ ~(p <= Len(u)) /\ p - Len(u) = i
        /\ p \in 1..(Len(v) + Len(d)) /\ ~(p <= Len(v)) /\ p - Len(v) = i
    BY <1>1, <1>2, <1>6, <1>9, <2>1
  <2> QED BY <1>7, <1>8, <2>2
<1>12. a = c
  BY <1>2, <1>10, SeqEqual
<1>13. b = d
  BY <1>9, <1>11, SeqEqual
<1> QED BY <1>12, <1>13

\* The keys joined so far are a function: see MergedIs.
LEMMA JoinedFirstIs ==
    ASSUME NEW keys, Len(keys) \in Nat
    PROVE  /\ JoinedFirst(keys)[0] = <<>>
           /\ 1 <= Len(keys) => JoinedFirst(keys)[1] = keys[1]
           /\ \A n \in 2..Len(keys) : JoinedFirst(keys)[n] = JoinedFirst(keys)[n - 1] \o <<And>> \o keys[n]
<1> DEFINE Step(f, n) == CASE n = 0 -> <<>> [] n = 1 -> keys[1] [] OTHER -> f[n - 1] \o <<And>> \o keys[n]
           Is(f, m) == f = [n \in 0..m |-> Step(f, n)]
           T == {m \in Nat : ~ \E f : Is(f, m)}
<1>1. T = {}
  <2> SUFFICES ASSUME T # {} PROVE FALSE
    OBVIOUS
  <2>1. PICK m \in T : \A k \in T : m <= k
    <3>1. T \in SUBSET Nat
      OBVIOUS
    <3> HIDE DEF T
    <3> QED BY <3>1, SmallestOf
  <2>2. CASE m = 0
    <3>1. Is([n \in 0..0 |-> <<>>], 0)
      OBVIOUS
    <3> QED BY <2>1, <2>2, <3>1
  <2>3. CASE m # 0
    <3>1. m \in Nat /\ m - 1 \in Nat /\ m - 1 \notin T
      <4>1. m \in Nat
        BY <2>1
      <4>2. ~(m <= m - 1)
        BY <4>1
      <4>3. m - 1 \notin T
        <5> HIDE DEF T
        <5> QED BY <2>1, <4>2
      <4> HIDE DEF T
      <4> QED BY <2>3, <4>1, <4>3
    <3>2. PICK f : Is(f, m - 1)
      BY <3>1
    <3>0. \A h, g, n : h[n - 1] = g[n - 1] \/ n = 0 => Step(h, n) = Step(g, n)
      OBVIOUS
    <3>5. \A n \in 0..(m - 1) : f[n] = Step(f, n)
      <4> HIDE DEF Step
      <4> QED BY <3>2
    <3> HIDE DEF Step
    <3> DEFINE g == [n \in 0..m |-> IF n = m THEN Step(f, m) ELSE f[n]]
    <3>3. \A n \in 0..m : g[n] = Step(g, n)
      <4> TAKE n \in 0..m
      <4>1. CASE n = m
        <5>1. m - 1 \in 0..m /\ m - 1 # m /\ g[m - 1] = f[m - 1] /\ g[m] = Step(f, m)
          BY <2>3, <3>1
        <5> HIDE DEF g
        <5> QED BY <3>0, <4>1, <5>1
      <4>2. CASE n # m
        <5>1. n \in 0..(m - 1) /\ g[n] = f[n] /\ (n # 0 => n - 1 \in 0..m /\ n - 1 # m /\ g[n - 1] = f[n - 1])
          BY <3>1, <4>2
        <5> HIDE DEF g
        <5> QED BY <3>0, <3>5, <5>1
      <4> QED BY <4>1, <4>2
    <3>4. Is(g, m)
      BY <3>3
    <3> QED BY <2>1, <3>4
  <2> QED BY <2>2, <2>3
<1>2. \E f : Is(f, Len(keys))
  <2>1. \A m \in Nat : m \notin T => \E f : Is(f, m)
    <3> HIDE DEF Is
    <3> QED OBVIOUS
  <2> HIDE DEF Is, T
  <2> QED BY <1>1, <2>1
<1>3. Is(JoinedFirst(keys), Len(keys))
  BY <1>2 DEF JoinedFirst
<1> DEFINE f == JoinedFirst(keys)
<1>4. \A n \in 0..Len(keys) : f[n] = Step(f, n)
  <2> HIDE DEF Step, f
  <2> QED BY <1>3 DEF f
<1> HIDE DEF f
<1>5. f[0] = <<>>
  BY <1>4
<1>6. 1 <= Len(keys) => f[1] = keys[1]
  BY <1>4
<1>7. \A n \in 2..Len(keys) : f[n] = f[n - 1] \o <<And>> \o keys[n]
  <2> TAKE n \in 2..Len(keys)
  <2>1. n \in 0..Len(keys) /\ n # 0 /\ n # 1
    OBVIOUS
  <2>2. Step(f, n) = f[n - 1] \o <<And>> \o keys[n]
    BY <2>1
  <2> HIDE DEF Step
  <2> QED BY <1>4, <2>1, <2>2
<1> QED BY <1>5, <1>6, <1>7 DEF f

\* Keys that are not empty and contain no joining word.
ArePlain(keys) ==
    /\ keys \in Seq(Seq(Tokens))
    /\ \A i \in 1..Len(keys) : keys[i] # <<>> /\ And \notin ToSet(keys[i]) /\ None \notin ToSet(keys[i])

LEMMA JoinedIsPlain ==
    ASSUME NEW keys, ArePlain(keys)
    PROVE  \A n \in 0..Len(keys) : /\ JoinedFirst(keys)[n] \in Seq(Tokens)
                                   /\ None \notin ToSet(JoinedFirst(keys)[n])
                                   /\ n # 0 => JoinedFirst(keys)[n] # <<>>
<1> DEFINE f == JoinedFirst(keys)
           Holds(n) == f[n] \in Seq(Tokens) /\ None \notin ToSet(f[n]) /\ (n # 0 => f[n] # <<>>)
           T == {n \in 0..Len(keys) : ~Holds(n)}
<1>1. Len(keys) \in Nat /\ \A i \in 1..Len(keys) : keys[i] \in Seq(Tokens)
  BY LenProperties, ElementOfSeq DEF ArePlain
<1>2. /\ f[0] = <<>>
      /\ 1 <= Len(keys) => f[1] = keys[1]
      /\ \A n \in 2..Len(keys) : f[n] = f[n - 1] \o <<And>> \o keys[n]
  BY <1>1, JoinedFirstIs
<1> HIDE DEF f
<1>3. SUFFICES T = {}
  BY DEF f
<1> SUFFICES ASSUME T # {} PROVE FALSE
  OBVIOUS
<1>4. PICK n \in T : \A k \in T : n <= k
  <2>1. T \in SUBSET Nat
    BY <1>1
  <2> HIDE DEF T
  <2> QED BY <2>1, SmallestOf
<1>5. n \in 0..Len(keys) /\ ~Holds(n)
  BY <1>4
<1>6. CASE n = 0
  <2>1. f[0] \in Seq(Tokens) /\ ToSet(f[0]) = {}
    BY <1>2 DEF ToSet
  <2> QED BY <1>5, <1>6, <2>1
<1>7. CASE n = 1
  <2>1. f[n] = keys[1] /\ 1 \in 1..Len(keys)
    BY <1>1, <1>2, <1>5, <1>7
  <2> QED BY <1>1, <1>5, <2>1 DEF ArePlain
<1>8. CASE n # 0 /\ n # 1
  <2>1. n \in 2..Len(keys) /\ n \in 1..Len(keys) /\ n - 1 \in 0..Len(keys) /\ ~(n <= n - 1)
    BY <1>1, <1>5, <1>8
  <2>2. Holds(n - 1)
    BY <1>4, <2>1
  <2>3. PICK a \in Seq(Tokens) : a = f[n - 1] /\ None \notin ToSet(a)
    BY <2>2
  <2>4. PICK b \in Seq(Tokens) : b = keys[n] /\ None \notin ToSet(b)
    BY <1>1, <2>1 DEF ArePlain
  <2>5. <<And>> \in Seq(Tokens) /\ Len(<<And>>) = 1 /\ <<And>>[1] = And
    BY KeyAssumption
  <2>6. PICK u \in Seq(Tokens) : u = a \o <<And>>
    BY <2>5, ConcatProperties
  <2>7. u \o b \in Seq(Tokens) /\ f[n] = u \o b
    BY <1>2, <2>1, <2>3, <2>4, <2>6, ConcatProperties
  <2>8. Len(u \o b) = Len(u) + Len(b) /\ Len(u) = Len(a) + 1 /\ Len(a) \in Nat /\ Len(b) \in Nat
    BY <2>5, <2>6, ConcatProperties, LenProperties
  <2>9. f[n] # <<>>
    BY <2>7, <2>8, EmptySeq
  <2>10. None \notin ToSet(f[n])
    <3> SUFFICES ASSUME NEW i \in 1..Len(u \o b), (u \o b)[i] = None PROVE FALSE
      <4>1. DOMAIN (u \o b) = 1..Len(u \o b)
        BY <2>7, LenProperties
      <4> QED BY <2>7, <4>1 DEF ToSet
    <3>1. (u \o b)[i] = IF i <= Len(u) THEN u[i] ELSE b[i - Len(u)]
      BY <2>8, ConcatProperties
    <3>2. CASE ~(i <= Len(u))
      <4>1. i - Len(u) \in 1..Len(b)
        BY <2>8, <3>2
      <4> QED BY <2>4, <3>1, <3>2, <4>1, LenProperties DEF ToSet
    <3>3. CASE i <= Len(u)
      <4>1. i \in 1..(Len(a) + Len(<<And>>)) /\ u[i] = IF i <= Len(a) THEN a[i] ELSE <<And>>[i - Len(a)]
        <5>1. i \in 1..(Len(a) + Len(<<And>>))
          BY <2>5, <2>8, <3>3
        <5> QED BY <2>5, <2>6, <5>1, ConcatProperties
      <4>2. CASE i <= Len(a)
        <5>1. i \in 1..Len(a)
          BY <2>8, <4>2
        <5> QED BY <2>3, <3>1, <3>3, <4>1, <4>2, <5>1, LenProperties DEF ToSet
      <4>3. CASE ~(i <= Len(a))
        <5>1. i - Len(a) = 1
          BY <2>8, <3>3, <4>3
        <5> QED BY <2>5, <3>1, <3>3, <4>1, <4>3, <5>1, KeyAssumption
      <4> QED BY <4>2, <4>3
    <3> QED BY <3>2, <3>3
  <2> QED BY <1>5, <2>7, <2>9, <2>10
<1> QED BY <1>6, <1>7, <1>8

\* What is joined tells plain keys apart: of two joined sequences that are equal,
\* the last keys are those behind the last And.
LEMMA JoinedTellsApart ==
    ASSUME NEW a, ArePlain(a), NEW b, ArePlain(b), Joined(a) = Joined(b)
    PROVE  a = b
<1> DEFINE f == JoinedFirst(a)
           h == JoinedFirst(b)
           Same(n, m) == n = m /\ \A i \in 1..n : a[i] = b[i]
           T == {n \in 0..Len(a) : \E m \in 0..Len(b) : f[n] = h[m] /\ ~Same(n, m)}
<1>1. /\ Len(a) \in Nat /\ \A i \in 1..Len(a) : a[i] \in Seq(Tokens)
      /\ Len(b) \in Nat /\ \A i \in 1..Len(b) : b[i] \in Seq(Tokens)
  BY LenProperties, ElementOfSeq DEF ArePlain
<1>2. /\ \A i \in 1..Len(a) : a[i] # <<>> /\ And \notin ToSet(a[i])
      /\ \A i \in 1..Len(b) : b[i] # <<>> /\ And \notin ToSet(b[i])
  BY DEF ArePlain
<1>3. /\ f[0] = <<>>
      /\ 1 <= Len(a) => f[1] = a[1]
      /\ \A n \in 2..Len(a) : f[n] = f[n - 1] \o <<And>> \o a[n]
  BY <1>1, JoinedFirstIs
<1>4. /\ h[0] = <<>>
      /\ 1 <= Len(b) => h[1] = b[1]
      /\ \A n \in 2..Len(b) : h[n] = h[n - 1] \o <<And>> \o b[n]
  BY <1>1, JoinedFirstIs
<1>5. /\ \A n \in 0..Len(a) : f[n] \in Seq(Tokens) /\ (n # 0 => f[n] # <<>>)
      /\ \A n \in 0..Len(b) : h[n] \in Seq(Tokens) /\ (n # 0 => h[n] # <<>>)
  BY JoinedIsPlain
<1>6. f[Len(a)] = h[Len(b)]
  BY DEF Joined
<1> HIDE DEF f, h
\* A key has no And in it, but what is joined of more than one has.
<1>7. ASSUME NEW u \in Seq(Tokens), NEW v \in Seq(Tokens), NEW k \in Seq(Tokens), k = u \o <<And>> \o v
      PROVE  And \in ToSet(k)
  <2>1. <<And>> \in Seq(Tokens) /\ Len(<<And>>) = 1 /\ <<And>>[1] = And
    BY KeyAssumption
  <2>2. PICK x \in Seq(Tokens) : x = u \o <<And>>
    BY <2>1, ConcatProperties
  <2>3. Len(x) = Len(u) + 1 /\ Len(u) \in Nat /\ Len(v) \in Nat /\ Len(k) = Len(x) + Len(v)
    BY <1>7, <2>1, <2>2, ConcatProperties, LenProperties
  <2>4. PICK p : p = Len(u) + 1
    OBVIOUS
  <2>5. p \in 1..Len(k) /\ p <= Len(x) /\ p \in 1..(Len(u) + Len(<<And>>)) /\ ~(p <= Len(u)) /\ p - Len(u) = 1
    BY <2>1, <2>3, <2>4
  <2>6. k[p] = x[p] /\ x[p] = <<And>>[1]
    BY <1>7, <2>1, <2>2, <2>3, <2>5, ConcatProperties
  <2> QED BY <2>1, <2>5, <2>6, LenProperties DEF ToSet
<1>8. T = {}
  <2> SUFFICES ASSUME T # {} PROVE FALSE
    OBVIOUS
  <2>1. PICK n \in T : \A k \in T : n <= k
    <3>1. T \in SUBSET Nat
      BY <1>1
    <3> HIDE DEF T
    <3> QED BY <3>1, SmallestOf
  <2>2. n \in 0..Len(a)
    BY <2>1
  <2>3. PICK m \in 0..Len(b) : f[n] = h[m] /\ ~Same(n, m)
    BY <2>1
  <2>4. CASE n = 0 \/ m = 0
    <3>1. n = 0 /\ m = 0
      BY <1>3, <1>4, <1>5, <2>2, <2>3, <2>4
    <3> QED BY <2>3, <3>1
  <2>5. CASE n = 1 /\ m = 1
    <3>1. 1 <= Len(a) /\ 1 <= Len(b)
      BY <1>1, <2>2, <2>3, <2>5
    <3>2. a[1] = b[1]
      BY <1>3, <1>4, <2>3, <2>5, <3>1
    <3> QED BY <2>3, <2>5, <3>2
  <2>6. CASE n = 1 /\ m \notin {0, 1}
    <3>1. 1 \in 1..Len(a) /\ m \in 2..Len(b) /\ m - 1 \in 0..Len(b) /\ m \in 1..Len(b)
      BY <1>1, <2>2, <2>3, <2>6
    <3>2. a[1] = h[m - 1] \o <<And>> \o b[m]
      <4>1. h[m] = h[m - 1] \o <<And>> \o b[m]
        BY <1>4, <3>1
      <4>2. f[1] = a[1] /\ f[1] = h[m]
        BY <1>1, <1>3, <2>3, <2>6, <3>1
      <4> QED BY <4>1, <4>2
    <3>3. a[1] \in Seq(Tokens) /\ h[m - 1] \in Seq(Tokens) /\ b[m] \in Seq(Tokens)
      BY <1>1, <1>5, <3>1
    <3> QED BY <1>2, <1>7, <3>1, <3>2, <3>3
  <2>7. CASE m = 1 /\ n \notin {0, 1}
    <3>1. 1 \in 1..Len(b) /\ n \in 2..Len(a) /\ n - 1 \in 0..Len(a) /\ n \in 1..Len(a)
      BY <1>1, <2>2, <2>3, <2>7
    <3>2. b[1] = f[n - 1] \o <<And>> \o a[n]
      <4>1. f[n] = f[n - 1] \o <<And>> \o a[n]
        BY <1>3, <3>1
      <4>2. h[1] = b[1] /\ f[n] = h[1]
        BY <1>1, <1>4, <2>3, <2>7, <3>1
      <4> QED BY <4>1, <4>2
    <3>3. b[1] \in Seq(Tokens) /\ f[n - 1] \in Seq(Tokens) /\ a[n] \in Seq(Tokens)
      BY <1>1, <1>5, <3>1
    <3> QED BY <1>2, <1>7, <3>1, <3>2, <3>3
  <2>8. CASE n \notin {0, 1} /\ m \notin {0, 1}
    <3>1. /\ n \in 2..Len(a) /\ n - 1 \in 0..Len(a) /\ n \in 1..Len(a) /\ ~(n <= n - 1)
          /\ m \in 2..Len(b) /\ m - 1 \in 0..Len(b) /\ m \in 1..Len(b)
      BY <1>1, <2>2, <2>3, <2>8
    <3>2. f[n - 1] \o <<And>> \o a[n] = h[m - 1] \o <<And>> \o b[m]
      BY <1>3, <1>4, <2>3, <3>1
    <3>3. /\ a[n] \in Seq(Tokens) /\ f[n - 1] \in Seq(Tokens) /\ And \notin ToSet(a[n])
          /\ b[m] \in Seq(Tokens) /\ h[m - 1] \in Seq(Tokens) /\ And \notin ToSet(b[m]) /\ And \in Tokens
      BY <1>1, <1>2, <1>5, <3>1, KeyAssumption
    <3>4. f[n - 1] = h[m - 1] /\ a[n] = b[m]
      <4>1. PICK u \in Seq(Tokens), v \in Seq(Tokens) : u = f[n - 1] /\ v = h[m - 1]
        BY <3>3
      <4>2. PICK k \in Seq(Tokens), l \in Seq(Tokens) : k = a[n] /\ l = b[m]
        BY <3>3
      <4>3. And \in Tokens /\ And \notin ToSet(k) /\ And \notin ToSet(l) /\ u \o <<And>> \o k = v \o <<And>> \o l
        BY <3>2, <3>3, <4>1, <4>2
      <4>4. u = v /\ k = l
        BY <4>3, CutsAgree
      <4> QED BY <4>1, <4>2, <4>4
    <3>5. n - 1 \notin T
      <4> HIDE DEF T
      <4> QED BY <2>1, <3>1
    <3>6. Same(n - 1, m - 1)
      BY <3>1, <3>4, <3>5
    <3>7. n = m /\ \A i \in 1..n : i \in 1..(n - 1) \/ i = n
      BY <1>1, <2>2, <2>3, <3>6
    <3>8. Same(n, m)
      BY <3>4, <3>6, <3>7
    <3> QED BY <2>3, <3>8
  <2> QED BY <2>4, <2>5, <2>6, <2>7, <2>8
<1>9. Same(Len(a), Len(b))
  <2>1. Len(a) \in 0..Len(a) /\ Len(b) \in 0..Len(b)
    BY <1>1
  <2> QED BY <1>6, <1>8, <2>1
<1> QED BY <1>9, SeqEqual DEF ArePlain

\* What is joined of the keys of texts.
LEMMA KeysArePlain ==
    ASSUME NEW texts \in Seq(Texts), \A i \in DOMAIN texts : KeyOf[texts[i]] # NoKey,
           Wordless(ToSet(KeysOf(texts)))
    PROVE  ArePlain(KeysOf(texts))
<1> DEFINE keys == KeysOf(texts)
<1>1. /\ DOMAIN texts = 1..Len(texts) /\ Len(texts) \in Nat
      /\ \A i \in DOMAIN texts : texts[i] \in Texts
  BY LenProperties, ElementOfSeq
<1>2. DOMAIN keys = 1..Len(texts) /\ \A i \in 1..Len(texts) : keys[i] = KeyOf[texts[i]]
  BY <1>1 DEF KeysOf
<1>3. \A i \in 1..Len(texts) : keys[i] \in Seq(Tokens)
  BY <1>1, <1>2, KeyAssumption
<1>4. keys = [i \in 1..Len(texts) |-> keys[i]]
  BY <1>1 DEF KeysOf
<1> HIDE DEF keys
<1>5. keys \in Seq(Seq(Tokens)) /\ Len(keys) = Len(texts)
  <2>1. keys \in [1..Len(texts) -> Seq(Tokens)]
    BY <1>3, <1>4
  <2>2. keys \in Seq(Seq(Tokens))
    BY <1>1, <2>1, SeqDef
  <2>3. Len(keys) \in Nat /\ 1..Len(keys) = 1..Len(texts)
    BY <1>2, <2>2, LenProperties
  <2> QED BY <1>1, <2>2, <2>3
<1>6. \A i \in 1..Len(texts) : keys[i] \in ToSet(keys) /\ keys[i] # <<>>
  BY <1>1, <1>2 DEF ToSet, NoKey
<1>7. \A k \in ToSet(keys) : And \notin ToSet(k) /\ None \notin ToSet(k)
  BY DEF Wordless, keys
<1> QED BY <1>5, <1>6, <1>7 DEF ArePlain, keys

\* The id of a group tells its rule and, when they are plain, its conditions.
LEMMA GroupIdTells ==
    ASSUME NEW a, NEW g, GroupIsSound(g), Wordless(GroupKey(g)[1] \cup GroupKey(g)[2]),
           NEW b, NEW h, GroupIsSound(h), Wordless(GroupKey(h)[1] \cup GroupKey(h)[2]),
           GroupId(a, g) = GroupId(b, h)
    PROVE  a = b /\ KeysOf(g.all_of) = KeysOf(h.all_of) /\ KeysOf(g.none_of) = KeysOf(h.none_of)
<1>1. /\ Wordless(ToSet(KeysOf(g.all_of))) /\ Wordless(ToSet(KeysOf(g.none_of)))
      /\ Wordless(ToSet(KeysOf(h.all_of))) /\ Wordless(ToSet(KeysOf(h.none_of)))
  BY DEF GroupKey, Wordless
<1>2. /\ ArePlain(KeysOf(g.all_of)) /\ ArePlain(KeysOf(g.none_of))
      /\ ArePlain(KeysOf(h.all_of)) /\ ArePlain(KeysOf(h.none_of))
  BY <1>1, KeysArePlain DEF GroupIsSound
<1>3. \A keys : ArePlain(keys) => Joined(keys) \in Seq(Tokens) /\ None \notin ToSet(Joined(keys))
  <2> SUFFICES ASSUME NEW keys, ArePlain(keys)
               PROVE  Joined(keys) \in Seq(Tokens) /\ None \notin ToSet(Joined(keys))
    OBVIOUS
  <2>1. Len(keys) \in 0..Len(keys)
    BY LenProperties DEF ArePlain
  <2> QED BY <2>1, JoinedIsPlain DEF Joined
<1>4. a = b /\ Joined(KeysOf(g.all_of)) \o <<None>> \o Joined(KeysOf(g.none_of))
                  = Joined(KeysOf(h.all_of)) \o <<None>> \o Joined(KeysOf(h.none_of))
  BY DEF GroupId
<1>5. /\ Joined(KeysOf(g.all_of)) = Joined(KeysOf(h.all_of))
      /\ Joined(KeysOf(g.none_of)) = Joined(KeysOf(h.none_of))
  <2>1. PICK u \in Seq(Tokens), k \in Seq(Tokens) :
           u = Joined(KeysOf(g.all_of)) /\ k = Joined(KeysOf(g.none_of)) /\ None \notin ToSet(k)
    BY <1>2, <1>3
  <2>2. PICK v \in Seq(Tokens), l \in Seq(Tokens) :
           v = Joined(KeysOf(h.all_of)) /\ l = Joined(KeysOf(h.none_of)) /\ None \notin ToSet(l)
    BY <1>2, <1>3
  <2>3. None \in Tokens /\ u \o <<None>> \o k = v \o <<None>> \o l
    <3>1. None \in Tokens
      BY KeyAssumption
    <3>2. \A x, y : x = u /\ y = k => x \o <<None>> \o y = u \o <<None>> \o k
      OBVIOUS
    <3>3. \A x, y : x = v /\ y = l => x \o <<None>> \o y = v \o <<None>> \o l
      OBVIOUS
    <3>4. /\ Joined(KeysOf(g.all_of)) \o <<None>> \o Joined(KeysOf(g.none_of)) = u \o <<None>> \o k
          /\ Joined(KeysOf(h.all_of)) \o <<None>> \o Joined(KeysOf(h.none_of)) = v \o <<None>> \o l
      BY <2>1, <2>2, <3>2, <3>3, Zenon
    <3> QED BY <1>4, <3>1, <3>4, Zenon
  <2>4. None \in Tokens /\ None \notin ToSet(k) /\ None \notin ToSet(l) /\ u \o <<None>> \o k = v \o <<None>> \o l
    BY <2>1, <2>2, <2>3
  <2>5. u = v /\ k = l
    BY <2>4, CutsAgree
  <2> QED BY <2>1, <2>2, <2>5
<1>6. KeysOf(g.all_of) = KeysOf(h.all_of)
  BY <1>2, <1>5, JoinedTellsApart
<1>7. KeysOf(g.none_of) = KeysOf(h.none_of)
  BY <1>2, <1>5, JoinedTellsApart
<1> QED BY <1>4, <1>6, <1>7

(***************************************************************************)
(* What a merge keeps.                                                     *)
(***************************************************************************)

\* A candidate for which a submission is refused.
IsRefused(c, rules) ==
    \/ \E g \in ToSet(discard_empty_condition_groups(c.groups)) : ~validate_group(g)
    \/ ~PassedOver(c) /\ RefusedRule(c, rules)

\* The rules of the graph: told apart by their names, no alias in two spellings.
RulesAreSound(rules) ==
    \A r \in DOMAIN rules :
        /\ rules[r] = [name |-> rules[r].name, summary |-> rules[r].summary, aliases |-> rules[r].aliases]
        /\ r = RuleId(rules[r].name) /\ rules[r].name \in Texts /\ rules[r].summary \in Nat \ {0}
        /\ rules[r].aliases \in Seq(Texts) /\ IsInjective(KeysOf(rules[r].aliases))

\* No rule is known by this text.
Unknown(t, rules) == KeyOf[t] # NoKey => KnownBy(rules, KeyOf[t]) = {}

\* What is merged of one rule: what it will write is sound, it has the id of its
\* name, and one that does not exist was not known.
IsSaid(r, x, rules) ==
    /\ x.name \in Texts /\ x.summary \in Nat \ {0} /\ x.aliases \in Seq(Texts)
    /\ x.texts \in [TextKinds -> Seq(Texts)]
    /\ x.groups \in Seq(GroupRecords) /\ \A i \in DOMAIN x.groups : GroupIsSound(x.groups[i])
    /\ IsFiniteSet(x.links) /\ \A l \in x.links : l.kind \in LinkKinds /\ l.id \in DOMAIN rules \ {r}
    /\ r = RuleId(x.name)
    /\ r \notin DOMAIN rules =>
          Unknown(x.name, rules) /\ \A i \in DOMAIN x.aliases : Unknown(x.aliases[i], rules)
BeginsWith(longer, shorter) == \A i \in DOMAIN shorter : i \in DOMAIN longer /\ longer[i] = shorter[i]
IsMerging(r, x, rules) ==
    /\ x = [name |-> x.name, summary |-> x.summary, aliases |-> x.aliases,
            texts |-> x.texts, groups |-> x.groups, links |-> x.links]
    /\ IsSaid(r, x, rules)
    /\ (r \in DOMAIN rules => BeginsWith(x.aliases, rules[r].aliases))

LEMMA FirstIsMerging ==
    ASSUME NEW c, IsCandidate(c), NEW rules, RulesAreSound(rules), ~PassedOver(c), ~RefusedRule(c, rules)
    PROVE  IsMerging(RuleIdOf(c), FirstOf(c, rules), rules)
<1> DEFINE id == RuleIdOf(c)
           x == FirstOf(c, rules)
<1>1. x.groups = <<>> /\ x.links = {} /\ IsFiniteSet(x.links)
  BY FS_EmptySet DEF FirstOf
<1>0. x = [name |-> x.name, summary |-> x.summary, aliases |-> x.aliases,
           texts |-> x.texts, groups |-> x.groups, links |-> x.links]
  BY DEF FirstOf
<1>6. x.texts \in [TextKinds -> Seq(Texts)]
  BY EmptySeq DEF FirstOf
<1>2. x.groups \in Seq(GroupRecords) /\ DOMAIN x.groups = {}
  BY <1>1, EmptySeq
<1>3. c.name \in Texts /\ c.summary \in Nat \ {0}
  BY DEF IsCandidate, PassedOver
<1>4. CASE id \in DOMAIN rules
  <2>1. x.name = rules[id].name /\ x.summary = rules[id].summary /\ x.aliases = rules[id].aliases
    BY <1>4 DEF FirstOf
  <2>2. x.name \in Texts /\ x.summary \in Nat \ {0} /\ x.aliases \in Seq(Texts) /\ id = RuleId(x.name)
    BY <1>4, <2>1 DEF RulesAreSound
  <2> HIDE DEF x, id
  <2>3. IsSaid(id, x, rules)
    BY <1>1, <1>2, <1>4, <1>6, <2>2 DEF IsSaid
  <2>4. BeginsWith(x.aliases, rules[id].aliases)
    BY <2>1 DEF BeginsWith
  <2>5. IsMerging(id, x, rules)
    BY <1>0, <2>3, <2>4 DEF IsMerging
  <2> QED BY <2>5 DEF x, id
<1>5. CASE id \notin DOMAIN rules
  <2>1. x.name = c.name /\ x.summary = c.summary /\ x.aliases = <<>>
    BY <1>5 DEF FirstOf
  <2>2. c.existing = NoId /\ id = RuleId(c.name)
    BY <1>5 DEF RefusedRule, RuleIdOf
  <2>3. Unknown(c.name, rules)
    BY <2>2 DEF RefusedRule, Unknown
  <2>4. x.aliases \in Seq(Texts) /\ DOMAIN x.aliases = {}
    BY <2>1, EmptySeq
  <2> HIDE DEF x, id
  <2>5. IsSaid(id, x, rules)
    BY <1>1, <1>2, <1>3, <1>5, <1>6, <2>1, <2>2, <2>3, <2>4 DEF IsSaid
  <2>6. IsMerging(id, x, rules)
    BY <1>0, <1>5, <2>5 DEF IsMerging
  <2> QED BY <2>6 DEF x, id
<1> QED BY <1>4, <1>5

\* The groups of a candidate that is not refused can be written.
LEMMA GroupsAreSound ==
    ASSUME NEW groups \in Seq(GroupRecords),
           \A g \in ToSet(discard_empty_condition_groups(groups)) : validate_group(g)
    PROVE  LET some == discard_empty_condition_groups(groups)
               made == [i \in DOMAIN some |-> condition_group(some[i])]
           IN made \in Seq(GroupRecords) /\ \A i \in DOMAIN made : GroupIsSound(made[i])
<1> DEFINE P == {i \in DOMAIN groups : groups[i].all_of # <<>> \/ groups[i].none_of # <<>>}
           some == discard_empty_condition_groups(groups)
           made == [i \in DOMAIN some |-> condition_group(some[i])]
<1>1. some = At(groups, P)
  BY DEF discard_empty_condition_groups
<1>2. P \in SUBSET DOMAIN groups /\ \A i \in P : groups[i].all_of # <<>> \/ groups[i].none_of # <<>>
  OBVIOUS
<1> HIDE DEF P
<1>3. some \in Seq(GroupRecords) /\ Picks(some, groups, P)
  BY <1>1, <1>2, AtIs
<1>4. \A i \in DOMAIN some : /\ some[i] \in GroupRecords /\ validate_group(some[i])
                             /\ some[i].all_of # <<>> \/ some[i].none_of # <<>>
  <2>1. \A i \in DOMAIN some : \E p \in P : some[i] = groups[p]
    BY <1>3 DEF Picks
  <2>2. \A i \in DOMAIN some : some[i] \in ToSet(some)
    BY DEF ToSet
  <2>3. \A i \in DOMAIN some : some[i] \in GroupRecords
    BY <1>3, LenProperties
  <2> HIDE DEF some
  <2> QED BY <1>2, <2>1, <2>2, <2>3 DEF some
<1> HIDE DEF some
<1>5. \A i \in DOMAIN some : GroupIsSound(condition_group(some[i])) /\ condition_group(some[i]) \in GroupRecords
  <2> TAKE i \in DOMAIN some
  <2>1. GroupIsSound(condition_group(some[i]))
    BY <1>4, ConditionGroups
  <2> QED BY <2>1 DEF GroupIsSound, GroupRecords, condition_group
<1>6. made \in Seq(GroupRecords) /\ DOMAIN made = DOMAIN some
  <2>1. DOMAIN some = 1..Len(some) /\ Len(some) \in Nat
    BY <1>3, LenProperties
  <2>2. made \in [1..Len(some) -> GroupRecords]
    BY <1>5, <2>1
  <2> QED BY <2>1, <2>2
<1> QED BY <1>5, <1>6 DEF some

\* u begins with s, and what else is in u is in t.
Joins(u, s, t) ==
    /\ BeginsWith(u, s)
    /\ \A k \in DOMAIN u : (\E i \in DOMAIN s : u[k] = s[i]) \/ (\E i \in DOMAIN t : u[k] = t[i])

LEMMA Concatenated ==
    ASSUME NEW S, NEW s \in Seq(S), NEW t \in Seq(S)
    PROVE  s \o t \in Seq(S) /\ Joins(s \o t, s, t)
<1>1. /\ s \o t \in Seq(S) /\ Len(s \o t) = Len(s) + Len(t)
      /\ \A i \in 1..(Len(s) + Len(t)) : (s \o t)[i] = IF i <= Len(s) THEN s[i] ELSE t[i - Len(s)]
  BY ConcatProperties
<1>2. /\ Len(s) \in Nat /\ DOMAIN s = 1..Len(s) /\ Len(t) \in Nat /\ DOMAIN t = 1..Len(t)
      /\ DOMAIN (s \o t) = 1..(Len(s) + Len(t))
  BY <1>1, LenProperties
<1> DEFINE u == s \o t
<1>3. \A i \in DOMAIN s : i \in DOMAIN u /\ u[i] = s[i]
  <2> HIDE DEF u
  <2> QED BY <1>1, <1>2 DEF u
<1>4. ASSUME NEW k \in DOMAIN u, ~(k <= Len(s)) PROVE \E i \in DOMAIN t : u[k] = t[i]
  <2>1. k - Len(s) \in DOMAIN t
    BY <1>2, <1>4
  <2> QED BY <1>1, <1>2, <1>4, <2>1
<1>5. ASSUME NEW k \in DOMAIN u, k <= Len(s) PROVE \E i \in DOMAIN s : u[k] = s[i]
  <2>1. k \in DOMAIN s
    BY <1>2, <1>5
  <2> QED BY <1>3, <2>1
<1> HIDE DEF u
<1>6. u \in Seq(S)
  BY <1>1 DEF u
<1>7. BeginsWith(u, s)
  BY <1>3 DEF BeginsWith
<1>8. \A k \in DOMAIN u : (\E i \in DOMAIN s : u[k] = s[i]) \/ (\E i \in DOMAIN t : u[k] = t[i])
  BY <1>4, <1>5
<1> QED BY <1>6, <1>7, <1>8 DEF u, Joins

LEMMA Appended ==
    ASSUME NEW S, NEW s \in Seq(S), NEW e \in S
    PROVE  /\ Append(s, e) \in Seq(S) /\ BeginsWith(Append(s, e), s)
           /\ \A k \in DOMAIN Append(s, e) : Append(s, e)[k] = e \/ \E i \in DOMAIN s : Append(s, e)[k] = s[i]
<1>1. /\ Append(s, e) \in Seq(S) /\ Len(Append(s, e)) = Len(s) + 1 /\ Len(s) \in Nat
      /\ DOMAIN s = 1..Len(s) /\ DOMAIN Append(s, e) = 1..(Len(s) + 1)
      /\ \A i \in 1..Len(s) : Append(s, e)[i] = s[i]
      /\ Append(s, e)[Len(s) + 1] = e
  OBVIOUS
<1> QED BY <1>1 DEF BeginsWith

\* A further candidate of a rule keeps what is merged of it.
LEMMA CandidateIsMerging ==
    ASSUME NEW c, IsCandidate(c), NEW rules, RulesAreSound(rules), ~PassedOver(c), ~IsRefused(c, rules),
           NEW old, IsMerging(RuleIdOf(c), old, rules), NEW summary \in {old.summary, c.summary},
           NEW aliases, aliases = (IF KeyOf[c.name] = KeyOf[old.name] THEN old.aliases
                                   ELSE Append(old.aliases, c.name)) \o c.aliases,
           NEW texts, texts = [k \in TextKinds |-> old.texts[k] \o c.texts[k]], NEW some, some = discard_empty_condition_groups(c.groups),
           NEW new, new = [name |-> old.name, summary |-> summary, aliases |-> aliases, texts |-> texts,
                           groups |-> old.groups \o [i \in DOMAIN some |-> condition_group(some[i])],
                           links |-> old.links \cup kept_links(c.links, RuleIdOf(c), rules)]
    PROVE  IsMerging(RuleIdOf(c), new, rules)
<1> DEFINE id == RuleIdOf(c)
           base == IF KeyOf[c.name] = KeyOf[old.name] THEN old.aliases ELSE Append(old.aliases, c.name)
           made == [i \in DOMAIN some |-> condition_group(some[i])]
<1>1. /\ new.name = old.name /\ new.summary = summary /\ new.aliases = base \o c.aliases
      /\ new.groups = old.groups \o made
      /\ new.links = old.links \cup kept_links(c.links, id, rules)
  OBVIOUS
<1>2. /\ c.name \in Texts /\ c.summary \in Nat \ {0} /\ c.aliases \in Seq(Texts)
      /\ c.groups \in Seq(GroupRecords) /\ \A l \in c.links : l.kind \in LinkKinds
      /\ c.texts \in [TextKinds -> Seq(Texts)]
  BY DEF IsCandidate, PassedOver
<1>3. /\ old.name \in Texts /\ old.summary \in Nat \ {0} /\ old.aliases \in Seq(Texts)
      /\ old.groups \in Seq(GroupRecords) /\ \A i \in DOMAIN old.groups : GroupIsSound(old.groups[i])
      /\ \A l \in old.links : l.kind \in LinkKinds /\ l.id \in DOMAIN rules \ {id}
      /\ old.texts \in [TextKinds -> Seq(Texts)] /\ id = RuleId(old.name)
  BY DEF IsMerging, IsSaid
<1>4. /\ base \in Seq(Texts) /\ BeginsWith(base, old.aliases)
      /\ \A k \in DOMAIN base : base[k] = c.name \/ \E i \in DOMAIN old.aliases : base[k] = old.aliases[i]
  <2>1. CASE KeyOf[c.name] = KeyOf[old.name]
    BY <1>3, <2>1 DEF BeginsWith
  <2>2. CASE KeyOf[c.name] # KeyOf[old.name]
    <3>1. base = Append(old.aliases, c.name)
      BY <2>2
    <3> HIDE DEF base
    <3> QED BY <1>2, <1>3, <3>1, Appended
  <2> QED BY <2>1, <2>2
<1> HIDE DEF base, id
<1>5. /\ new.aliases \in Seq(Texts) /\ BeginsWith(new.aliases, base)
      /\ \A k \in DOMAIN new.aliases : \/ \E i \in DOMAIN base : new.aliases[k] = base[i]
                                       \/ \E i \in DOMAIN c.aliases : new.aliases[k] = c.aliases[i]
  <2>1. base \o c.aliases \in Seq(Texts) /\ Joins(base \o c.aliases, base, c.aliases)
    BY <1>2, <1>4, Concatenated
  <2>2. new.aliases \in Seq(Texts) /\ Joins(new.aliases, base, c.aliases)
    BY <1>1, <2>1
  <2> QED BY <2>2 DEF Joins
<1>6. new.groups \in Seq(GroupRecords) /\ \A i \in DOMAIN new.groups : GroupIsSound(new.groups[i])
  <2>1. made \in Seq(GroupRecords) /\ \A i \in DOMAIN made : GroupIsSound(made[i])
    <3>1. \A g \in ToSet(discard_empty_condition_groups(c.groups)) : validate_group(g)
      BY DEF IsRefused
    <3> QED BY <1>2, <3>1, GroupsAreSound
  <2> HIDE DEF made
  <2>2. PICK t : t = old.groups \o made
    OBVIOUS
  <2>3. t \in Seq(GroupRecords) /\ Joins(t, old.groups, made)
    BY <1>3, <2>1, <2>2, Concatenated
  <2>4. \A k \in DOMAIN t : GroupIsSound(t[k])
    BY <1>3, <2>1, <2>3 DEF Joins
  <2> QED BY <1>1, <2>2, <2>3, <2>4
<1>7. IsFiniteSet(new.links) /\ \A l \in new.links : l.kind \in LinkKinds /\ l.id \in DOMAIN rules \ {id}
  <2>1. kept_links(c.links, id, rules) \in SUBSET c.links
    BY DEF kept_links
  <2>2. IsFiniteSet(old.links) /\ IsFiniteSet(kept_links(c.links, id, rules))
    BY <2>1, FS_Subset DEF IsCandidate, IsMerging, IsSaid
  <2>3. IsFiniteSet(old.links \cup kept_links(c.links, id, rules))
    BY <2>2, FS_Union
  <2> QED BY <1>1, <1>2, <1>3, <2>3 DEF kept_links
<1>8. ASSUME id \notin DOMAIN rules
      PROVE  /\ Unknown(new.name, rules)
             /\ \A i \in DOMAIN new.aliases : Unknown(new.aliases[i], rules)
  <2>1. \A t \in {c.name} \cup ToSet(c.aliases) : Unknown(t, rules)
    <3>1. ~RefusedRule(c, rules)
      BY DEF IsRefused
    <3>2. c.existing = NoId
      BY <1>8, <3>1 DEF RuleIdOf, RefusedRule, id
    <3> QED BY <3>1, <3>2 DEF RefusedRule, Unknown
  <2>2. /\ Unknown(old.name, rules)
        /\ \A i \in DOMAIN old.aliases : Unknown(old.aliases[i], rules)
    <3>1. IsSaid(id, old, rules)
      BY DEF IsMerging, id
    <3> QED BY <1>8, <3>1 DEF IsSaid
  <2>3. Unknown(c.name, rules) /\ \A i \in DOMAIN c.aliases : Unknown(c.aliases[i], rules)
    BY <2>1 DEF ToSet
  <2>4. \A k \in DOMAIN base : Unknown(base[k], rules)
    BY <1>4, <2>2, <2>3
  <2>5. \A k \in DOMAIN new.aliases : Unknown(new.aliases[k], rules)
    BY <1>5, <2>3, <2>4
  <2> QED BY <1>1, <2>2, <2>5
<1>9. ASSUME id \in DOMAIN rules PROVE BeginsWith(new.aliases, rules[id].aliases)
  <2>1. BeginsWith(old.aliases, rules[id].aliases)
    BY <1>9 DEF IsMerging, id
  <2> QED BY <1>4, <1>5, <2>1 DEF BeginsWith
<1>10. new.name \in Texts /\ new.summary \in Nat \ {0} /\ id = RuleId(new.name)
  BY <1>1, <1>2, <1>3
<1>14. new.texts \in [TextKinds -> Seq(Texts)]
  <2>1. \A k \in TextKinds : old.texts[k] \o c.texts[k] \in Seq(Texts)
    <3> TAKE k \in TextKinds
    <3>1. old.texts[k] \in Seq(Texts) /\ c.texts[k] \in Seq(Texts)
      BY <1>2, <1>3
    <3> QED BY <3>1, ConcatProperties
  <2>2. new.texts = texts
    OBVIOUS
  <2> QED BY <2>1, <2>2
<1>11. IsSaid(id, new, rules)
  BY <1>14, <1>5, <1>6, <1>7, <1>8, <1>10 DEF IsSaid
<1>12. new = [name |-> new.name, summary |-> new.summary, aliases |-> new.aliases,
              texts |-> new.texts, groups |-> new.groups, links |-> new.links]
  OBVIOUS
<1>13. IsMerging(id, new, rules)
  BY <1>9, <1>11, <1>12 DEF IsMerging
<1> QED BY <1>13 DEF id

\* So does every candidate.
LEMMA AddIsMerging ==
    ASSUME NEW c, IsCandidate(c), NEW rules, RulesAreSound(rules), ~IsRefused(c, rules),
           NEW merged, \A r \in DOMAIN merged : IsMerging(r, merged[r], rules)
    PROVE  \A r \in DOMAIN AddCandidate(merged, c, rules) : IsMerging(r, AddCandidate(merged, c, rules)[r], rules)
<1> DEFINE id == RuleIdOf(c)
           old == IF id \in DOMAIN merged THEN merged[id] ELSE FirstOf(c, rules)
           longer == id \notin DOMAIN rules /\ c.summary > old.summary
           some == discard_empty_condition_groups(c.groups)
           new == [name |-> old.name,
                   summary |-> IF longer THEN c.summary ELSE old.summary,
                   aliases |-> (IF KeyOf[c.name] = KeyOf[old.name] THEN old.aliases
                                ELSE Append(old.aliases, c.name)) \o c.aliases,
                   texts |-> [k \in TextKinds |-> old.texts[k] \o c.texts[k]],
                   groups |-> old.groups \o [i \in DOMAIN some |-> condition_group(some[i])],
                   links |-> old.links \cup kept_links(c.links, id, rules)]
<1>1. AddCandidate(merged, c, rules) =
          IF PassedOver(c) THEN merged ELSE [r \in DOMAIN merged \cup {id} |-> IF r = id THEN new ELSE merged[r]]
  BY DEF AddCandidate
<1>2. CASE PassedOver(c)
  BY <1>1, <1>2
<1>3. CASE ~PassedOver(c)
  <2>1. IsMerging(id, FirstOf(c, rules), rules)
    BY <1>3, FirstIsMerging DEF IsRefused
  <2>2. IsMerging(id, old, rules)
    BY <2>1
  <2>3. IsMerging(id, new, rules)
    <3>1. PICK s \in {old.summary, c.summary} : s = IF longer THEN c.summary ELSE old.summary
      OBVIOUS
    <3>2. PICK a : a = (IF KeyOf[c.name] = KeyOf[old.name] THEN old.aliases ELSE Append(old.aliases, c.name)) \o c.aliases
      OBVIOUS
    <3>3. PICK t : t = [k \in TextKinds |-> old.texts[k] \o c.texts[k]]
      OBVIOUS
    <3>4. new = [name |-> old.name, summary |-> s, aliases |-> a, texts |-> t,
                 groups |-> old.groups \o [i \in DOMAIN some |-> condition_group(some[i])],
                 links |-> old.links \cup kept_links(c.links, id, rules)]
      BY <3>1, <3>2, <3>3
    <3> HIDE DEF new, old
    <3> QED BY <1>3, <2>2, <3>2, <3>3, <3>4, CandidateIsMerging
  <2> HIDE DEF new, id
  <2> QED BY <1>1, <1>3, <2>3
<1> QED BY <1>2, <1>3

\* The change sets of the first n candidates are a function: a smallest number
\* without one would have a predecessor's, continued by one more candidate.
LEMMA MergedIs ==
    ASSUME NEW submission, Len(submission) \in Nat, NEW rules
    PROVE  Merged(submission, rules) =
               [n \in 0..Len(submission) |->
                   IF n = 0 THEN <<>> ELSE AddCandidate(Merged(submission, rules)[n - 1], submission[n], rules)]
<1> DEFINE Is(f, m) == f = [n \in 0..m |-> IF n = 0 THEN <<>> ELSE AddCandidate(f[n - 1], submission[n], rules)]
           T == {m \in Nat : ~ \E f : Is(f, m)}
<1>1. T = {}
  <2> SUFFICES ASSUME T # {} PROVE FALSE
    OBVIOUS
  <2>1. PICK m \in T : \A k \in T : m <= k
    <3>1. T \in SUBSET Nat
      OBVIOUS
    <3> HIDE DEF T
    <3> QED BY <3>1, SmallestOf
  <2>2. CASE m = 0
    <3>1. Is([n \in 0..0 |-> <<>>], 0)
      OBVIOUS
    <3> QED BY <2>1, <2>2, <3>1
  <2>3. CASE m # 0
    <3>1. m \in Nat /\ m - 1 \in Nat /\ m - 1 \notin T
      <4>1. m \in Nat
        BY <2>1
      <4>2. ~(m <= m - 1)
        BY <4>1
      <4>3. m - 1 \notin T
        <5> HIDE DEF T
        <5> QED BY <2>1, <4>2
      <4> HIDE DEF T
      <4> QED BY <2>3, <4>1, <4>3
    <3>2. PICK f : Is(f, m - 1)
      BY <3>1
    <3> DEFINE g == [n \in 0..m |-> IF n = m THEN AddCandidate(f[m - 1], submission[m], rules) ELSE f[n]]
    <3>3. \A n \in 0..m : g[n] = IF n = 0 THEN <<>> ELSE AddCandidate(g[n - 1], submission[n], rules)
      <4> TAKE n \in 0..m
      <4>1. CASE n = m
        <5>1. m - 1 \in 0..m /\ m - 1 # m /\ g[m - 1] = f[m - 1]
          BY <2>3, <3>1
        <5> QED BY <2>3, <4>1, <5>1
      <4>2. CASE n # m
        <5>1. n \in 0..(m - 1) /\ g[n] = f[n] /\ (n # 0 => n - 1 \in 0..m /\ n - 1 # m /\ g[n - 1] = f[n - 1])
          BY <3>1, <4>2
        <5>2. f[n] = IF n = 0 THEN <<>> ELSE AddCandidate(f[n - 1], submission[n], rules)
          BY <3>2, <5>1
        <5> QED BY <5>1, <5>2
      <4> QED BY <4>1, <4>2
    <3>4. Is(g, m)
      BY <3>3
    <3> QED BY <2>1, <3>4
  <2> QED BY <2>2, <2>3
<1>2. \E f : Is(f, Len(submission))
  BY <1>1
<1> QED BY <1>2 DEF Merged

\* A submission writes a finite number of rules.
LEMMA MergedIsFinite ==
    ASSUME NEW submission, Len(submission) \in Nat, NEW rules
    PROVE  IsFiniteSet(DOMAIN merge_graph_extractions(submission, rules))
<1> DEFINE f == Merged(submission, rules)
           T == {n \in 0..Len(submission) : ~ IsFiniteSet(DOMAIN f[n])}
<1>0. \A n \in 0..Len(submission) :
         f[n] = IF n = 0 THEN <<>> ELSE AddCandidate(f[n - 1], submission[n], rules)
  <2>1. f = [n \in 0..Len(submission) |->
                IF n = 0 THEN <<>> ELSE AddCandidate(f[n - 1], submission[n], rules)]
    BY MergedIs
  <2> HIDE DEF f
  <2> QED BY <2>1
<1> HIDE DEF f
<1>1. T = {}
  <2> SUFFICES ASSUME T # {} PROVE FALSE
    OBVIOUS
  <2>1. PICK n \in T : \A k \in T : n <= k
    <3>1. T \in SUBSET Nat
      OBVIOUS
    <3> HIDE DEF T
    <3> QED BY <3>1, SmallestOf
  <2>2. CASE n = 0
    <3>1. DOMAIN f[0] = {}
      BY <1>0
    <3> QED BY <2>1, <2>2, <3>1, FS_EmptySet
  <2>3. CASE n # 0
    <3>1. n - 1 \in 0..Len(submission) /\ n \in 0..Len(submission) /\ ~(n <= n - 1)
      BY <2>3
    <3>2. IsFiniteSet(DOMAIN f[n - 1])
      BY <2>1, <3>1
    <3>3. f[n] = AddCandidate(f[n - 1], submission[n], rules)
      BY <1>0, <2>3, <3>1
    <3>4. \/ f[n] = f[n - 1]
          \/ DOMAIN f[n] = DOMAIN f[n - 1] \cup {RuleIdOf(submission[n])}
      BY <3>3 DEF AddCandidate
    <3>5. ~ IsFiniteSet(DOMAIN f[n])
      BY <2>1
    <3>6. IsFiniteSet(DOMAIN f[n - 1] \cup {RuleIdOf(submission[n])})
      BY <3>2, FS_AddElement
    <3> QED BY <3>2, <3>4, <3>5, <3>6
  <2> QED BY <2>2, <2>3
<1>2. IsFiniteSet(DOMAIN f[Len(submission)])
  BY <1>1
<1>3. DOMAIN merge_graph_extractions(submission, rules) = DOMAIN f[Len(submission)]
  BY DEF merge_graph_extractions, f
<1> QED BY <1>2, <1>3

LEMMA MergedIsMerging ==
    ASSUME NEW submission, Len(submission) \in Nat, NEW rules, RulesAreSound(rules),
           \A n \in 1..Len(submission) : IsCandidate(submission[n]) /\ ~IsRefused(submission[n], rules)
    PROVE  \A n \in 0..Len(submission) : \A r \in DOMAIN Merged(submission, rules)[n] :
               IsMerging(r, Merged(submission, rules)[n][r], rules)
<1> DEFINE f == Merged(submission, rules)
           Holds(m) == \A r \in DOMAIN m : IsMerging(r, m[r], rules)
           T == {n \in 0..Len(submission) : ~Holds(f[n])}
<1>0. \A n \in 0..Len(submission) :
         f[n] = IF n = 0 THEN <<>> ELSE AddCandidate(f[n - 1], submission[n], rules)
  <2>1. f = [n \in 0..Len(submission) |->
                IF n = 0 THEN <<>> ELSE AddCandidate(f[n - 1], submission[n], rules)]
    BY MergedIs
  <2> HIDE DEF f
  <2> QED BY <2>1
<1> HIDE DEF f
<1>1. T = {}
  <2> SUFFICES ASSUME T # {} PROVE FALSE
    OBVIOUS
  <2>1. PICK n \in T : \A k \in T : n <= k
    <3>1. T \in SUBSET Nat
      OBVIOUS
    <3> HIDE DEF T
    <3> QED BY <3>1, SmallestOf
  <2>2. CASE n = 0
    <3>1. DOMAIN f[0] = {}
      BY <1>0
    <3> QED BY <2>1, <2>2, <3>1
  <2>3. CASE n # 0
    <3>1. n - 1 \in 0..Len(submission) /\ n \in 1..Len(submission) /\ ~(n <= n - 1)
      BY <2>3
    <3>2. Holds(f[n - 1])
      BY <2>1, <3>1
    <3>3. f[n] = AddCandidate(f[n - 1], submission[n], rules)
      BY <1>0, <2>3, <3>1
    <3>4. ~Holds(f[n])
      BY <2>1
    <3>5. PICK m : m = f[n - 1]
      OBVIOUS
    <3>6. PICK c : c = submission[n]
      OBVIOUS
    <3>7. IsCandidate(c) /\ ~IsRefused(c, rules)
      BY <3>1, <3>6
    <3>8. \A r \in DOMAIN AddCandidate(m, c, rules) : IsMerging(r, AddCandidate(m, c, rules)[r], rules)
      BY <3>2, <3>5, <3>7, AddIsMerging
    <3> QED BY <3>3, <3>4, <3>5, <3>6, <3>8
  <2> QED BY <2>2, <2>3
<1>2. \A n \in 0..Len(submission) : Holds(f[n])
  BY <1>1
<1> QED BY <1>2 DEF f

\* What a change set says of a rule: nothing twice, and an alias that the rule
\* has already, only in the spelling that it has.
IsChange(r, x, rules) ==
    /\ IsSaid(r, x, rules) /\ IsInjective(KeysOf(x.aliases))
    /\ \A k \in TextKinds : IsInjective(KeysOf(x.texts[k]))
    /\ \A i, j \in DOMAIN x.groups : GroupKey(x.groups[i]) = GroupKey(x.groups[j]) => i = j
    /\ r \in DOMAIN rules =>
          \A i \in DOMAIN x.aliases, j \in DOMAIN rules[r].aliases :
              KeyOf[x.aliases[i]] = KeyOf[rules[r].aliases[j]] => x.aliases[i] = rules[r].aliases[j]

LEMMA UniqueIsChange ==
    ASSUME NEW rules, RulesAreSound(rules), NEW r, NEW x, IsMerging(r, x, rules),
           NEW texts, texts = [k \in TextKinds |-> unique_texts(x.texts[k])]
    PROVE  IsChange(r, [x EXCEPT !.aliases = unique_texts(@), !.groups = unique_condition_groups(@),
                                 !.texts = texts], rules)
<1> DEFINE u == unique_texts(x.aliases)
           P == {i \in DOMAIN x.groups : \A j \in 1..(i - 1) : GroupKey(x.groups[j]) # GroupKey(x.groups[i])}
           groups == unique_condition_groups(x.groups)
<1>1. PICK y : y = [x EXCEPT !.aliases = unique_texts(@), !.groups = unique_condition_groups(@), !.texts = texts]
  OBVIOUS
<1>2. y.name = x.name /\ y.summary = x.summary /\ y.links = x.links /\ y.aliases = u /\ y.groups = groups
      /\ y.texts = texts
  <2>1. x = [name |-> x.name, summary |-> x.summary, aliases |-> x.aliases,
             texts |-> x.texts, groups |-> x.groups, links |-> x.links]
    BY DEF IsMerging
  <2> QED BY <1>1, <2>1
<1>3. IsSaid(r, x, rules)
  BY DEF IsMerging
<1>4. x.aliases \in Seq(Texts) /\ x.groups \in Seq(GroupRecords)
  BY <1>3 DEF IsSaid
<1>5. UniqueOf(u, x.aliases)
  BY <1>4, UniqueTexts
<1>6. groups \in Seq(GroupRecords) /\ \A i \in DOMAIN groups : GroupIsSound(groups[i])
  <2>1. groups = At(x.groups, P)
    BY DEF unique_condition_groups
  <2>2. P \in SUBSET DOMAIN x.groups
    OBVIOUS
  <2> HIDE DEF groups, P
  <2>3. groups \in Seq(GroupRecords) /\ Picks(groups, x.groups, P)
    BY <1>4, <2>1, <2>2, AtIs
  <2>4. \A i \in DOMAIN groups : \E p \in DOMAIN x.groups : groups[i] = x.groups[p]
    BY <2>2, <2>3 DEF Picks
  <2> QED BY <1>3, <2>3, <2>4 DEF IsSaid
<1>11. \A i, j \in DOMAIN groups : GroupKey(groups[i]) = GroupKey(groups[j]) => i = j
  <2>1. groups = At(x.groups, P)
    BY DEF unique_condition_groups
  <2>2. P \in SUBSET DOMAIN x.groups
    OBVIOUS
  <2>3. \A p, q \in P : GroupKey(x.groups[p]) = GroupKey(x.groups[q]) => p = q
    <3> SUFFICES ASSUME NEW p \in P, NEW q \in P, p < q PROVE GroupKey(x.groups[p]) # GroupKey(x.groups[q])
      <4>1. \A p \in P : p \in Nat
        BY <1>4, LenProperties
      <4> QED BY <4>1
    <3>1. p \in 1..(q - 1)
      BY <1>4, LenProperties
    <3> QED BY <3>1
  <2> HIDE DEF groups, P
  <2>4. Picks(groups, x.groups, P)
    BY <1>4, <2>1, <2>2, AtIs
  <2>5. PICK f \in [DOMAIN groups -> P] : /\ \A k \in DOMAIN groups : groups[k] = x.groups[f[k]]
                                          /\ \A k, l \in DOMAIN groups : k # l => f[k] # f[l]
    BY <2>4 DEF Picks
  <2> QED BY <2>3, <2>5
<1>12. texts \in [TextKinds -> Seq(Texts)] /\ \A k \in TextKinds : IsInjective(KeysOf(texts[k]))
  <2>1. \A k \in TextKinds : UniqueOf(unique_texts(x.texts[k]), x.texts[k])
    <3> TAKE k \in TextKinds
    <3>1. x.texts[k] \in Seq(Texts)
      BY <1>3 DEF IsSaid
    <3> QED BY <3>1, UniqueTexts
  <2> QED BY <2>1 DEF UniqueOf
<1> HIDE DEF u, groups, P
<1>7. u \in Seq(Texts) /\ IsInjective(KeysOf(u)) /\ \A i \in DOMAIN u : \E p \in DOMAIN x.aliases : u[i] = x.aliases[p]
  BY <1>5 DEF UniqueOf
<1>8. IsSaid(r, y, rules)
  BY <1>2, <1>3, <1>6, <1>7, <1>12 DEF IsSaid
<1>9. ASSUME r \in DOMAIN rules, NEW i \in DOMAIN u, NEW j \in DOMAIN rules[r].aliases,
             KeyOf[u[i]] = KeyOf[rules[r].aliases[j]]
      PROVE  u[i] = rules[r].aliases[j]
  <2>1. /\ j \in DOMAIN x.aliases /\ x.aliases[j] = rules[r].aliases[j]
        /\ BeginsWith(x.aliases, rules[r].aliases)
    BY <1>9 DEF IsMerging, BeginsWith
  <2>2. PICK p \in DOMAIN x.aliases : /\ u[i] = x.aliases[p]
                                      /\ \A k \in 1..(p - 1) : KeyOf[x.aliases[k]] # KeyOf[x.aliases[p]]
    BY <1>5 DEF UniqueOf
  <2>3. DOMAIN x.aliases = 1..Len(x.aliases) /\ Len(x.aliases) \in Nat
    BY <1>4, LenProperties
  <2>4. p <= j
    <3>1. j \notin 1..(p - 1)
      BY <1>9, <2>1, <2>2
    <3> QED BY <2>1, <2>3, <3>1
  <2>5. rules[r].aliases \in Seq(Texts) /\ IsInjective(KeysOf(rules[r].aliases))
    BY <1>9 DEF RulesAreSound
  <2>6. DOMAIN rules[r].aliases = 1..Len(rules[r].aliases) /\ Len(rules[r].aliases) \in Nat
    BY <2>5, LenProperties
  <2>7. p \in DOMAIN rules[r].aliases
    BY <2>3, <2>4, <2>6
  <2>8. x.aliases[p] = rules[r].aliases[p]
    BY <2>1, <2>7 DEF BeginsWith
  <2>9. p = j
    <3>1. KeyOf[rules[r].aliases[p]] = KeyOf[rules[r].aliases[j]]
      BY <1>9, <2>2, <2>8
    <3>2. \A a, b \in DOMAIN rules[r].aliases :
             KeyOf[rules[r].aliases[a]] = KeyOf[rules[r].aliases[b]] => a = b
      BY <2>5 DEF IsInjective, KeysOf
    <3> QED BY <2>7, <3>1, <3>2
  <2> QED BY <2>2, <2>8, <2>9
<1>10. IsChange(r, y, rules)
  BY <1>2, <1>7, <1>8, <1>9, <1>11, <1>12 DEF IsChange
<1> QED BY <1>1, <1>10

\* A change set says of each rule what may be written.
ChangeIsSound(change, rules) == \A r \in DOMAIN change : IsChange(r, change[r], rules)

LEMMA MergeIsSound ==
    ASSUME NEW submission, Len(submission) \in Nat, NEW rules, RulesAreSound(rules),
           \A n \in 1..Len(submission) : IsCandidate(submission[n]) /\ ~IsRefused(submission[n], rules)
    PROVE  ChangeIsSound(merge_graph_extractions(submission, rules), rules)
<1> DEFINE m == Merged(submission, rules)[Len(submission)]
<1>1. \A r \in DOMAIN m : IsMerging(r, m[r], rules)
  <2>1. \A n \in 0..Len(submission) : \A r \in DOMAIN Merged(submission, rules)[n] :
           IsMerging(r, Merged(submission, rules)[n][r], rules)
    BY MergedIsMerging
  <2> QED BY <2>1
<1>2. merge_graph_extractions(submission, rules) =
         [r \in DOMAIN m |-> [m[r] EXCEPT !.aliases = unique_texts(@), !.groups = unique_condition_groups(@),
                                          !.texts = [k \in TextKinds |-> unique_texts(@[k])]]]
  BY DEF merge_graph_extractions
<1> HIDE DEF m
<1>3. ASSUME NEW r \in DOMAIN m
      PROVE  IsChange(r, [m[r] EXCEPT !.aliases = unique_texts(@), !.groups = unique_condition_groups(@),
                                      !.texts = [k \in TextKinds |-> unique_texts(@[k])]], rules)
  <2>1. PICK x : x = m[r] /\ IsMerging(r, x, rules)
    BY <1>1
  <2>2. PICK texts : texts = [k \in TextKinds |-> unique_texts(x.texts[k])]
    OBVIOUS
  <2>3. IsChange(r, [x EXCEPT !.aliases = unique_texts(@), !.groups = unique_condition_groups(@),
                              !.texts = texts], rules)
    BY <2>1, <2>2, UniqueIsChange
  <2>4. x = [name |-> x.name, summary |-> x.summary, aliases |-> x.aliases,
             texts |-> x.texts, groups |-> x.groups, links |-> x.links]
    BY <2>1 DEF IsMerging
  <2>5. [x EXCEPT !.aliases = unique_texts(@), !.groups = unique_condition_groups(@),
                  !.texts = [k \in TextKinds |-> unique_texts(@[k])]]
           = [x EXCEPT !.aliases = unique_texts(@), !.groups = unique_condition_groups(@), !.texts = texts]
    BY <2>2, <2>4
  <2> QED BY <2>1, <2>3, <2>5
<1> QED BY <1>2, <1>3 DEF ChangeIsSound

\* Every relationship that is written joins two nodes in one way.
AreEdges(edges) == \A e \in edges : e = Edge(e.from, e.kind, e.to)

LEMMA EdgesOfAreEdges ==
    ASSUME NEW change, NEW job, NEW rules
    PROVE  AreEdges(EdgesOf(change, job, rules))
<1>1. \A id, rule : AreEdges(TextEdges(id, rule))
  BY DEF AreEdges, TextEdges, Edge
<1>2. \A id, group : AreEdges(GroupEdges(id, group))
  BY DEF AreEdges, GroupEdges, Edge
<1>3. ASSUME NEW id, NEW rule PROVE AreEdges(write_named_relations(id, rule, rules))
  <2> DEFINE A == TextEdges(id, rule)
             B == UNION {GroupEdges(id, g) : g \in ToSet(rule.groups)}
             C == {Edge(id, l.kind, l.id) : l \in {k \in rule.links : k.id \in rules}}
  <2>1. write_named_relations(id, rule, rules) = A \cup B \cup C
    BY DEF write_named_relations
  <2>2. AreEdges(A)
    BY <1>1
  <2>3. AreEdges(B)
    BY <1>2 DEF AreEdges
  <2>4. AreEdges(C)
    BY DEF AreEdges, Edge
  <2> HIDE DEF A, B, C
  <2> QED BY <2>1, <2>2, <2>3, <2>4 DEF AreEdges
<1> QED BY <1>3 DEF AreEdges, EdgesOf, Edge

\* A transaction only adds to what can be read.
LEMMA WritesGrow ==
    ASSUME NEW g, NEW change, NEW section
    PROVE  /\ DOMAIN write_change_set(g, change, section).rules = DOMAIN g.rules \cup DOMAIN change
           /\ DOMAIN g.edges \subseteq DOMAIN write_change_set(g, change, section).edges
           /\ AreEdges(DOMAIN g.edges) => AreEdges(DOMAIN write_change_set(g, change, section).edges)
<1>1. DOMAIN write_change_set(g, change, section).rules = DOMAIN g.rules \cup DOMAIN change
  BY DEF write_change_set
<1>2. DOMAIN write_change_set(g, change, section).edges
        = DOMAIN g.edges \cup EdgesOf(change, section.job, DOMAIN g.rules \cup DOMAIN change)
  BY DEF write_change_set
<1> QED BY <1>1, <1>2, EdgesOfAreEdges DEF AreEdges

\* The graph and the session that writes it, as far as readers depend on them.
GraphIsReadable ==
    /\ IsFiniteSet(Rules) /\ AreEdges(DOMAIN graph.edges)
    /\ session = [pc |-> session.pc, section |-> session.section, given |-> session.given,
                  change |-> session.change, existing |-> session.existing, result |-> session.result]
    /\ IsFiniteSet(DOMAIN session.change)

GraphGrows ==
    /\ Rules \subseteq DOMAIN graph'.rules /\ DOMAIN graph.edges \subseteq DOMAIN graph'.edges
    /\ GraphIsReadable'

LEMMA WriteGrows ==
    ASSUME GraphIsReadable, graph' = write_change_set(graph, session.change, session.section)
    PROVE  /\ Rules \subseteq DOMAIN graph'.rules /\ DOMAIN graph.edges \subseteq DOMAIN graph'.edges
           /\ IsFiniteSet(DOMAIN graph'.rules) /\ AreEdges(DOMAIN graph'.edges)
<1>1. /\ DOMAIN graph'.rules = DOMAIN graph.rules \cup DOMAIN session.change
      /\ DOMAIN graph.edges \subseteq DOMAIN graph'.edges
      /\ AreEdges(DOMAIN graph.edges) => AreEdges(DOMAIN graph'.edges)
  BY WritesGrow
<1> QED BY <1>1, FS_Union DEF GraphIsReadable, Rules

\* Whatever a session does, and also when it fails, the graph only grows.
LEMMA OrganizerGrows ==
    ASSUME GraphIsReadable, NEW Candidates, NEW submissions \in SUBSET Seq(Candidates), GraphNext(submissions)
    PROVE  GraphGrows
<1>1. IsFiniteSet(DOMAIN NoSession.change)
  <2>1. DOMAIN NoSession.change = {}
    BY DEF NoSession
  <2> QED BY <2>1, FS_EmptySet
<1>2. ASSUME UNCHANGED graph, UNCHANGED session.change \/ session'.change = NoSession.change,
             session' = [pc |-> session'.pc, section |-> session'.section, given |-> session'.given,
                         change |-> session'.change, existing |-> session'.existing, result |-> session'.result]
      PROVE  GraphGrows
  BY <1>1, <1>2 DEF GraphGrows, GraphIsReadable, Rules, AreEdges, Edge
<1>3. ASSUME NEW section \in Sections, extract_graph_section(section) PROVE GraphGrows
  BY <1>2, <1>3 DEF extract_graph_section, NoSession
<1>4. ASSUME NEW submission \in submissions, submit(submission) PROVE GraphGrows
  <2> DEFINE change == merge_graph_extractions(submission, graph.rules)
  <2>1. IsFiniteSet(DOMAIN change)
    BY MergedIsFinite
  <2>2. \/ session' = [session EXCEPT !.result = NoSubmission, !.pc = "submitted"]
        \/ session' = [session EXCEPT !.given = submission, !.change = change, !.pc = "apply"]
    BY <1>4 DEF submit
  <2>3. graph' = graph
    BY <1>4 DEF submit
  <2> HIDE DEF change
  <2>4. CASE session' = [session EXCEPT !.result = NoSubmission, !.pc = "submitted"]
    BY <1>2, <2>3, <2>4 DEF GraphIsReadable
  <2>5. CASE session' = [session EXCEPT !.given = submission, !.change = change, !.pc = "apply"]
    <3>1. /\ session'.change = change
          /\ session' = [pc |-> session'.pc, section |-> session'.section, given |-> session'.given,
                         change |-> session'.change, existing |-> session'.existing, result |-> session'.result]
      BY <2>5 DEF GraphIsReadable
    <3> QED BY <2>1, <2>3, <3>1 DEF GraphGrows, GraphIsReadable, Rules, AreEdges, Edge
  <2> QED BY <2>2, <2>4, <2>5
<1>5. CASE apply_rules_read
  <2>1. graph' = graph /\ session' = [session EXCEPT !.pc = "write", !.existing = Rules \cap DOMAIN session.change]
    BY <1>5 DEF apply_rules_read
  <2> QED BY <1>2, <2>1 DEF GraphIsReadable
<1>6. CASE apply_rules_write
  <2>1. /\ graph' = write_change_set(graph, session.change, session.section)
        /\ session' = [NoSession EXCEPT !.pc = "submitted", !.section = session.section,
                          !.result = apply_result(session.change, session.existing)]
    BY <1>6 DEF apply_rules_write
  <2>2. /\ session'.change = NoSession.change
        /\ session' = [pc |-> session'.pc, section |-> session'.section, given |-> session'.given,
                       change |-> session'.change, existing |-> session'.existing, result |-> session'.result]
    BY <2>1 DEF NoSession
  <2> QED BY <1>1, <2>1, <2>2, WriteGrows DEF GraphGrows, GraphIsReadable, Rules
<1>7. CASE go_on
  <2>1. graph' = graph /\ session' = [session EXCEPT !.pc = "model"]
    BY <1>7 DEF go_on
  <2> QED BY <1>2, <2>1 DEF GraphIsReadable
<1>8. CASE finalize
  BY <1>2, <1>8 DEF finalize, NoSession
<1>9. CASE fail
  <2>1. session' = NoSession
    BY <1>9 DEF fail
  <2>2. /\ session'.change = NoSession.change
        /\ session' = [pc |-> session'.pc, section |-> session'.section, given |-> session'.given,
                       change |-> session'.change, existing |-> session'.existing, result |-> session'.result]
    BY <2>1 DEF NoSession
  <2>3. CASE UNCHANGED graph
    BY <1>2, <2>2, <2>3
  <2>4. CASE graph' = write_change_set(graph, session.change, session.section)
    BY <1>1, <2>2, <2>4, WriteGrows DEF GraphGrows, GraphIsReadable, Rules
  <2> QED BY <1>9, <2>3, <2>4 DEF fail
<1> QED BY <1>3, <1>4, <1>5, <1>6, <1>7, <1>8, <1>9 DEF GraphNext

(***************************************************************************)
(* What a write leaves in the graph.                                       *)
(***************************************************************************)

\* An added alias is in none of the spellings that the rule has.
LEMMA WrittenRule ==
    ASSUME NEW rules, RulesAreSound(rules), NEW r, NEW x, IsChange(r, x, rules), NEW y, y = MergedRule(r, x, rules)
    PROVE  /\ y = [name |-> y.name, summary |-> y.summary, aliases |-> y.aliases]
           /\ r = RuleId(y.name) /\ y.name \in Texts /\ y.summary \in Nat \ {0}
           /\ y.aliases \in Seq(Texts) /\ IsInjective(KeysOf(y.aliases))
           /\ r \in DOMAIN rules => /\ y.name = rules[r].name /\ y.summary = rules[r].summary
                                    /\ IsPrefix(rules[r].aliases, y.aliases)
           /\ r \notin DOMAIN rules => /\ Unknown(y.name, rules)
                                       /\ \A i \in DOMAIN y.aliases : Unknown(y.aliases[i], rules)
<1>1. IsSaid(r, x, rules) /\ x.aliases \in Seq(Texts) /\ IsInjective(KeysOf(x.aliases))
  BY DEF IsChange, IsSaid
<1>2. CASE r \notin DOMAIN rules
  <2>1. y = [name |-> x.name, summary |-> x.summary, aliases |-> x.aliases]
    BY <1>2 DEF MergedRule
  <2>2. y.name = x.name /\ y.summary = x.summary /\ y.aliases = x.aliases
    BY <2>1
  <2>3. /\ x.name \in Texts /\ x.summary \in Nat \ {0} /\ r = RuleId(x.name) /\ Unknown(x.name, rules)
        /\ \A i \in DOMAIN x.aliases : Unknown(x.aliases[i], rules)
    BY <1>1, <1>2 DEF IsSaid
  <2> QED BY <1>1, <1>2, <2>1, <2>2, <2>3
<1>3. CASE r \in DOMAIN rules
  <2> DEFINE old == rules[r].aliases
             P == {i \in DOMAIN x.aliases : x.aliases[i] \notin ToSet(old)}
             more == At(x.aliases, P)
  <2>1. /\ rules[r] = [name |-> rules[r].name, summary |-> rules[r].summary, aliases |-> old]
        /\ r = RuleId(rules[r].name) /\ rules[r].name \in Texts /\ rules[r].summary \in Nat \ {0}
        /\ old \in Seq(Texts) /\ IsInjective(KeysOf(old))
    BY <1>3 DEF RulesAreSound
  <2>2. y = [rules[r] EXCEPT !.aliases = old \o more]
    BY <1>3 DEF MergedRule
  <2>3. P \in SUBSET DOMAIN x.aliases /\ \A i \in P : x.aliases[i] \notin ToSet(old)
    OBVIOUS
  <2> HIDE DEF P
  <2>4. more \in Seq(Texts) /\ Picks(more, x.aliases, P)
    BY <1>1, <2>3, AtIs
  <2>5. PICK f \in [DOMAIN more -> P] : /\ \A k \in DOMAIN more : more[k] = x.aliases[f[k]]
                                        /\ \A k, l \in DOMAIN more : k # l => f[k] # f[l]
    BY <2>4 DEF Picks
  <2> HIDE DEF more
  <2>6. \A i \in DOMAIN x.aliases, j \in DOMAIN old : KeyOf[x.aliases[i]] = KeyOf[old[j]] => x.aliases[i] = old[j]
    BY <1>3 DEF IsChange
  <2>7. \A k \in DOMAIN more, j \in DOMAIN old : KeyOf[more[k]] # KeyOf[old[j]]
    <3> TAKE k \in DOMAIN more, j \in DOMAIN old
    <3>1. old[j] \in ToSet(old) /\ f[k] \in P
      BY DEF ToSet
    <3> HIDE DEF old
    <3> QED BY <2>3, <2>5, <2>6, <3>1
  <2>8. \A k, l \in DOMAIN more : KeyOf[more[k]] = KeyOf[more[l]] => k = l
    <3>1. \A a, b \in DOMAIN x.aliases : KeyOf[x.aliases[a]] = KeyOf[x.aliases[b]] => a = b
      BY <1>1 DEF IsInjective, KeysOf
    <3> QED BY <2>3, <2>5, <3>1
  <2>9. \A k, l \in DOMAIN old : KeyOf[old[k]] = KeyOf[old[l]] => k = l
    <3> HIDE DEF old
    <3> QED BY <2>1 DEF IsInjective, KeysOf
  <2> HIDE DEF old
  <2>10. PICK all : all = old \o more
    OBVIOUS
  <2>11. /\ all \in Seq(Texts) /\ Len(all) = Len(old) + Len(more)
         /\ \A i \in 1..(Len(old) + Len(more)) : all[i] = IF i <= Len(old) THEN old[i] ELSE more[i - Len(old)]
    BY <2>1, <2>4, <2>10, ConcatProperties
  <2>12. /\ DOMAIN old = 1..Len(old) /\ Len(old) \in Nat /\ DOMAIN more = 1..Len(more) /\ Len(more) \in Nat
         /\ DOMAIN all = 1..(Len(old) + Len(more))
    BY <2>1, <2>4, <2>11, LenProperties
  <2>13. ASSUME NEW a \in DOMAIN all, NEW b \in DOMAIN all, KeyOf[all[a]] = KeyOf[all[b]] PROVE a = b
    <3>1. /\ a <= Len(old) => a \in DOMAIN old /\ all[a] = old[a]
          /\ ~(a <= Len(old)) => a - Len(old) \in DOMAIN more /\ all[a] = more[a - Len(old)]
      BY <2>11, <2>12
    <3>2. /\ b <= Len(old) => b \in DOMAIN old /\ all[b] = old[b]
          /\ ~(b <= Len(old)) => b - Len(old) \in DOMAIN more /\ all[b] = more[b - Len(old)]
      BY <2>11, <2>12
    <3>3. CASE a <= Len(old) /\ b <= Len(old)
      BY <2>9, <2>13, <3>1, <3>2, <3>3
    <3>4. CASE ~(a <= Len(old)) /\ ~(b <= Len(old))
      <4>1. a - Len(old) = b - Len(old)
        BY <2>8, <2>13, <3>1, <3>2, <3>4
      <4> QED BY <2>12, <4>1
    <3>5. ~(a <= Len(old) /\ ~(b <= Len(old))) /\ ~(b <= Len(old) /\ ~(a <= Len(old)))
      BY <2>7, <2>13, <3>1, <3>2
    <3> QED BY <3>3, <3>4, <3>5
  <2>14. IsInjective(KeysOf(all))
    BY <2>13 DEF IsInjective, KeysOf
  <2>15. IsPrefix(old, all)
    <3>1. SubSeq(all, 1, Len(old)) = old
      <4>1. \A i \in 1..Len(old) : all[i] \in Texts
        BY <2>11, <2>12, LenProperties
      <4>2. /\ SubSeq(all, 1, Len(old)) \in Seq(Texts)
            /\ Len(SubSeq(all, 1, Len(old))) = Len(old)
            /\ \A i \in 1..Len(old) : SubSeq(all, 1, Len(old))[i] = all[i]
        BY <2>12, <4>1, SubSeqProperties
      <4>3. \A i \in 1..Len(old) : SubSeq(all, 1, Len(old))[i] = old[i]
        BY <2>11, <2>12, <4>2
      <4> QED BY <2>1, <4>2, <4>3, SeqEqual
    <3> QED BY <2>11, <2>12, <3>1 DEF IsPrefix
  <2>16. /\ y.name = rules[r].name /\ y.summary = rules[r].summary /\ y.aliases = all
         /\ y = [name |-> y.name, summary |-> y.summary, aliases |-> y.aliases]
    <3>1. y = [rules[r] EXCEPT !.aliases = all]
      BY <2>2, <2>10
    <3> QED BY <2>1, <3>1
  <2> QED BY <1>3, <2>1, <2>11, <2>14, <2>15, <2>16 DEF old
<1> QED BY <1>2, <1>3

\* What the relationships of a group of conditions say.
LEMMA GroupEdgesAre ==
    ASSUME NEW id, NEW g
    PROVE  /\ \A e \in GroupEdges(id, g) :
                 /\ e.kind \in {"HAS_CONDITION_GROUP", "REQUIRES", "EXCLUDES"}
                 /\ e.kind = "HAS_CONDITION_GROUP" => e.to = GroupId(id, g)
                 /\ e.kind = "REQUIRES" => e.from = GroupId(id, g) /\ e.to[2] \in GroupKey(g)[1]
                 /\ e.kind = "EXCLUDES" => e.from = GroupId(id, g) /\ e.to[2] \in GroupKey(g)[2]
           /\ \A k \in GroupKey(g)[1] :
                 \E d \in GroupEdges(id, g) : d.from = GroupId(id, g) /\ d.kind = "REQUIRES" /\ d.to[2] = k
           /\ \A k \in GroupKey(g)[2] :
                 \E d \in GroupEdges(id, g) : d.from = GroupId(id, g) /\ d.kind = "EXCLUDES" /\ d.to[2] = k
<1> DEFINE to == GroupId(id, g)
<1> HIDE DEF to
<1>1. GroupKey(g)[1] = ToSet(KeysOf(g.all_of)) /\ GroupKey(g)[2] = ToSet(KeysOf(g.none_of))
  BY DEF GroupKey
<1>2. /\ \A k \in GroupKey(g)[1] : \E t \in ToSet(g.all_of) : KeyOf[t] = k
      /\ \A k \in GroupKey(g)[2] : \E t \in ToSet(g.none_of) : KeyOf[t] = k
      /\ \A t \in ToSet(g.all_of) : KeyOf[t] \in GroupKey(g)[1]
      /\ \A t \in ToSet(g.none_of) : KeyOf[t] \in GroupKey(g)[2]
  BY <1>1 DEF ToSet, KeysOf
<1>3. \A t : ConditionId(t)[2] = KeyOf[t]
  BY DEF ConditionId
<1>4. /\ \A t \in ToSet(g.all_of) : Edge(to, "REQUIRES", ConditionId(t)) \in GroupEdges(id, g)
      /\ \A t \in ToSet(g.none_of) : Edge(to, "EXCLUDES", ConditionId(t)) \in GroupEdges(id, g)
      /\ \A e \in GroupEdges(id, g) :
            \/ e = Edge(id, "HAS_CONDITION_GROUP", to)
            \/ \E t \in ToSet(g.all_of) : e = Edge(to, "REQUIRES", ConditionId(t))
            \/ \E t \in ToSet(g.none_of) : e = Edge(to, "EXCLUDES", ConditionId(t))
  BY DEF GroupEdges, to
<1>5. \A a, k, b : Edge(a, k, b).from = a /\ Edge(a, k, b).kind = k /\ Edge(a, k, b).to = b
  BY DEF Edge
<1>6. \A e \in GroupEdges(id, g) :
         /\ e.kind \in {"HAS_CONDITION_GROUP", "REQUIRES", "EXCLUDES"}
         /\ e.kind = "HAS_CONDITION_GROUP" => e.to = to
         /\ e.kind = "REQUIRES" => e.from = to /\ e.to[2] \in GroupKey(g)[1]
         /\ e.kind = "EXCLUDES" => e.from = to /\ e.to[2] \in GroupKey(g)[2]
  <2> TAKE e \in GroupEdges(id, g)
  <2>1. CASE e = Edge(id, "HAS_CONDITION_GROUP", to)
    BY <1>5, <2>1
  <2>2. CASE \E t \in ToSet(g.all_of) : e = Edge(to, "REQUIRES", ConditionId(t))
    BY <1>2, <1>3, <1>5, <2>2
  <2>3. CASE \E t \in ToSet(g.none_of) : e = Edge(to, "EXCLUDES", ConditionId(t))
    BY <1>2, <1>3, <1>5, <2>3
  <2> QED BY <1>4, <2>1, <2>2, <2>3
<1>7. \A k \in GroupKey(g)[1] : \E d \in GroupEdges(id, g) : d.from = to /\ d.kind = "REQUIRES" /\ d.to[2] = k
  BY <1>2, <1>3, <1>4, <1>5
<1>8. \A k \in GroupKey(g)[2] : \E d \in GroupEdges(id, g) : d.from = to /\ d.kind = "EXCLUDES" /\ d.to[2] = k
  BY <1>2, <1>3, <1>4, <1>5
<1> QED BY <1>6, <1>7, <1>8 DEF to

\* What a sound group requires and excludes.
LEMMA GroupKeyIs ==
    ASSUME NEW g, GroupIsSound(g)
    PROVE  GroupKey(g)[1] \cup GroupKey(g)[2] # {} /\ GroupKey(g)[1] \cap GroupKey(g)[2] = {}
<1>1. GroupKey(g)[1] = ToSet(KeysOf(g.all_of)) /\ GroupKey(g)[2] = ToSet(KeysOf(g.none_of))
  BY DEF GroupKey
<1>2. GroupKey(g)[1] \cap GroupKey(g)[2] = {}
  <2>1. /\ \A k \in GroupKey(g)[1] : \E i \in DOMAIN g.all_of : KeyOf[g.all_of[i]] = k
        /\ \A k \in GroupKey(g)[2] : \E i \in DOMAIN g.none_of : KeyOf[g.none_of[i]] = k
    BY <1>1 DEF ToSet, KeysOf
  <2> QED BY <2>1 DEF GroupIsSound
<1>3. GroupKey(g)[1] \cup GroupKey(g)[2] # {}
  <2>1. 1 \in DOMAIN g.all_of \/ 1 \in DOMAIN g.none_of
    BY NotEmpty DEF GroupIsSound
  <2>2. /\ \A i \in DOMAIN g.all_of : KeyOf[g.all_of[i]] \in GroupKey(g)[1]
        /\ \A i \in DOMAIN g.none_of : KeyOf[g.none_of[i]] \in GroupKey(g)[2]
    BY <1>1 DEF ToSet, KeysOf
  <2> QED BY <2>1, <2>2
<1> QED BY <1>2, <1>3

\* The relationships of a graph: links join two of its rules, and those of a
\* group are of one that was written as a whole.
IsLink(e, ids) == e.from \in ids /\ e.to \in ids /\ e.from # e.to
IsOfGroup(e, edges) ==
    \E id, g : GroupIsSound(g) /\ e \in GroupEdges(id, g) /\ GroupEdges(id, g) \subseteq edges
EdgeIsSound(e, edges, ids) ==
    /\ e.kind \in LinkKinds => IsLink(e, ids)
    /\ e.kind \in {"HAS_CONDITION_GROUP", "REQUIRES", "EXCLUDES"} => IsOfGroup(e, edges)
EdgesAreSound(edges, ids) == \A e \in edges : EdgeIsSound(e, edges, ids)

\* A relationship that is sound stays so beside others and further rules.
LEMMA EdgeStaysSound ==
    ASSUME NEW e, NEW edges, NEW ids, EdgeIsSound(e, edges, ids),
           NEW others, edges \subseteq others, NEW more, ids \subseteq more
    PROVE  EdgeIsSound(e, others, more)
<1>1. e.kind \in LinkKinds => IsLink(e, more)
  BY DEF EdgeIsSound, IsLink
<1>2. e.kind \in {"HAS_CONDITION_GROUP", "REQUIRES", "EXCLUDES"} => IsOfGroup(e, others)
  <2> SUFFICES ASSUME IsOfGroup(e, edges) PROVE IsOfGroup(e, others)
    BY DEF EdgeIsSound
  <2>1. PICK id, g : GroupIsSound(g) /\ e \in GroupEdges(id, g) /\ GroupEdges(id, g) \subseteq edges
    BY DEF IsOfGroup
  <2>2. GroupEdges(id, g) \subseteq others
    BY <2>1
  <2> QED BY <2>1, <2>2 DEF IsOfGroup
<1> QED BY <1>1, <1>2 DEF EdgeIsSound

\* A group that is written stands there with its own conditions, and with no
\* others unless a joining word is in one of them.
LEMMA GroupIsRead ==
    ASSUME NEW g, NEW ids, EdgesAreSound(DOMAIN g.edges, ids),
           NEW id, NEW group, GroupIsSound(group), GroupEdges(id, group) \subseteq DOMAIN g.edges,
           NEW now, now = ConditionsOf(g, GroupId(id, group)), Wordless(now[1] \cup now[2])
    PROVE  now = GroupKey(group)
<1> DEFINE to == GroupId(id, group)
           Of(kind) == {e.to[2] : e \in {d \in DOMAIN g.edges : d.from = to /\ d.kind = kind}}
<1>1. now = <<Of("REQUIRES"), Of("EXCLUDES")>>
  BY DEF ConditionsOf
<1>2. now[1] = Of("REQUIRES") /\ now[2] = Of("EXCLUDES")
  BY <1>1
<1>3. \A d \in DOMAIN g.edges : /\ d.from = to /\ d.kind = "REQUIRES" => d.to[2] \in now[1]
                                /\ d.from = to /\ d.kind = "EXCLUDES" => d.to[2] \in now[2]
  BY <1>2
<1>4. /\ \A k \in now[1] : \E d \in DOMAIN g.edges : d.from = to /\ d.kind = "REQUIRES" /\ d.to[2] = k
      /\ \A k \in now[2] : \E d \in DOMAIN g.edges : d.from = to /\ d.kind = "EXCLUDES" /\ d.to[2] = k
  BY <1>2
<1>5. now = <<now[1], now[2]>> /\ GroupKey(group) = <<GroupKey(group)[1], GroupKey(group)[2]>>
  BY <1>1 DEF GroupKey
<1> HIDE DEF Of, to
\* What such a group says is there.
<1>6. ASSUME NEW b, NEW h, GroupEdges(b, h) \subseteq DOMAIN g.edges, GroupId(b, h) = to
      PROVE  GroupKey(h)[1] \subseteq now[1] /\ GroupKey(h)[2] \subseteq now[2]
  <2>1. \A k \in GroupKey(h)[1] : \E d \in GroupEdges(b, h) : d.from = to /\ d.kind = "REQUIRES" /\ d.to[2] = k
    BY <1>6, GroupEdgesAre
  <2>2. \A k \in GroupKey(h)[2] : \E d \in GroupEdges(b, h) : d.from = to /\ d.kind = "EXCLUDES" /\ d.to[2] = k
    BY <1>6, GroupEdgesAre
  <2> QED BY <1>3, <1>6, <2>1, <2>2
<1>7. GroupKey(group)[1] \subseteq now[1] /\ GroupKey(group)[2] \subseteq now[2]
  BY <1>6 DEF to
<1>8. Wordless(GroupKey(group)[1] \cup GroupKey(group)[2])
  BY <1>7 DEF Wordless
<1>9. ASSUME NEW d \in DOMAIN g.edges, d.from = to, d.kind \in {"REQUIRES", "EXCLUDES"}
      PROVE  /\ d.kind = "REQUIRES" => d.to[2] \in GroupKey(group)[1]
             /\ d.kind = "EXCLUDES" => d.to[2] \in GroupKey(group)[2]
  <2>1. IsOfGroup(d, DOMAIN g.edges)
    BY <1>9 DEF EdgesAreSound, EdgeIsSound
  <2>2. PICK b, h : GroupIsSound(h) /\ d \in GroupEdges(b, h) /\ GroupEdges(b, h) \subseteq DOMAIN g.edges
    BY <2>1 DEF IsOfGroup
  <2>3. /\ d.from = GroupId(b, h)
        /\ d.kind = "REQUIRES" => d.to[2] \in GroupKey(h)[1]
        /\ d.kind = "EXCLUDES" => d.to[2] \in GroupKey(h)[2]
    BY <1>9, <2>2, GroupEdgesAre
  <2>4. GroupKey(h)[1] \subseteq now[1] /\ GroupKey(h)[2] \subseteq now[2]
    BY <1>6, <1>9, <2>2, <2>3
  <2>5. Wordless(GroupKey(h)[1] \cup GroupKey(h)[2])
    BY <2>4 DEF Wordless
  <2>6. KeysOf(group.all_of) = KeysOf(h.all_of) /\ KeysOf(group.none_of) = KeysOf(h.none_of)
    <3>1. GroupId(id, group) = GroupId(b, h)
      BY <1>9, <2>3 DEF to
    <3> QED BY <1>8, <2>2, <2>5, <3>1, GroupIdTells
  <2>7. GroupKey(group) = GroupKey(h)
    BY <2>6 DEF GroupKey
  <2> QED BY <2>3, <2>7
<1>10. now[1] = GroupKey(group)[1]
  <2>1. ASSUME NEW k \in now[1] PROVE k \in GroupKey(group)[1]
    <3>1. PICK d \in DOMAIN g.edges : d.from = to /\ d.kind = "REQUIRES" /\ d.to[2] = k
      BY <1>4
    <3> QED BY <1>9, <3>1
  <2> QED BY <1>7, <2>1
<1>11. now[2] = GroupKey(group)[2]
  <2>1. ASSUME NEW k \in now[2] PROVE k \in GroupKey(group)[2]
    <3>1. PICK d \in DOMAIN g.edges : d.from = to /\ d.kind = "EXCLUDES" /\ d.to[2] = k
      BY <1>4
    <3> QED BY <1>9, <3>1
  <2> QED BY <1>7, <2>1
<1> QED BY <1>5, <1>10, <1>11

\* A change set writes such relationships, and its own sources.
LEMMA WrittenEdges ==
    ASSUME NEW rules, NEW change, ChangeIsSound(change, rules), NEW job
    PROVE  LET ids == DOMAIN rules \cup DOMAIN change
               edges == EdgesOf(change, job, ids)
           IN /\ EdgesAreSound(edges, ids)
              /\ \A e \in edges : e.kind = "SOURCED_FROM" => e.from \in DOMAIN change /\ e.to = SourceId(job)
              /\ \A id \in DOMAIN change : Edge(id, "SOURCED_FROM", SourceId(job)) \in edges
<1> DEFINE ids == DOMAIN rules \cup DOMAIN change
           edges == EdgesOf(change, job, ids)
           Groups(id) == UNION {GroupEdges(id, g) : g \in ToSet(change[id].groups)}
           Links(id) == {Edge(id, l.kind, l.id) : l \in {k \in change[id].links : k.id \in ids}}
           Source(id) == Edge(id, "SOURCED_FROM", SourceId(job))
<1>1. \A id \in DOMAIN change : Groups(id) \subseteq edges /\ Source(id) \in edges
  BY DEF EdgesOf, write_named_relations
<1>2. ASSUME NEW e \in edges
      PROVE  \E id \in DOMAIN change : \/ e \in TextEdges(id, change[id]) \/ e \in Groups(id)
                                       \/ e \in Links(id) \/ e = Source(id)
  BY <1>2 DEF EdgesOf, write_named_relations
<1>3. \A a, k, b : Edge(a, k, b).from = a /\ Edge(a, k, b).kind = k /\ Edge(a, k, b).to = b
  BY DEF Edge
<1>4. \A id \in DOMAIN change : IsSaid(id, change[id], rules)
  BY DEF ChangeIsSound, IsChange
<1>5. \A id \in DOMAIN change : \A e \in TextEdges(id, change[id]) : e.kind \in TextKinds
  BY <1>3 DEF TextEdges
<1>6. ASSUME NEW id \in DOMAIN change, NEW e \in Links(id)
      PROVE  e.kind \in LinkKinds /\ IsLink(e, ids)
  <2>1. PICK l \in change[id].links : l.id \in ids /\ e = Edge(id, l.kind, l.id)
    OBVIOUS
  <2>2. l.kind \in LinkKinds /\ l.id # id
    BY <1>4, <2>1 DEF IsSaid
  <2> QED BY <1>3, <2>1, <2>2 DEF IsLink
<1>7. ASSUME NEW id \in DOMAIN change, NEW e \in Groups(id)
      PROVE  \E g : GroupIsSound(g) /\ e \in GroupEdges(id, g) /\ GroupEdges(id, g) \subseteq Groups(id)
  <2>1. PICK g \in ToSet(change[id].groups) : e \in GroupEdges(id, g)
    OBVIOUS
  <2>2. GroupIsSound(g)
    BY <1>4, <2>1 DEF IsSaid, ToSet
  <2> QED BY <2>1, <2>2
<1> HIDE DEF edges, Groups, Links, Source
<1>8. ASSUME NEW e \in edges
      PROVE  /\ EdgeIsSound(e, edges, ids)
             /\ e.kind = "SOURCED_FROM" => e.from \in DOMAIN change /\ e.to = SourceId(job)
  <2>1. PICK id \in DOMAIN change : \/ e \in TextEdges(id, change[id]) \/ e \in Groups(id)
                                    \/ e \in Links(id) \/ e = Source(id)
    BY <1>2
  <2>2. CASE e \in TextEdges(id, change[id])
    BY <1>5, <2>2 DEF TextKinds, LinkKinds, EdgeIsSound
  <2>3. CASE e \in Links(id)
    BY <1>6, <2>3 DEF LinkKinds, EdgeIsSound
  <2>4. CASE e = Source(id)
    BY <1>3, <2>4 DEF LinkKinds, Source, EdgeIsSound
  <2>5. CASE e \in Groups(id)
    <3>1. PICK g : GroupIsSound(g) /\ e \in GroupEdges(id, g) /\ GroupEdges(id, g) \subseteq Groups(id)
      BY <1>7, <2>5
    <3>2. IsOfGroup(e, edges)
      BY <1>1, <3>1 DEF IsOfGroup
    <3>3. e.kind \in {"HAS_CONDITION_GROUP", "REQUIRES", "EXCLUDES"}
      BY <3>1, GroupEdgesAre
    <3> QED BY <3>2, <3>3 DEF LinkKinds, EdgeIsSound
  <2> QED BY <2>1, <2>2, <2>3, <2>4, <2>5
<1>9. EdgesAreSound(edges, ids)
  BY <1>8 DEF EdgesAreSound
<1> QED BY <1>1, <1>8, <1>9 DEF edges, Source

\* What holds of a graph that sessions have written.
GraphHolds(g) ==
    /\ RulesAreSound(g.rules) /\ EdgesAreSound(DOMAIN g.edges, DOMAIN g.rules)
    /\ \A e \in DOMAIN g.edges : g.edges[e] \subseteq {s.job : s \in Sections}
    /\ g.ranges \in [DOMAIN g.rules -> SUBSET Sections]
    /\ \A r \in DOMAIN g.rules : g.ranges[r] # {}
    /\ \A e \in DOMAIN g.edges : e.kind = "SOURCED_FROM" =>
          e.from \in DOMAIN g.rules /\ \E s \in g.ranges[e.from] : e.to = SourceId(s.job)
    /\ \A r \in DOMAIN g.rules : \A s \in g.ranges[r] : Edge(r, "SOURCED_FROM", SourceId(s.job)) \in DOMAIN g.edges

\* What a write may do to a graph.
WritesOnly(g, h) ==
    /\ \A r \in DOMAIN g.rules : /\ h.rules[r].name = g.rules[r].name
                                 /\ h.rules[r].summary = g.rules[r].summary
                                 /\ IsPrefix(g.rules[r].aliases, h.rules[r].aliases)
                                 /\ g.ranges[r] \subseteq h.ranges[r]
    /\ \A e \in DOMAIN g.edges : g.edges[e] \subseteq h.edges[e]
    /\ \A r \in DOMAIN h.rules \ DOMAIN g.rules :
          Unknown(h.rules[r].name, g.rules) /\ \A i \in DOMAIN h.rules[r].aliases : Unknown(h.rules[r].aliases[i], g.rules)

LEMMA WriteIsSound ==
    ASSUME NEW g, GraphHolds(g), NEW change, ChangeIsSound(change, g.rules), NEW section \in Sections,
           NEW h, h = write_change_set(g, change, section)
    PROVE  GraphHolds(h) /\ WritesOnly(g, h)
<1> DEFINE ids == DOMAIN g.rules \cup DOMAIN change
           edges == EdgesOf(change, section.job, ids)
           written(e) == IF e \in DOMAIN g.edges THEN g.edges[e] ELSE {}
<1>1. /\ h.rules = [r \in ids |-> IF r \in DOMAIN change THEN MergedRule(r, change[r], g.rules) ELSE g.rules[r]]
      /\ h.edges = [e \in DOMAIN g.edges \cup edges |->
                       IF e \in edges THEN written(e) \cup {section.job} ELSE g.edges[e]]
      /\ h.ranges = [r \in ids |-> RangesOf(g, change, section, r)]
  BY DEF write_change_set
<1>2. DOMAIN h.rules = ids /\ DOMAIN h.edges = DOMAIN g.edges \cup edges /\ DOMAIN h.ranges = ids
  BY <1>1
<1>3. /\ EdgesAreSound(edges, ids)
      /\ \A e \in edges : e.kind = "SOURCED_FROM" => e.from \in DOMAIN change /\ e.to = SourceId(section.job)
      /\ \A id \in DOMAIN change : Edge(id, "SOURCED_FROM", SourceId(section.job)) \in edges
  BY WrittenEdges
<1>4. /\ g.ranges \in [DOMAIN g.rules -> SUBSET Sections] /\ \A r \in DOMAIN g.rules : g.ranges[r] # {}
      /\ \A e \in DOMAIN g.edges : g.edges[e] \subseteq {s.job : s \in Sections}
      /\ RulesAreSound(g.rules) /\ EdgesAreSound(DOMAIN g.edges, DOMAIN g.rules)
      /\ \A e \in DOMAIN g.edges : e.kind = "SOURCED_FROM" =>
            e.from \in DOMAIN g.rules /\ \E s \in g.ranges[e.from] : e.to = SourceId(s.job)
      /\ \A r \in DOMAIN g.rules : \A s \in g.ranges[r] : Edge(r, "SOURCED_FROM", SourceId(s.job)) \in DOMAIN g.edges
  BY DEF GraphHolds
<1> HIDE DEF edges
<1>5. ASSUME NEW r \in DOMAIN change
      PROVE  LET y == h.rules[r]
             IN /\ y = [name |-> y.name, summary |-> y.summary, aliases |-> y.aliases]
                /\ r = RuleId(y.name) /\ y.name \in Texts /\ y.summary \in Nat \ {0}
                /\ y.aliases \in Seq(Texts) /\ IsInjective(KeysOf(y.aliases))
                /\ r \in DOMAIN g.rules => /\ y.name = g.rules[r].name /\ y.summary = g.rules[r].summary
                                           /\ IsPrefix(g.rules[r].aliases, y.aliases)
                /\ r \notin DOMAIN g.rules => /\ Unknown(y.name, g.rules)
                                              /\ \A i \in DOMAIN y.aliases : Unknown(y.aliases[i], g.rules)
  <2>1. IsChange(r, change[r], g.rules)
    BY DEF ChangeIsSound
  <2>2. PICK y : y = MergedRule(r, change[r], g.rules)
    OBVIOUS
  <2>3. h.rules[r] = y
    BY <1>1, <2>2
  <2> QED BY <1>4, <2>1, <2>2, <2>3, WrittenRule
<1>6. \A r \in DOMAIN g.rules \ DOMAIN change : h.rules[r] = g.rules[r]
  BY <1>1
<1>7. RulesAreSound(h.rules)
  <2> SUFFICES ASSUME NEW r \in DOMAIN h.rules
               PROVE  LET y == h.rules[r]
                      IN /\ y = [name |-> y.name, summary |-> y.summary, aliases |-> y.aliases]
                         /\ r = RuleId(y.name) /\ y.name \in Texts /\ y.summary \in Nat \ {0}
                         /\ y.aliases \in Seq(Texts) /\ IsInjective(KeysOf(y.aliases))
    BY DEF RulesAreSound
  <2>1. CASE r \in DOMAIN change
    BY <1>5, <2>1
  <2>2. CASE r \notin DOMAIN change
    <3>1. r \in DOMAIN g.rules /\ h.rules[r] = g.rules[r]
      BY <1>2, <1>6, <2>2
    <3> QED BY <1>4, <3>1 DEF RulesAreSound
  <2> QED BY <2>1, <2>2
<1>8. EdgesAreSound(DOMAIN h.edges, DOMAIN h.rules)
  <2> SUFFICES ASSUME NEW e \in DOMAIN h.edges PROVE EdgeIsSound(e, DOMAIN h.edges, DOMAIN h.rules)
    BY DEF EdgesAreSound
  <2>1. CASE e \in DOMAIN g.edges
    <3>1. EdgeIsSound(e, DOMAIN g.edges, DOMAIN g.rules)
      BY <1>4, <2>1 DEF EdgesAreSound
    <3> QED BY <1>2, <3>1, EdgeStaysSound
  <2>2. CASE e \in edges
    <3>1. EdgeIsSound(e, edges, ids)
      BY <1>3, <2>2 DEF EdgesAreSound
    <3> QED BY <1>2, <3>1, EdgeStaysSound
  <2> QED BY <1>2, <2>1, <2>2
<1>9. \A e \in DOMAIN h.edges : h.edges[e] \subseteq {s.job : s \in Sections}
  <2>1. section.job \in {s.job : s \in Sections}
    OBVIOUS
  <2> QED BY <1>1, <1>4, <2>1
<1>10. \A r \in ids : /\ RangesOf(g, change, section, r) \in SUBSET Sections
                      /\ RangesOf(g, change, section, r) # {}
  BY <1>4 DEF RangesOf
<1>11. h.ranges \in [DOMAIN h.rules -> SUBSET Sections] /\ \A r \in DOMAIN h.rules : h.ranges[r] # {}
  BY <1>1, <1>2, <1>10
<1>12. /\ \A r \in DOMAIN g.rules : g.ranges[r] \subseteq h.ranges[r]
       /\ \A r \in DOMAIN change : section \in h.ranges[r]
       /\ \A r \in ids : \A s \in h.ranges[r] : \/ r \in DOMAIN g.rules /\ s \in g.ranges[r]
                                                \/ r \in DOMAIN change /\ s = section
  <2>1. DOMAIN g.ranges = DOMAIN g.rules
    BY <1>4
  <2> QED BY <1>1, <2>1 DEF RangesOf
<1>13. \A e \in DOMAIN h.edges : e.kind = "SOURCED_FROM" =>
          e.from \in DOMAIN h.rules /\ \E s \in h.ranges[e.from] : e.to = SourceId(s.job)
  <2> SUFFICES ASSUME NEW e \in DOMAIN h.edges, e.kind = "SOURCED_FROM"
               PROVE  e.from \in DOMAIN h.rules /\ \E s \in h.ranges[e.from] : e.to = SourceId(s.job)
    OBVIOUS
  <2>1. CASE e \in DOMAIN g.edges
    <3>1. PICK s \in g.ranges[e.from] : e.from \in DOMAIN g.rules /\ e.to = SourceId(s.job)
      BY <1>4, <2>1
    <3> QED BY <1>2, <1>12, <3>1
  <2>2. CASE e \in edges
    BY <1>2, <1>3, <1>12, <2>2
  <2> QED BY <1>2, <2>1, <2>2
<1>14. \A r \in DOMAIN h.rules : \A s \in h.ranges[r] : Edge(r, "SOURCED_FROM", SourceId(s.job)) \in DOMAIN h.edges
  BY <1>2, <1>3, <1>4, <1>12
<1>15. \A e \in DOMAIN g.edges : g.edges[e] \subseteq h.edges[e]
  BY <1>1
<1>16. GraphHolds(h)
  BY <1>7, <1>8, <1>9, <1>11, <1>13, <1>14 DEF GraphHolds
<1>17. \A r \in DOMAIN g.rules : /\ h.rules[r].name = g.rules[r].name /\ h.rules[r].summary = g.rules[r].summary
                                 /\ IsPrefix(g.rules[r].aliases, h.rules[r].aliases)
  <2> TAKE r \in DOMAIN g.rules
  <2>1. CASE r \in DOMAIN change
    BY <1>5, <2>1
  <2>2. CASE r \notin DOMAIN change
    <3>1. h.rules[r] = g.rules[r]
      BY <1>6, <2>2
    <3> QED BY <3>1 DEF IsPrefix
  <2> QED BY <2>1, <2>2
<1>18. \A r \in DOMAIN h.rules \ DOMAIN g.rules :
          Unknown(h.rules[r].name, g.rules) /\ \A i \in DOMAIN h.rules[r].aliases : Unknown(h.rules[r].aliases[i], g.rules)
  BY <1>2, <1>5
<1>19. WritesOnly(g, h)
  BY <1>12, <1>15, <1>17, <1>18 DEF WritesOnly
<1> QED BY <1>16, <1>19

(***************************************************************************)
(* The sessions.                                                           *)
(***************************************************************************)

\* What a session is about to write fits the graph, which no one else writes.
SessionHolds ==
    /\ session.pc \in {"none", "model", "apply", "write", "submitted"}
    /\ session.pc # "none" => session.section \in Sections
    /\ session.pc \in {"apply", "write"} => ChangeIsSound(session.change, graph.rules)
    /\ session.pc = "write" => session.existing = Rules \cap DOMAIN session.change
\* What a session that has submitted will add to the progress is in the graph.
ToCount == IF session.pc = "submitted" THEN session.result.created ELSE 0
CountHolds ==
    /\ done \subseteq Sections /\ counted \in Nat /\ submits \in Nat /\ failures \in Nat
    /\ session.result.created \in Nat
    /\ counted + ToCount <= Cardinality(Rules)
RuleInv == GraphIsReadable /\ GraphHolds(graph) /\ SessionHolds /\ CountHolds

LEMMA RuleInvAtFirst ==
    ASSUME GraphInit PROVE RuleInv
<1>1. /\ graph.rules = <<>> /\ graph.edges = <<>> /\ graph.ranges = <<>> /\ session = NoSession /\ done = {}
      /\ counted = 0 /\ submits = 0 /\ failures = 0
  BY DEF GraphInit
<1>2. DOMAIN graph.rules = {} /\ DOMAIN graph.edges = {} /\ DOMAIN graph.ranges = {}
  BY <1>1
<1>3. /\ session.pc = "none" /\ session.change = <<>> /\ session.result = NoSubmission
      /\ session = [pc |-> session.pc, section |-> session.section, given |-> session.given,
                    change |-> session.change, existing |-> session.existing, result |-> session.result]
  BY <1>1 DEF NoSession
<1>4. GraphIsReadable
  <2>1. DOMAIN session.change = {}
    BY <1>3
  <2> QED BY <1>2, <1>3, <2>1, FS_EmptySet DEF GraphIsReadable, Rules, AreEdges
<1>5. graph.ranges \in [DOMAIN graph.rules -> SUBSET Sections]
  BY <1>1, <1>2
<1>6. GraphHolds(graph)
  BY <1>2, <1>5 DEF GraphHolds, RulesAreSound, EdgesAreSound
<1>7. CountHolds
  <2>1. Cardinality(Rules) = 0
    BY <1>2, FS_EmptySet DEF Rules
  <2> QED BY <1>1, <1>3, <2>1 DEF CountHolds, ToCount, NoSubmission
<1> QED BY <1>3, <1>4, <1>6, <1>7 DEF RuleInv, SessionHolds

\* What the transaction of a session does to the graph and what it may count.
LEMMA CommitIsSound ==
    ASSUME RuleInv, session.pc = "write", graph' = write_change_set(graph, session.change, session.section)
    PROVE  /\ GraphHolds(graph') /\ WritesOnly(graph, graph')
           /\ apply_result(session.change, session.existing).created \in Nat
           /\ Cardinality(Rules') = Cardinality(Rules) + apply_result(session.change, session.existing).created
           /\ Cardinality(Rules) \in Nat /\ Cardinality(Rules') \in Nat
<1>1. /\ GraphHolds(graph) /\ ChangeIsSound(session.change, graph.rules) /\ session.section \in Sections
      /\ session.existing = Rules \cap DOMAIN session.change
      /\ IsFiniteSet(Rules) /\ IsFiniteSet(DOMAIN session.change)
  BY DEF RuleInv, SessionHolds, GraphIsReadable
<1>2. GraphHolds(graph') /\ WritesOnly(graph, graph')
  BY <1>1, WriteIsSound
<1>3. Rules' = Rules \cup (DOMAIN session.change \ Rules)
  BY WritesGrow DEF Rules
<1>4. apply_result(session.change, session.existing).created = Cardinality(DOMAIN session.change \ Rules)
  <2>1. DOMAIN session.change \ session.existing = DOMAIN session.change \ Rules
    BY <1>1
  <2> QED BY <2>1 DEF apply_result
<1>5. PICK A : A = Rules
  OBVIOUS
<1>6. PICK B : B = DOMAIN session.change \ Rules
  OBVIOUS
<1>7. IsFiniteSet(A) /\ IsFiniteSet(B)
  <2>1. B \in SUBSET DOMAIN session.change
    BY <1>6
  <2> QED BY <1>1, <1>5, <2>1, FS_Subset
<1>8. A \cap B = {}
  BY <1>5, <1>6
<1>9. /\ IsFiniteSet(A \cup B)
      /\ Cardinality(A \cup B) = Cardinality(A) + Cardinality(B) - Cardinality(A \cap B)
  BY <1>7, FS_Union
<1>10. Cardinality(A) \in Nat /\ Cardinality(B) \in Nat /\ Cardinality(A \cap B) = 0
  BY <1>7, <1>8, FS_CardinalityType, FS_EmptySet
<1>11. Cardinality(A \cup B) = Cardinality(A) + Cardinality(B)
  BY <1>9, <1>10
<1> QED BY <1>2, <1>3, <1>4, <1>5, <1>6, <1>10, <1>11

\* The model of a session says what can be merged.
LEMMA SubmissionIsSound ==
    ASSUME NEW Candidates, \A c \in Candidates : IsCandidate(c), NEW submission \in Seq(Candidates),
           RuleInv, ~Refused(submission, graph.rules)
    PROVE  ChangeIsSound(merge_graph_extractions(submission, graph.rules), graph.rules)
<1>1. Len(submission) \in Nat /\ DOMAIN submission = 1..Len(submission)
  BY LenProperties
<1>2. \A n \in 1..Len(submission) : submission[n] \in Candidates /\ submission[n] \in ToSet(submission)
  BY <1>1, ElementOfSeq DEF ToSet
<1>3. \A n \in 1..Len(submission) : IsCandidate(submission[n]) /\ ~IsRefused(submission[n], graph.rules)
  BY <1>2 DEF Refused, IsRefused
<1>4. RulesAreSound(graph.rules)
  BY DEF RuleInv, GraphHolds
<1> QED BY <1>1, <1>3, <1>4, MergeIsSound

\* Every step keeps the invariant and does to the graph only what a write may do.
LEMMA RuleInvIsKept ==
    ASSUME NEW Candidates, \A c \in Candidates : IsCandidate(c), NEW submissions \in SUBSET Seq(Candidates),
           RuleInv, [GraphNext(submissions)]_graphVars
    PROVE  RuleInv' /\ (graph' = graph \/ WritesOnly(graph, graph'))
<1>1. GraphIsReadable /\ GraphHolds(graph) /\ SessionHolds /\ CountHolds
  BY DEF RuleInv
<1>2. session = [pc |-> session.pc, section |-> session.section, given |-> session.given,
                 change |-> session.change, existing |-> session.existing, result |-> session.result]
  BY <1>1 DEF GraphIsReadable
<1>3. Cardinality(Rules) \in Nat /\ counted \in Nat /\ session.result.created \in Nat
  BY <1>1, FS_CardinalityType DEF GraphIsReadable, CountHolds
<1>4. counted <= Cardinality(Rules)
  BY <1>1, <1>3 DEF CountHolds, ToCount
<1>5. GraphIsReadable'
  <2>1. CASE GraphNext(submissions)
    BY <1>1, <2>1, OrganizerGrows DEF GraphGrows
  <2>2. CASE UNCHANGED graphVars
    <3>1. graph' = graph /\ session' = session
      BY <2>2 DEF graphVars
    <3> QED BY <1>1, <3>1 DEF GraphIsReadable, Rules, AreEdges, Edge
  <2> QED BY <2>1, <2>2
<1>6. ASSUME UNCHANGED graph PROVE GraphHolds(graph)' /\ Rules' = Rules /\ Cardinality(Rules)' = Cardinality(Rules)
  BY <1>1, <1>6 DEF Rules
<1>7. ASSUME UNCHANGED graph, SessionHolds', CountHolds' PROVE RuleInv' /\ graph' = graph
  BY <1>5, <1>6, <1>7 DEF RuleInv
<1>8. /\ NoSession.pc = "none" /\ NoSession.result.created = 0
  BY DEF NoSession, NoSubmission
<1>9. ASSUME NEW s \in Sections, extract_graph_section(s) PROVE RuleInv' /\ graph' = graph
  <2>1. /\ graph' = graph /\ session' = [NoSession EXCEPT !.pc = "model", !.section = s]
        /\ UNCHANGED <<done, counted, submits, failures>>
    BY <1>9 DEF extract_graph_section
  <2>2. session'.pc = "model" /\ session'.section = s /\ session'.result.created = 0
    BY <2>1 DEF NoSession, NoSubmission
  <2>3. SessionHolds'
    BY <2>2 DEF SessionHolds
  <2>4. CountHolds'
    BY <1>1, <1>3, <1>4, <1>6, <2>1, <2>2 DEF CountHolds, ToCount
  <2> QED BY <1>7, <2>1, <2>3, <2>4
<1>10. ASSUME NEW submission \in submissions, submit(submission) PROVE RuleInv' /\ graph' = graph
  <2> DEFINE change == merge_graph_extractions(submission, graph.rules)
  <2>1. ChangeIsSound(change, graph.rules)
    BY <1>10, SubmissionIsSound DEF submit
  <2>2. /\ session.pc = "model" /\ graph' = graph /\ submits' = submits + 1
        /\ UNCHANGED <<done, counted, failures>>
        /\ \/ session' = [session EXCEPT !.result = NoSubmission, !.pc = "submitted"]
           \/ session' = [session EXCEPT !.given = submission, !.change = change, !.pc = "apply"]
    BY <1>10 DEF submit
  <2> HIDE DEF change
  <2>3. session.section \in Sections
    BY <1>1, <2>2 DEF SessionHolds
  <2>4. CASE session' = [session EXCEPT !.result = NoSubmission, !.pc = "submitted"]
    <3>1. session'.pc = "submitted" /\ session'.section = session.section /\ session'.result.created = 0
      BY <1>2, <2>4 DEF NoSubmission
    <3>2. SessionHolds'
      BY <2>3, <3>1 DEF SessionHolds
    <3>3. CountHolds'
      BY <1>1, <1>3, <1>4, <1>6, <2>2, <3>1 DEF CountHolds, ToCount
    <3> QED BY <1>7, <2>2, <3>2, <3>3
  <2>5. CASE session' = [session EXCEPT !.given = submission, !.change = change, !.pc = "apply"]
    <3>1. /\ session'.pc = "apply" /\ session'.section = session.section /\ session'.change = change
          /\ session'.result = session.result
      BY <1>2, <2>5
    <3>2. SessionHolds'
      BY <2>1, <2>2, <2>3, <3>1 DEF SessionHolds
    <3>3. CountHolds'
      BY <1>1, <1>3, <1>4, <1>6, <2>2, <3>1 DEF CountHolds, ToCount
    <3> QED BY <1>7, <2>2, <3>2, <3>3
  <2> QED BY <2>2, <2>4, <2>5
<1>11. ASSUME apply_rules_read PROVE RuleInv' /\ graph' = graph
  <2>1. /\ session.pc = "apply" /\ graph' = graph /\ UNCHANGED <<done, counted, submits, failures>>
        /\ session' = [session EXCEPT !.pc = "write", !.existing = Rules \cap DOMAIN session.change]
    BY <1>11 DEF apply_rules_read
  <2>2. /\ session'.pc = "write" /\ session'.section = session.section /\ session'.change = session.change
        /\ session'.result = session.result /\ session'.existing = Rules \cap DOMAIN session.change
    BY <1>2, <2>1
  <2>3. SessionHolds'
    BY <1>1, <2>1, <2>2 DEF SessionHolds, Rules
  <2>4. CountHolds'
    BY <1>1, <1>3, <1>4, <1>6, <2>1, <2>2 DEF CountHolds, ToCount
  <2> QED BY <1>7, <2>1, <2>3, <2>4
<1>12. ASSUME apply_rules_write PROVE RuleInv' /\ WritesOnly(graph, graph')
  <2>1. /\ session.pc = "write" /\ graph' = write_change_set(graph, session.change, session.section)
        /\ session' = [NoSession EXCEPT !.pc = "submitted", !.section = session.section,
                          !.result = apply_result(session.change, session.existing)]
        /\ UNCHANGED <<done, counted, submits, failures>>
    BY <1>12 DEF apply_rules_write
  <2>2. /\ session'.pc = "submitted" /\ session'.section = session.section
        /\ session'.result = apply_result(session.change, session.existing)
    BY <2>1 DEF NoSession
  <2>3. /\ GraphHolds(graph') /\ WritesOnly(graph, graph')
        /\ session'.result.created \in Nat
        /\ Cardinality(Rules') = Cardinality(Rules) + session'.result.created
    BY <2>1, <2>2, CommitIsSound
  <2>4. SessionHolds'
    BY <1>1, <2>1, <2>2 DEF SessionHolds
  <2>5. CountHolds'
    <3>1. done' \subseteq Sections /\ counted' = counted /\ submits' \in Nat /\ failures' \in Nat
      BY <1>1, <2>1 DEF CountHolds
    <3>2. counted + session'.result.created <= Cardinality(Rules')
      BY <1>3, <1>4, <2>3
    <3> QED BY <1>3, <2>2, <2>3, <3>1, <3>2 DEF CountHolds, ToCount
  <2> QED BY <1>5, <2>3, <2>4, <2>5 DEF RuleInv
<1>13. ASSUME go_on PROVE RuleInv' /\ graph' = graph
  <2>1. /\ session.pc = "submitted" /\ graph' = graph /\ UNCHANGED <<done, counted, submits, failures>>
        /\ session' = [session EXCEPT !.pc = "model"]
    BY <1>13 DEF go_on
  <2>2. session'.pc = "model" /\ session'.section = session.section /\ session'.result = session.result
    BY <1>2, <2>1
  <2>3. SessionHolds'
    BY <1>1, <2>1, <2>2 DEF SessionHolds
  <2>4. CountHolds'
    BY <1>1, <1>3, <1>4, <1>6, <2>1, <2>2 DEF CountHolds, ToCount
  <2> QED BY <1>7, <2>1, <2>3, <2>4
<1>14. ASSUME finalize PROVE RuleInv' /\ graph' = graph
  <2>1. /\ session.pc = "submitted" /\ graph' = graph /\ UNCHANGED <<submits, failures>>
        /\ done' = done \cup {session.section} /\ counted' = counted + session.result.created
        /\ session' = NoSession
    BY <1>14 DEF finalize
  <2>2. session'.pc = "none" /\ session'.result.created = 0
    BY <1>8, <2>1
  <2>3. SessionHolds'
    BY <2>2 DEF SessionHolds
  <2>4. CountHolds'
    <3>1. done' \subseteq Sections /\ submits' \in Nat /\ failures' \in Nat
      BY <1>1, <2>1 DEF CountHolds, SessionHolds
    <3>2. counted + session.result.created <= Cardinality(Rules)
      BY <1>1, <2>1 DEF CountHolds, ToCount
    <3> QED BY <1>3, <1>6, <2>1, <2>2, <3>1, <3>2 DEF CountHolds, ToCount
  <2> QED BY <1>7, <2>1, <2>3, <2>4
<1>15. ASSUME fail PROVE RuleInv' /\ (graph' = graph \/ WritesOnly(graph, graph'))
  <2>1. /\ session' = NoSession /\ failures' = failures + 1 /\ UNCHANGED <<done, counted, submits>>
        /\ graph' = graph \/ /\ session.pc = "write"
                             /\ graph' = write_change_set(graph, session.change, session.section)
    BY <1>15 DEF fail
  <2>2. session'.pc = "none" /\ session'.result.created = 0
    BY <1>8, <2>1
  <2>3. SessionHolds'
    BY <2>2 DEF SessionHolds
  <2>4. done' \subseteq Sections /\ counted' = counted /\ submits' \in Nat /\ failures' \in Nat
    BY <1>1, <2>1 DEF CountHolds
  <2>5. CASE graph' = graph
    <3>1. CountHolds'
      BY <1>3, <1>4, <1>6, <2>2, <2>4, <2>5 DEF CountHolds, ToCount
    <3> QED BY <1>7, <2>3, <2>5, <3>1
  <2>6. CASE session.pc = "write" /\ graph' = write_change_set(graph, session.change, session.section)
    <3>1. PICK n \in Nat : Cardinality(Rules') = Cardinality(Rules) + n /\ GraphHolds(graph') /\ WritesOnly(graph, graph')
      BY <2>6, CommitIsSound
    <3>2. counted <= Cardinality(Rules')
      BY <1>3, <1>4, <3>1
    <3>3. CountHolds'
      BY <1>3, <2>2, <2>4, <3>2 DEF CountHolds, ToCount
    <3> QED BY <1>5, <2>3, <3>1, <3>3 DEF RuleInv
  <2> QED BY <2>1, <2>5, <2>6
<1>16. CASE UNCHANGED graphVars
  <2>1. graph' = graph /\ session' = session /\ UNCHANGED <<done, counted, submits, failures>>
    BY <1>16 DEF graphVars
  <2>2. SessionHolds'
    BY <1>1, <2>1 DEF SessionHolds, Rules
  <2>3. CountHolds'
    BY <1>1, <1>6, <2>1 DEF CountHolds, ToCount
  <2> QED BY <1>7, <2>1, <2>2, <2>3
<1> QED BY <1>9, <1>10, <1>11, <1>12, <1>13, <1>14, <1>15, <1>16 DEF GraphNext

LEMMA RuleInvImplies ==
    ASSUME RuleInv PROVE GraphIsSound
<1>1. GraphIsReadable /\ GraphHolds(graph) /\ SessionHolds /\ CountHolds
  BY DEF RuleInv
<1>2. /\ RulesAreSound(graph.rules) /\ EdgesAreSound(DOMAIN graph.edges, Rules)
      /\ \A e \in DOMAIN graph.edges : graph.edges[e] \subseteq {s.job : s \in Sections}
      /\ graph.ranges \in [Rules -> SUBSET Sections] /\ \A r \in Rules : graph.ranges[r] # {}
      /\ \A e \in DOMAIN graph.edges : e.kind = "SOURCED_FROM" =>
            e.from \in Rules /\ \E s \in graph.ranges[e.from] : e.to = SourceId(s.job)
      /\ \A r \in Rules : \A s \in graph.ranges[r] : Edge(r, "SOURCED_FROM", SourceId(s.job)) \in DOMAIN graph.edges
  BY <1>1 DEF GraphHolds, Rules
<1>3. GraphTypeOK
  <2>1. {counted, submits, failures} \subseteq Nat /\ done \subseteq Sections
    BY <1>1 DEF CountHolds
  <2>2. \A r \in Rules : /\ graph.rules[r].name \in Texts /\ graph.rules[r].summary \in Nat \ {0}
                         /\ graph.rules[r].aliases \in Seq(Texts)
    BY <1>2 DEF RulesAreSound, Rules
  <2> QED BY <1>1, <1>2, <2>1, <2>2 DEF GraphTypeOK, SessionHolds
<1>4. OneRulePerName
  BY <1>2 DEF OneRulePerName, RulesAreSound, Rules
<1>5. \A e \in DOMAIN graph.edges : EdgeIsSound(e, DOMAIN graph.edges, Rules)
  BY <1>2 DEF EdgesAreSound
<1>6. EdgesJoin
  <2>1. \A e \in DOMAIN graph.edges : e.kind \in LinkKinds => {e.from, e.to} \subseteq Rules /\ e.from # e.to
    BY <1>5 DEF EdgeIsSound, IsLink
  <2>2. ASSUME NEW r \in Rules
        PROVE  {e.to : e \in {d \in DOMAIN graph.edges : d.kind = "SOURCED_FROM" /\ d.from = r}}
                  = {SourceId(s.job) : s \in graph.ranges[r]}
    <3>1. \A e \in DOMAIN graph.edges : e.kind = "SOURCED_FROM" /\ e.from = r =>
             \E s \in graph.ranges[r] : e.to = SourceId(s.job)
      BY <1>2
    <3>2. \A s \in graph.ranges[r] : \E e \in DOMAIN graph.edges :
             e.kind = "SOURCED_FROM" /\ e.from = r /\ e.to = SourceId(s.job)
      <4> TAKE s \in graph.ranges[r]
      <4>1. PICK e \in DOMAIN graph.edges : e = Edge(r, "SOURCED_FROM", SourceId(s.job))
        BY <1>2
      <4> QED BY <4>1 DEF Edge
    <3> QED BY <3>1, <3>2
  <2> QED BY <1>2, <2>1, <2>2 DEF EdgesJoin
<1>8. CreatedCountedOnce
  <2>1. Cardinality(Rules) \in Nat
    BY <1>1, FS_CardinalityType DEF GraphIsReadable
  <2>2. counted \in Nat /\ session.result.created \in Nat /\ counted + ToCount <= Cardinality(Rules)
    BY <1>1 DEF CountHolds
  <2> QED BY <2>1, <2>2 DEF CreatedCountedOnce, ToCount
<1> QED BY <1>3, <1>4, <1>6, <1>8 DEF GraphIsSound

\* Whatever is submitted, and whenever sessions fail (merge_graph_extractions,
\* GraphStore.apply_rules): rules have the ids of their names and list no alias
\* in two spellings, relationships join what exists, and no created rule is
\* counted twice.
THEOREM GraphStaysSound ==
    ASSUME NEW CONSTANT Candidates, \A c \in Candidates : IsCandidate(c),
           NEW CONSTANT submissions \in SUBSET Seq(Candidates)
    PROVE  GraphInit /\ [][GraphNext(submissions)]_graphVars => []GraphIsSound
<1>1. GraphInit => RuleInv
  BY RuleInvAtFirst
<1>2. RuleInv /\ [GraphNext(submissions)]_graphVars => RuleInv'
  BY RuleInvIsKept
<1>3. RuleInv => GraphIsSound
  BY RuleInvImplies
<1> QED BY <1>1, <1>2, <1>3, PTL

\* The agent never deletes or overwrites rules (GraphStore.apply_rules): names
\* and summaries stay, aliases, relationships and ranges are only added.
THEOREM RulesAreKept ==
    ASSUME NEW CONSTANT Candidates, \A c \in Candidates : IsCandidate(c),
           NEW CONSTANT submissions \in SUBSET Seq(Candidates)
    PROVE  GraphInit /\ [][GraphNext(submissions)]_graphVars => RulesKeep
<1> DEFINE Kept == /\ \A r \in Rules : /\ graph'.rules[r].name = graph.rules[r].name
                                       /\ graph'.rules[r].summary = graph.rules[r].summary
                                       /\ IsPrefix(graph.rules[r].aliases, graph'.rules[r].aliases)
                                       /\ graph.ranges[r] \subseteq graph'.ranges[r]
                   /\ \A e \in DOMAIN graph.edges : graph.edges[e] \subseteq graph'.edges[e]
<1>1. GraphInit => RuleInv
  BY RuleInvAtFirst
<1>2. RuleInv /\ [GraphNext(submissions)]_graphVars => RuleInv' /\ [Kept]_graph
  <2> SUFFICES ASSUME RuleInv, [GraphNext(submissions)]_graphVars PROVE RuleInv' /\ (graph' = graph \/ Kept)
    OBVIOUS
  <2>1. RuleInv' /\ (graph' = graph \/ WritesOnly(graph, graph'))
    BY RuleInvIsKept
  <2>2. WritesOnly(graph, graph') => Kept
    BY DEF WritesOnly, Rules
  <2> QED BY <2>1, <2>2
<1> QED BY <1>1, <1>2, PTL DEF RulesKeep

\* A rule is created only under a name and aliases by which no rule was known
\* (the unresolved names that merge_graph_extractions refuses).
THEOREM CreatedWereUnknown ==
    ASSUME NEW CONSTANT Candidates, \A c \in Candidates : IsCandidate(c),
           NEW CONSTANT submissions \in SUBSET Seq(Candidates)
    PROVE  GraphInit /\ [][GraphNext(submissions)]_graphVars => CreatedIsUnknown
<1> DEFINE New == \A r \in DOMAIN graph'.rules \ Rules :
                     LET rule == graph'.rules[r]
                     IN \A t \in {rule.name} \cup ToSet(rule.aliases) :
                           KeyOf[t] # NoKey => KnownBy(graph.rules, KeyOf[t]) = {}
<1>1. GraphInit => RuleInv
  BY RuleInvAtFirst
<1>2. RuleInv /\ [GraphNext(submissions)]_graphVars => RuleInv' /\ [New]_graph
  <2> SUFFICES ASSUME RuleInv, [GraphNext(submissions)]_graphVars PROVE RuleInv' /\ (graph' = graph \/ New)
    OBVIOUS
  <2>1. RuleInv' /\ (graph' = graph \/ WritesOnly(graph, graph'))
    BY RuleInvIsKept
  <2>2. WritesOnly(graph, graph') => New
    BY DEF WritesOnly, Rules, Unknown, ToSet
  <2> QED BY <2>1, <2>2
<1> QED BY <1>1, <1>2, PTL DEF CreatedIsUnknown

\* A group of conditions that is written has its conditions and no others, and
\* keeps them, whatever is written later (_write_named_relations), unless a
\* condition with "and" or "none" in it is among them.
THEOREM GroupsAreKeptApart ==
    ASSUME NEW CONSTANT Candidates, \A c \in Candidates : IsCandidate(c),
           NEW CONSTANT submissions \in SUBSET Seq(Candidates)
    PROVE  GraphInit /\ [][GraphNext(submissions)]_graphVars => ConditionsStayApart
<1> DEFINE New == \A r \in DOMAIN session.change : \A group \in ToSet(session.change[r].groups) :
                     LET now == ConditionsOf(graph', GroupId(r, group))
                     IN Wordless(now[1] \cup now[2]) =>
                           now = GroupKey(group) /\ now[1] \cup now[2] # {} /\ now[1] \cap now[2] = {}
           Old == \A e \in DOMAIN graph.edges :
                     LET now == ConditionsOf(graph', e.to)
                     IN e.kind = "HAS_CONDITION_GROUP" /\ Wordless(now[1] \cup now[2]) =>
                           now = ConditionsOf(graph, e.to)
<1>1. GraphInit => RuleInv
  BY RuleInvAtFirst
<1>2. RuleInv /\ [GraphNext(submissions)]_graphVars => RuleInv' /\ [New /\ Old]_graph
  <2> SUFFICES ASSUME RuleInv, [GraphNext(submissions)]_graphVars, graph' # graph PROVE RuleInv' /\ New /\ Old
    BY RuleInvIsKept
  <2>1. RuleInv'
    BY RuleInvIsKept
  <2>2. session.pc = "write" /\ graph' = write_change_set(graph, session.change, session.section)
    BY DEF graphVars, GraphNext, extract_graph_section, submit, apply_rules_read, apply_rules_write,
           go_on, finalize, fail
  <2>3. /\ ChangeIsSound(session.change, graph.rules)
        /\ EdgesAreSound(DOMAIN graph.edges, DOMAIN graph.rules)
        /\ EdgesAreSound(DOMAIN graph'.edges, DOMAIN graph'.rules)
    BY <2>1, <2>2 DEF RuleInv, SessionHolds, GraphHolds
  <2>4. /\ DOMAIN graph.edges \subseteq DOMAIN graph'.edges
        /\ \A r \in DOMAIN session.change : \A group \in ToSet(session.change[r].groups) :
              GroupEdges(r, group) \subseteq DOMAIN graph'.edges
    <3> DEFINE ids == DOMAIN graph.rules \cup DOMAIN session.change
               edges == EdgesOf(session.change, session.section.job, ids)
    <3>1. DOMAIN graph'.edges = DOMAIN graph.edges \cup edges
      BY <2>2 DEF write_change_set
    <3>2. \A r \in DOMAIN session.change : \A group \in ToSet(session.change[r].groups) :
              GroupEdges(r, group) \subseteq edges
      BY DEF EdgesOf, write_named_relations
    <3> QED BY <3>1, <3>2
  <2>5. New
    <3> SUFFICES ASSUME NEW r \in DOMAIN session.change, NEW group \in ToSet(session.change[r].groups),
                        NEW now, now = ConditionsOf(graph', GroupId(r, group)), Wordless(now[1] \cup now[2])
                 PROVE  now = GroupKey(group) /\ now[1] \cup now[2] # {} /\ now[1] \cap now[2] = {}
      OBVIOUS
    <3>1. GroupIsSound(group)
      BY <2>3 DEF ChangeIsSound, IsChange, IsSaid, ToSet
    <3>2. now = GroupKey(group)
      BY <2>3, <2>4, <3>1, GroupIsRead
    <3> QED BY <3>1, <3>2, GroupKeyIs
  <2>6. Old
    <3> SUFFICES ASSUME NEW e \in DOMAIN graph.edges, e.kind = "HAS_CONDITION_GROUP",
                        NEW now, now = ConditionsOf(graph', e.to), Wordless(now[1] \cup now[2])
                 PROVE  now = ConditionsOf(graph, e.to)
      OBVIOUS
    <3>1. IsOfGroup(e, DOMAIN graph.edges)
      BY <2>3 DEF EdgesAreSound, EdgeIsSound
    <3>2. PICK id, g : GroupIsSound(g) /\ e \in GroupEdges(id, g) /\ GroupEdges(id, g) \subseteq DOMAIN graph.edges
      BY <3>1 DEF IsOfGroup
    <3>3. e.to = GroupId(id, g) /\ GroupEdges(id, g) \subseteq DOMAIN graph'.edges
      BY <2>4, <3>2, GroupEdgesAre
    <3>4. now = GroupKey(g)
      BY <2>3, <3>2, <3>3, GroupIsRead
    <3>5. PICK before : before = ConditionsOf(graph, e.to)
      OBVIOUS
    <3>6. before[1] \subseteq now[1] /\ before[2] \subseteq now[2]
      BY <2>4, <3>5 DEF ConditionsOf
    <3>7. Wordless(before[1] \cup before[2])
      BY <3>6 DEF Wordless
    <3>8. before = GroupKey(g)
      BY <2>3, <3>2, <3>3, <3>5, <3>7, GroupIsRead
    <3> QED BY <3>4, <3>5, <3>8
  <2> QED BY <2>1, <2>5, <2>6
<1> QED BY <1>1, <1>2, PTL DEF ConditionsStayApart

(***************************************************************************)
(* What a submission reports.                                              *)
(***************************************************************************)

LEMMA ImageIsFinite ==
    ASSUME NEW D, IsFiniteSet(D), NEW f, DOMAIN f = D, f = [d \in D |-> f[d]]
    PROVE  IsFiniteSet({f[d] : d \in D})
<1> DEFINE T == {f[d] : d \in D}
<1>1. f \in [D -> T] /\ \A t \in T : \E d \in D : f[d] = t
  OBVIOUS
<1> HIDE DEF T
<1>2. f \in Surjection(D, T)
  BY <1>1 DEF Surjection
<1>3. IsFiniteSet(T)
  BY <1>2, FS_Surjection
<1> QED BY <1>3 DEF T

\* The items of a rule that count for a relationship each.
IsItem(x, kind, i, j) ==
    \/ kind = "SOURCED_FROM" /\ i = 0 /\ j = 0
    \/ kind \in LinkKinds /\ j = 0 /\ \E l \in x.links : l.kind = kind /\ l.id = i
    \/ kind \in TextKinds /\ j = 0 /\ i \in DOMAIN x.texts[kind]
    \/ kind = "HAS_CONDITION_GROUP" /\ j = 0 /\ i \in DOMAIN x.groups
    \/ kind = "REQUIRES" /\ i \in DOMAIN x.groups /\ j \in DOMAIN x.groups[i].all_of
    \/ kind = "EXCLUDES" /\ i \in DOMAIN x.groups /\ j \in DOMAIN x.groups[i].none_of

LEMMA ItemsAre ==
    ASSUME NEW r, NEW x, NEW rules, IsChange(r, x, rules)
    PROVE  /\ IsFiniteSet(Items(x))
           /\ \A t \in Items(x) : t = <<t[1], t[2], t[3]>> /\ IsItem(x, t[1], t[2], t[3])
           /\ \A kind, i, j : IsItem(x, kind, i, j) => <<kind, i, j>> \in Items(x)
<1> DEFINE Source == {<<"SOURCED_FROM", 0, 0>>}
           Links == {<<l.kind, l.id, 0>> : l \in x.links}
           OfKind(k) == {<<k, i, 0>> : i \in DOMAIN x.texts[k]}
           All(i) == {<<"REQUIRES", i, j>> : j \in DOMAIN x.groups[i].all_of}
           OfExcluded(i) == {<<"EXCLUDES", i, j>> : j \in DOMAIN x.groups[i].none_of}
           OfGroup(i) == {<<"HAS_CONDITION_GROUP", i, 0>>} \cup All(i) \cup OfExcluded(i)
           OfTexts == UNION {OfKind(k) : k \in TextKinds}
           OfGroups == UNION {OfGroup(i) : i \in DOMAIN x.groups}
<1>1. Items(x) = Source \cup Links \cup OfTexts \cup OfGroups
  BY DEF Items
<1>2. /\ IsFiniteSet(x.links) /\ \A l \in x.links : l.kind \in LinkKinds
      /\ x.texts \in [TextKinds -> Seq(Texts)] /\ x.groups \in Seq(GroupRecords)
      /\ \A i \in DOMAIN x.groups : GroupIsSound(x.groups[i])
  BY DEF IsChange, IsSaid
<1>3. \A S : \A s \in Seq(S) : IsFiniteSet(DOMAIN s)
  <2> SUFFICES ASSUME NEW S, NEW s \in Seq(S) PROVE IsFiniteSet(DOMAIN s)
    OBVIOUS
  <2>1. DOMAIN s = 1..Len(s) /\ Len(s) \in Nat
    BY LenProperties
  <2> QED BY <2>1, FS_Interval
<1>4. /\ IsFiniteSet(DOMAIN x.groups)
      /\ \A i \in DOMAIN x.groups : IsFiniteSet(DOMAIN x.groups[i].all_of) /\ IsFiniteSet(DOMAIN x.groups[i].none_of)
      /\ \A k \in TextKinds : IsFiniteSet(DOMAIN x.texts[k])
  BY <1>2, <1>3 DEF GroupIsSound
<1>5. IsFiniteSet(Links)
  <2>1. PICK f : f = [l \in x.links |-> <<l.kind, l.id, 0>>]
    OBVIOUS
  <2>2. Links = {f[l] : l \in x.links}
    BY <2>1
  <2>3. DOMAIN f = x.links /\ f = [l \in x.links |-> f[l]]
    BY <2>1
  <2>4. IsFiniteSet({f[l] : l \in x.links})
    BY <1>2, <2>3, ImageIsFinite
  <2> QED BY <2>2, <2>4
<1>6. IsFiniteSet(OfTexts)
  <2>1. \A k \in TextKinds : IsFiniteSet(OfKind(k))
    <3> TAKE k \in TextKinds
    <3>1. PICK f : f = [i \in DOMAIN x.texts[k] |-> <<k, i, 0>>]
      OBVIOUS
    <3>2. OfKind(k) = {f[i] : i \in DOMAIN x.texts[k]}
      BY <3>1
    <3>3. DOMAIN f = DOMAIN x.texts[k] /\ f = [i \in DOMAIN x.texts[k] |-> f[i]]
      BY <3>1
    <3>4. IsFiniteSet({f[i] : i \in DOMAIN x.texts[k]})
      BY <1>4, <3>3, ImageIsFinite
    <3> QED BY <3>2, <3>4
  <2>2. IsFiniteSet(TextKinds)
    <3>1. TextKinds = ((({"RELATES_TO"} \cup {"STRENGTHENS"}) \cup {"WEAKENS"}) \cup {"PRODUCES"}) \cup {"DOES_NOT_PROVE"}
      BY DEF TextKinds
    <3>2. \A s : IsFiniteSet({s})
      BY FS_Singleton
    <3>3. IsFiniteSet((({"RELATES_TO"} \cup {"STRENGTHENS"}) \cup {"WEAKENS"}) \cup {"PRODUCES"})
      BY <3>2, FS_AddElement
    <3> QED BY <3>1, <3>3, FS_AddElement
  <2> HIDE DEF OfKind
  <2>3. PICK f : f = [k \in TextKinds |-> OfKind(k)]
    OBVIOUS
  <2>4. {OfKind(k) : k \in TextKinds} = {f[k] : k \in TextKinds}
    BY <2>3
  <2>5. DOMAIN f = TextKinds /\ f = [k \in TextKinds |-> f[k]]
    BY <2>3
  <2>6. IsFiniteSet({f[k] : k \in TextKinds})
    BY <2>2, <2>5, ImageIsFinite
  <2>7. \A T \in {OfKind(k) : k \in TextKinds} : IsFiniteSet(T)
    BY <2>1
  <2> QED BY <2>4, <2>6, <2>7, FS_UNION
<1>7. IsFiniteSet(OfGroups)
  <2>1. ASSUME NEW i \in DOMAIN x.groups PROVE IsFiniteSet(OfGroup(i))
    <3>1. IsFiniteSet(All(i))
      <4>1. PICK f : f = [j \in DOMAIN x.groups[i].all_of |-> <<"REQUIRES", i, j>>]
        OBVIOUS
      <4>2. All(i) = {f[j] : j \in DOMAIN x.groups[i].all_of}
        BY <4>1
      <4>3. DOMAIN f = DOMAIN x.groups[i].all_of /\ f = [j \in DOMAIN x.groups[i].all_of |-> f[j]]
        BY <4>1
      <4>4. IsFiniteSet({f[j] : j \in DOMAIN x.groups[i].all_of})
        BY <1>4, <4>3, ImageIsFinite
      <4> QED BY <4>2, <4>4
    <3>2. IsFiniteSet(OfExcluded(i))
      <4>1. PICK f : f = [j \in DOMAIN x.groups[i].none_of |-> <<"EXCLUDES", i, j>>]
        OBVIOUS
      <4>2. OfExcluded(i) = {f[j] : j \in DOMAIN x.groups[i].none_of}
        BY <4>1
      <4>3. DOMAIN f = DOMAIN x.groups[i].none_of /\ f = [j \in DOMAIN x.groups[i].none_of |-> f[j]]
        BY <4>1
      <4>4. IsFiniteSet({f[j] : j \in DOMAIN x.groups[i].none_of})
        BY <1>4, <4>3, ImageIsFinite
      <4> QED BY <4>2, <4>4
    <3>3. IsFiniteSet({<<"HAS_CONDITION_GROUP", i, 0>>})
      BY FS_Singleton
    <3> HIDE DEF All, OfExcluded
    <3> QED BY <3>1, <3>2, <3>3, FS_Union
  <2> HIDE DEF OfGroup
  <2>3. PICK f : f = [i \in DOMAIN x.groups |-> OfGroup(i)]
    OBVIOUS
  <2>4. {OfGroup(i) : i \in DOMAIN x.groups} = {f[i] : i \in DOMAIN x.groups}
    BY <2>3
  <2>5. DOMAIN f = DOMAIN x.groups /\ f = [i \in DOMAIN x.groups |-> f[i]]
    BY <2>3
  <2>6. IsFiniteSet({f[i] : i \in DOMAIN x.groups})
    BY <1>4, <2>5, ImageIsFinite
  <2>7. \A T \in {OfGroup(i) : i \in DOMAIN x.groups} : IsFiniteSet(T)
    BY <2>1
  <2> QED BY <2>4, <2>6, <2>7, FS_UNION
<1>8. IsFiniteSet(Items(x))
  <2>1. IsFiniteSet(Source)
    BY FS_Singleton
  <2> HIDE DEF Source, Links, OfTexts, OfGroups
  <2> QED BY <1>1, <1>5, <1>6, <1>7, <2>1, FS_Union
<1>9. \A t \in Items(x) : t = <<t[1], t[2], t[3]>> /\ IsItem(x, t[1], t[2], t[3])
  <2> TAKE t \in Items(x)
  <2>1. CASE t \in Source
    BY <2>1 DEF IsItem
  <2>2. CASE t \in Links
    BY <1>2, <2>2 DEF IsItem
  <2>3. CASE t \in OfTexts
    <3>1. PICK k \in TextKinds : \E i \in DOMAIN x.texts[k] : t = <<k, i, 0>>
      BY <2>3
    <3> QED BY <3>1 DEF IsItem
  <2>4. CASE t \in OfGroups
    <3>1. PICK i \in DOMAIN x.groups : \/ t = <<"HAS_CONDITION_GROUP", i, 0>>
                                       \/ \E j \in DOMAIN x.groups[i].all_of : t = <<"REQUIRES", i, j>>
                                       \/ \E j \in DOMAIN x.groups[i].none_of : t = <<"EXCLUDES", i, j>>
      BY <2>4
    <3> QED BY <3>1 DEF IsItem
  <2> HIDE DEF Source, Links, OfTexts, OfGroups
  <2> QED BY <1>1, <2>1, <2>2, <2>3, <2>4
<1>10. ASSUME NEW kind, NEW i, NEW j, IsItem(x, kind, i, j) PROVE <<kind, i, j>> \in Items(x)
  <2>1. CASE kind = "SOURCED_FROM" /\ i = 0 /\ j = 0
    BY <1>1, <2>1
  <2>2. CASE kind \in LinkKinds /\ j = 0 /\ \E l \in x.links : l.kind = kind /\ l.id = i
    BY <1>1, <2>2
  <2>3. CASE kind \in TextKinds /\ j = 0 /\ i \in DOMAIN x.texts[kind]
    <3>1. <<kind, i, j>> \in OfKind(kind)
      BY <2>3
    <3> HIDE DEF OfKind
    <3> QED BY <1>1, <2>3, <3>1
  <2>4. CASE i \in DOMAIN x.groups /\ <<kind, i, j>> \in OfGroup(i)
    <3> HIDE DEF OfGroup
    <3> QED BY <1>1, <2>4
  <2> QED BY <1>10, <2>1, <2>2, <2>3, <2>4 DEF IsItem
<1> QED BY <1>8, <1>9, <1>10

\* The relationship of an item.
Relationship(id, x, job, kind, i, j) ==
    CASE kind = "SOURCED_FROM" -> Edge(id, kind, SourceId(job))
      [] kind \in LinkKinds -> Edge(id, kind, i)
      [] kind \in {"STRENGTHENS", "WEAKENS"} -> Edge(TextId(kind, x.texts[kind][i]), kind, id)
      [] kind \in {"RELATES_TO", "PRODUCES", "DOES_NOT_PROVE"} -> Edge(id, kind, TextId(kind, x.texts[kind][i]))
      [] kind = "HAS_CONDITION_GROUP" -> Edge(id, kind, GroupId(id, x.groups[i]))
      [] kind = "REQUIRES" -> Edge(GroupId(id, x.groups[i]), kind, ConditionId(x.groups[i].all_of[j]))
      [] kind = "EXCLUDES" -> Edge(GroupId(id, x.groups[i]), kind, ConditionId(x.groups[i].none_of[j]))

\* Which relationship that is, by the kind of the item.
LEMMA RelationshipIs ==
    ASSUME NEW id, NEW x, NEW job, NEW kind, NEW i, NEW j, NEW e, e = Relationship(id, x, job, kind, i, j)
    PROVE  /\ kind = "SOURCED_FROM" => e = Edge(id, kind, SourceId(job))
           /\ kind \in LinkKinds => e = Edge(id, kind, i)
           /\ kind \in {"STRENGTHENS", "WEAKENS"} => e = Edge(TextId(kind, x.texts[kind][i]), kind, id)
           /\ kind \in {"RELATES_TO", "PRODUCES", "DOES_NOT_PROVE"} => e = Edge(id, kind, TextId(kind, x.texts[kind][i]))
           /\ kind = "HAS_CONDITION_GROUP" => e = Edge(id, kind, GroupId(id, x.groups[i]))
           /\ kind = "REQUIRES" => e = Edge(GroupId(id, x.groups[i]), kind, ConditionId(x.groups[i].all_of[j]))
           /\ kind = "EXCLUDES" => e = Edge(GroupId(id, x.groups[i]), kind, ConditionId(x.groups[i].none_of[j]))
<1>1. /\ "SOURCED_FROM" \notin LinkKinds
      /\ LinkKinds \cap {"STRENGTHENS", "WEAKENS", "RELATES_TO", "PRODUCES", "DOES_NOT_PROVE",
                         "HAS_CONDITION_GROUP", "REQUIRES", "EXCLUDES"} = {}
  BY DEF LinkKinds
<1>2. CASE kind = "SOURCED_FROM"
  BY <1>1, <1>2 DEF Relationship
<1>3. CASE kind \in LinkKinds
  BY <1>1, <1>3 DEF Relationship
<1>4. CASE kind \in {"STRENGTHENS", "WEAKENS"}
  BY <1>1, <1>4 DEF Relationship
<1>5. CASE kind \in {"RELATES_TO", "PRODUCES", "DOES_NOT_PROVE"}
  BY <1>1, <1>5 DEF Relationship
<1>6. CASE kind \in {"HAS_CONDITION_GROUP", "REQUIRES", "EXCLUDES"}
  BY <1>1, <1>6 DEF Relationship
<1> QED BY <1>2, <1>3, <1>4, <1>5, <1>6

\* A text is told from the others by its key.
LEMMA TextIdIsOf ==
    ASSUME NEW kind \in TextKinds, NEW t, NEW u, TextId(kind, t) = TextId(kind, u)
    PROVE  KeyOf[t] = KeyOf[u]
<1>1. CASE kind = "RELATES_TO"
  BY <1>1 DEF TextId
<1>2. CASE kind \in {"STRENGTHENS", "WEAKENS"}
  BY <1>2 DEF TextId, ConditionId
<1>3. CASE kind \in {"PRODUCES", "DOES_NOT_PROVE"}
  BY <1>3 DEF TextId
<1> QED BY <1>1, <1>2, <1>3 DEF TextKinds

\* Two items write two relationships, unless joining words may bring two groups
\* together.
LEMMA ItemsDiffer ==
    ASSUME NEW change, NEW rules, ChangeIsSound(change, rules), NEW job,
           NEW id \in DOMAIN change, NEW k, NEW i, NEW j, IsItem(change[id], k, i, j),
           NEW d \in DOMAIN change, NEW l, NEW m, NEW n, IsItem(change[d], l, m, n),
           Relationship(id, change[id], job, k, i, j) = Relationship(d, change[d], job, l, m, n),
           GroupsAreWordless(change)
    PROVE  id = d /\ k = l /\ i = m /\ j = n
<1> DEFINE x == change[id]
           y == change[d]
<1>1. PICK e : e = Relationship(id, x, job, k, i, j) /\ e = Relationship(d, y, job, l, m, n)
  OBVIOUS
<1>2. /\ IsChange(id, x, rules) /\ IsItem(x, k, i, j) /\ IsItem(y, l, m, n) /\ (id = d => x = y)
      /\ IsChange(d, y, rules)
  BY DEF ChangeIsSound
<1>15. /\ \A a \in DOMAIN x.groups : Wordless(GroupKey(x.groups[a])[1] \cup GroupKey(x.groups[a])[2])
       /\ \A a \in DOMAIN y.groups : Wordless(GroupKey(y.groups[a])[1] \cup GroupKey(y.groups[a])[2])
  BY DEF GroupsAreWordless, ToSet
<1> HIDE DEF x, y
<1>3. \A a, b, c : Edge(a, b, c).from = a /\ Edge(a, b, c).kind = b /\ Edge(a, b, c).to = c
  BY DEF Edge
<1>4. /\ k = "SOURCED_FROM" => e = Edge(id, k, SourceId(job))
      /\ k \in LinkKinds => e = Edge(id, k, i)
      /\ k \in {"STRENGTHENS", "WEAKENS"} => e = Edge(TextId(k, x.texts[k][i]), k, id)
      /\ k \in {"RELATES_TO", "PRODUCES", "DOES_NOT_PROVE"} => e = Edge(id, k, TextId(k, x.texts[k][i]))
      /\ k = "HAS_CONDITION_GROUP" => e = Edge(id, k, GroupId(id, x.groups[i]))
      /\ k = "REQUIRES" => e = Edge(GroupId(id, x.groups[i]), k, ConditionId(x.groups[i].all_of[j]))
      /\ k = "EXCLUDES" => e = Edge(GroupId(id, x.groups[i]), k, ConditionId(x.groups[i].none_of[j]))
  <2>1. e = Relationship(id, x, job, k, i, j)
    BY <1>1
  <2> QED BY <2>1, RelationshipIs
<1>5. /\ l = "SOURCED_FROM" => e = Edge(d, l, SourceId(job))
      /\ l \in LinkKinds => e = Edge(d, l, m)
      /\ l \in {"STRENGTHENS", "WEAKENS"} => e = Edge(TextId(l, y.texts[l][m]), l, d)
      /\ l \in {"RELATES_TO", "PRODUCES", "DOES_NOT_PROVE"} => e = Edge(d, l, TextId(l, y.texts[l][m]))
      /\ l = "HAS_CONDITION_GROUP" => e = Edge(d, l, GroupId(d, y.groups[m]))
      /\ l = "REQUIRES" => e = Edge(GroupId(d, y.groups[m]), l, ConditionId(y.groups[m].all_of[n]))
      /\ l = "EXCLUDES" => e = Edge(GroupId(d, y.groups[m]), l, ConditionId(y.groups[m].none_of[n]))
  <2>1. e = Relationship(d, y, job, l, m, n)
    BY <1>1
  <2> QED BY <2>1, RelationshipIs
<1>6. e.kind = k
  <2>1. \/ k = "SOURCED_FROM" \/ k \in LinkKinds \/ k \in {"STRENGTHENS", "WEAKENS"}
        \/ k \in {"RELATES_TO", "PRODUCES", "DOES_NOT_PROVE"} \/ k = "HAS_CONDITION_GROUP"
        \/ k = "REQUIRES" \/ k = "EXCLUDES"
    BY <1>2 DEF IsItem, TextKinds
  <2> QED BY <1>3, <1>4, <2>1
<1>7. e.kind = l
  <2>1. \/ l = "SOURCED_FROM" \/ l \in LinkKinds \/ l \in {"STRENGTHENS", "WEAKENS"}
        \/ l \in {"RELATES_TO", "PRODUCES", "DOES_NOT_PROVE"} \/ l = "HAS_CONDITION_GROUP"
        \/ l = "REQUIRES" \/ l = "EXCLUDES"
    BY <1>2 DEF IsItem, TextKinds
  <2> QED BY <1>3, <1>5, <2>1
<1>8. k = l
  BY <1>6, <1>7
<1>9. /\ \A a \in DOMAIN x.groups : GroupIsSound(x.groups[a])
      /\ \A a \in DOMAIN y.groups : GroupIsSound(y.groups[a])
  BY <1>2 DEF IsChange, IsSaid
<1>10. /\ \A kind \in TextKinds : IsInjective(KeysOf(x.texts[kind]))
       /\ \A a, b \in DOMAIN x.groups : GroupKey(x.groups[a]) = GroupKey(x.groups[b]) => a = b
       /\ \A a \in DOMAIN x.groups : IsInjective(KeysOf(x.groups[a].all_of)) /\ IsInjective(KeysOf(x.groups[a].none_of))
  BY <1>2 DEF IsChange, IsSaid, GroupIsSound
<1>11. CASE k = "SOURCED_FROM"
  <2>1. i = 0 /\ j = 0 /\ m = 0 /\ n = 0
    BY <1>2, <1>8, <1>11 DEF IsItem, LinkKinds, TextKinds
  <2> QED BY <1>3, <1>4, <1>5, <1>8, <1>11, <2>1
<1>12. CASE k \in LinkKinds
  <2>1. j = 0 /\ n = 0
    BY <1>2, <1>8, <1>12 DEF IsItem, LinkKinds, TextKinds
  <2>2. e = Edge(id, k, i) /\ e = Edge(d, l, m)
    BY <1>4, <1>5, <1>8, <1>12
  <2>3. Edge(id, k, i).from = id /\ Edge(id, k, i).to = i /\ Edge(d, l, m).from = d /\ Edge(d, l, m).to = m
    BY <1>3
  <2>4. id = d /\ i = m
    BY <2>2, <2>3
  <2> QED BY <1>8, <2>1, <2>4
<1>13. CASE k \in TextKinds
  <2>1. j = 0 /\ n = 0 /\ i \in DOMAIN x.texts[k] /\ m \in DOMAIN y.texts[k]
    BY <1>2, <1>8, <1>13 DEF IsItem, LinkKinds, TextKinds
  <2>2. \/ k \in {"STRENGTHENS", "WEAKENS"} /\ l \in {"STRENGTHENS", "WEAKENS"}
        \/ k \in {"RELATES_TO", "PRODUCES", "DOES_NOT_PROVE"} /\ l \in {"RELATES_TO", "PRODUCES", "DOES_NOT_PROVE"}
    BY <1>8, <1>13 DEF TextKinds
  <2>3. id = d /\ TextId(k, x.texts[k][i]) = TextId(k, y.texts[k][m])
    BY <1>3, <1>4, <1>5, <1>8, <2>2
  <2>4. KeyOf[x.texts[k][i]] = KeyOf[x.texts[k][m]] /\ m \in DOMAIN x.texts[k]
    BY <1>2, <1>13, <2>1, <2>3, TextIdIsOf
  <2>5. \A a, b \in DOMAIN x.texts[k] : KeyOf[x.texts[k][a]] = KeyOf[x.texts[k][b]] => a = b
    BY <1>10, <1>13 DEF IsInjective, KeysOf
  <2> QED BY <1>8, <2>1, <2>3, <2>4, <2>5
<1>14. CASE k \in {"HAS_CONDITION_GROUP", "REQUIRES", "EXCLUDES"}
  <2>1. i \in DOMAIN x.groups /\ m \in DOMAIN y.groups
    BY <1>2, <1>8, <1>14 DEF IsItem, LinkKinds, TextKinds
  <2>2. GroupId(id, x.groups[i]) = GroupId(d, y.groups[m])
    BY <1>3, <1>4, <1>5, <1>8, <1>14
  <2>3. /\ id = d /\ KeysOf(x.groups[i].all_of) = KeysOf(y.groups[m].all_of)
        /\ KeysOf(x.groups[i].none_of) = KeysOf(y.groups[m].none_of)
    <3>1. PICK g : g = x.groups[i] /\ GroupIsSound(g) /\ Wordless(GroupKey(g)[1] \cup GroupKey(g)[2])
      BY <1>9, <1>15, <2>1
    <3>2. PICK h : h = y.groups[m] /\ GroupIsSound(h) /\ Wordless(GroupKey(h)[1] \cup GroupKey(h)[2])
      BY <1>9, <1>15, <2>1
    <3>3. id = d /\ KeysOf(g.all_of) = KeysOf(h.all_of) /\ KeysOf(g.none_of) = KeysOf(h.none_of)
      BY <2>2, <3>1, <3>2, GroupIdTells
    <3> QED BY <3>1, <3>2, <3>3
  <2>4. x = y /\ i = m
    <3>1. x = y
      BY <1>2, <2>3
    <3>2. GroupKey(x.groups[i]) = GroupKey(x.groups[m])
      BY <2>3, <3>1 DEF GroupKey
    <3> QED BY <1>10, <2>1, <3>1, <3>2
  <2>5. CASE k = "HAS_CONDITION_GROUP"
    <3>1. j = 0 /\ n = 0
      BY <1>2, <1>8, <2>5 DEF IsItem, LinkKinds, TextKinds
    <3> QED BY <1>8, <2>3, <2>4, <3>1
  <2>6. \A t, u : ConditionId(t) = ConditionId(u) => KeyOf[t] = KeyOf[u]
    BY DEF ConditionId
  <2>7. CASE k = "REQUIRES"
    <3>1. j \in DOMAIN x.groups[i].all_of /\ n \in DOMAIN x.groups[i].all_of
      BY <1>2, <1>8, <2>4, <2>7 DEF IsItem, LinkKinds, TextKinds
    <3>2. KeyOf[x.groups[i].all_of[j]] = KeyOf[x.groups[i].all_of[n]]
      BY <1>3, <1>4, <1>5, <1>8, <2>4, <2>6, <2>7
    <3>3. \A a, b \in DOMAIN x.groups[i].all_of :
             KeyOf[x.groups[i].all_of[a]] = KeyOf[x.groups[i].all_of[b]] => a = b
      BY <1>10, <2>1 DEF IsInjective, KeysOf
    <3> QED BY <1>8, <2>3, <2>4, <3>1, <3>2, <3>3
  <2>8. CASE k = "EXCLUDES"
    <3>1. j \in DOMAIN x.groups[i].none_of /\ n \in DOMAIN x.groups[i].none_of
      BY <1>2, <1>8, <2>4, <2>8 DEF IsItem, LinkKinds, TextKinds
    <3>2. KeyOf[x.groups[i].none_of[j]] = KeyOf[x.groups[i].none_of[n]]
      BY <1>3, <1>4, <1>5, <1>8, <2>4, <2>6, <2>8
    <3>3. \A a, b \in DOMAIN x.groups[i].none_of :
             KeyOf[x.groups[i].none_of[a]] = KeyOf[x.groups[i].none_of[b]] => a = b
      BY <1>10, <2>1 DEF IsInjective, KeysOf
    <3> QED BY <1>8, <2>3, <2>4, <3>1, <3>2, <3>3
  <2> QED BY <1>14, <2>5, <2>7, <2>8
<1> QED BY <1>2, <1>11, <1>12, <1>13, <1>14 DEF IsItem

\* A rule writes the relationships of its items, and no other.
IsWritten(e, id, x, job) ==
    \E k, i, j : IsItem(x, k, i, j) /\ e = Relationship(id, x, job, k, i, j)

LEMMA ItemsWrite ==
    ASSUME NEW rules, NEW id, NEW x, IsChange(id, x, rules), NEW job, NEW ids, DOMAIN rules \subseteq ids, NEW e
    PROVE  e \in write_named_relations(id, x, ids) \cup {Edge(id, "SOURCED_FROM", SourceId(job))}
           <=> IsWritten(e, id, x, job)
<1> DEFINE G == UNION {GroupEdges(id, g) : g \in ToSet(x.groups)}
           L == {Edge(id, l.kind, l.id) : l \in {k \in x.links : k.id \in ids}}
           source == Edge(id, "SOURCED_FROM", SourceId(job))
           Two == {"STRENGTHENS", "WEAKENS"}
           Three == {"RELATES_TO", "PRODUCES", "DOES_NOT_PROVE"}
           Writes(k, i, j) == IsItem(x, k, i, j) /\ e = Relationship(id, x, job, k, i, j)
<1>1. e \in write_named_relations(id, x, ids) \cup {source}
      <=> e \in TextEdges(id, x) \/ e \in G \/ e \in L \/ e = source
  BY DEF write_named_relations
<1>2. \A l \in x.links : l.kind \in LinkKinds /\ l.id \in ids
  BY DEF IsChange, IsSaid
<1>3. ASSUME NEW k, NEW i, NEW j
      PROVE  /\ k = "SOURCED_FROM" => Relationship(id, x, job, k, i, j) = Edge(id, k, SourceId(job))
             /\ k \in LinkKinds => Relationship(id, x, job, k, i, j) = Edge(id, k, i)
             /\ k \in Two => Relationship(id, x, job, k, i, j) = Edge(TextId(k, x.texts[k][i]), k, id)
             /\ k \in Three => Relationship(id, x, job, k, i, j) = Edge(id, k, TextId(k, x.texts[k][i]))
             /\ k = "HAS_CONDITION_GROUP" => Relationship(id, x, job, k, i, j) = Edge(id, k, GroupId(id, x.groups[i]))
             /\ k = "REQUIRES" => Relationship(id, x, job, k, i, j)
                                     = Edge(GroupId(id, x.groups[i]), k, ConditionId(x.groups[i].all_of[j]))
             /\ k = "EXCLUDES" => Relationship(id, x, job, k, i, j)
                                     = Edge(GroupId(id, x.groups[i]), k, ConditionId(x.groups[i].none_of[j]))
  <2>1. PICK f : f = Relationship(id, x, job, k, i, j)
    OBVIOUS
  <2> QED BY <2>1, RelationshipIs
<1>4. TextKinds = Two \cup Three /\ Two \cap Three = {} /\ LinkKinds \cap (Two \cup Three) = {}
  BY DEF TextKinds, LinkKinds
<1>5. e \in TextEdges(id, x) <=> \E k \in TextKinds : \E i \in DOMAIN x.texts[k] :
         e = IF k \in Two THEN Edge(TextId(k, x.texts[k][i]), k, id) ELSE Edge(id, k, TextId(k, x.texts[k][i]))
  BY DEF TextEdges, ToSet
<1>6. e \in G <=> \E i \in DOMAIN x.groups : e \in GroupEdges(id, x.groups[i])
  BY DEF ToSet
<1>7. \A g : e \in GroupEdges(id, g) <=>
         \/ e = Edge(id, "HAS_CONDITION_GROUP", GroupId(id, g))
         \/ \E j \in DOMAIN g.all_of : e = Edge(GroupId(id, g), "REQUIRES", ConditionId(g.all_of[j]))
         \/ \E j \in DOMAIN g.none_of : e = Edge(GroupId(id, g), "EXCLUDES", ConditionId(g.none_of[j]))
  BY DEF GroupEdges, ToSet
<1>8. e \in L <=> \E l \in x.links : e = Edge(id, l.kind, l.id)
  BY <1>2
<1> HIDE DEF G, L, source, Two, Three
<1>9. ASSUME e \in TextEdges(id, x) PROVE \E k, i, j : Writes(k, i, j)
  <2>1. PICK k \in TextKinds : \E i \in DOMAIN x.texts[k] :
           e = IF k \in Two THEN Edge(TextId(k, x.texts[k][i]), k, id) ELSE Edge(id, k, TextId(k, x.texts[k][i]))
    BY <1>5, <1>9
  <2>2. PICK i \in DOMAIN x.texts[k] :
           e = IF k \in Two THEN Edge(TextId(k, x.texts[k][i]), k, id) ELSE Edge(id, k, TextId(k, x.texts[k][i]))
    BY <2>1
  <2>3. e = Relationship(id, x, job, k, i, 0)
    BY <1>3, <1>4, <2>2
  <2>4. IsItem(x, k, i, 0)
    BY DEF IsItem
  <2> QED BY <2>3, <2>4
<1>10. ASSUME e \in G PROVE \E k, i, j : Writes(k, i, j)
  <2>1. PICK i \in DOMAIN x.groups : e \in GroupEdges(id, x.groups[i])
    BY <1>6, <1>10
  <2>2. CASE e = Edge(id, "HAS_CONDITION_GROUP", GroupId(id, x.groups[i]))
    <3>1. IsItem(x, "HAS_CONDITION_GROUP", i, 0) /\ e = Relationship(id, x, job, "HAS_CONDITION_GROUP", i, 0)
      BY <1>3, <2>2 DEF IsItem
    <3> QED BY <3>1
  <2>3. ASSUME NEW j \in DOMAIN x.groups[i].all_of,
               e = Edge(GroupId(id, x.groups[i]), "REQUIRES", ConditionId(x.groups[i].all_of[j]))
        PROVE  \E k, a, b : Writes(k, a, b)
    <3>1. IsItem(x, "REQUIRES", i, j) /\ e = Relationship(id, x, job, "REQUIRES", i, j)
      BY <1>3, <2>3 DEF IsItem
    <3> QED BY <3>1
  <2>4. ASSUME NEW j \in DOMAIN x.groups[i].none_of,
               e = Edge(GroupId(id, x.groups[i]), "EXCLUDES", ConditionId(x.groups[i].none_of[j]))
        PROVE  \E k, a, b : Writes(k, a, b)
    <3>1. IsItem(x, "EXCLUDES", i, j) /\ e = Relationship(id, x, job, "EXCLUDES", i, j)
      BY <1>3, <2>4 DEF IsItem
    <3> QED BY <3>1
  <2> HIDE DEF Writes
  <2> QED BY <1>7, <2>1, <2>2, <2>3, <2>4
<1>11. ASSUME e \in L PROVE \E k, i, j : Writes(k, i, j)
  <2>1. PICK l \in x.links : e = Edge(id, l.kind, l.id)
    BY <1>8, <1>11
  <2>2. IsItem(x, l.kind, l.id, 0) /\ e = Relationship(id, x, job, l.kind, l.id, 0)
    BY <1>2, <1>3, <2>1 DEF IsItem
  <2> QED BY <2>2
<1>12. ASSUME e = source PROVE \E k, i, j : Writes(k, i, j)
  <2>1. IsItem(x, "SOURCED_FROM", 0, 0) /\ e = Relationship(id, x, job, "SOURCED_FROM", 0, 0)
    BY <1>3, <1>12 DEF IsItem, source
  <2> QED BY <2>1
<1>13. ASSUME NEW k, NEW i, NEW j, Writes(k, i, j)
       PROVE  e \in TextEdges(id, x) \/ e \in G \/ e \in L \/ e = source
  <2>1. CASE k = "SOURCED_FROM"
    BY <1>3, <1>13, <2>1 DEF source
  <2>2. CASE k \in LinkKinds /\ \E l \in x.links : l.kind = k /\ l.id = i
    BY <1>3, <1>8, <1>13, <2>2
  <2>3. CASE k \in TextKinds /\ i \in DOMAIN x.texts[k]
    <3>1. e = IF k \in Two THEN Edge(TextId(k, x.texts[k][i]), k, id) ELSE Edge(id, k, TextId(k, x.texts[k][i]))
      BY <1>3, <1>4, <1>13, <2>3
    <3> QED BY <1>5, <2>3, <3>1
  <2>4. CASE k = "HAS_CONDITION_GROUP" /\ i \in DOMAIN x.groups
    BY <1>3, <1>6, <1>7, <1>13, <2>4
  <2>5. CASE k = "REQUIRES" /\ i \in DOMAIN x.groups /\ j \in DOMAIN x.groups[i].all_of
    <3>1. e = Edge(GroupId(id, x.groups[i]), "REQUIRES", ConditionId(x.groups[i].all_of[j]))
      BY <1>3, <1>13, <2>5
    <3> QED BY <1>6, <1>7, <2>5, <3>1
  <2>6. CASE k = "EXCLUDES" /\ i \in DOMAIN x.groups /\ j \in DOMAIN x.groups[i].none_of
    <3>1. e = Edge(GroupId(id, x.groups[i]), "EXCLUDES", ConditionId(x.groups[i].none_of[j]))
      BY <1>3, <1>13, <2>6
    <3> QED BY <1>6, <1>7, <2>6, <3>1
  <2> QED BY <1>13, <2>1, <2>2, <2>3, <2>4, <2>5, <2>6 DEF IsItem
<1> HIDE DEF Writes
<1>14. (e \in TextEdges(id, x) \/ e \in G \/ e \in L \/ e = source) <=> \E k, i, j : Writes(k, i, j)
  BY <1>9, <1>10, <1>11, <1>12, <1>13
<1> QED BY <1>1, <1>14 DEF Writes, source, IsWritten

\* One count for every relationship.
LEMMA RelationsAreCounted ==
    ASSUME NEW change, IsFiniteSet(DOMAIN change), NEW rules, ChangeIsSound(change, rules), NEW job,
           GroupsAreWordless(change)
    PROVE  Cardinality(UNION {{id} \X Items(change[id]) : id \in DOMAIN change})
              = Cardinality(EdgesOf(change, job, DOMAIN rules \cup DOMAIN change))
<1> DEFINE Of(id) == {id} \X Items(change[id])
           S == UNION {Of(id) : id \in DOMAIN change}
           ids == DOMAIN rules \cup DOMAIN change
           edges == EdgesOf(change, job, ids)
           f == [p \in S |-> Relationship(p[1], change[p[1]], job, p[2][1], p[2][2], p[2][3])]
<1>1. \A id \in DOMAIN change :
         /\ IsFiniteSet(Items(change[id]))
         /\ \A t \in Items(change[id]) : t = <<t[1], t[2], t[3]>> /\ IsItem(change[id], t[1], t[2], t[3])
         /\ \A k, i, j : IsItem(change[id], k, i, j) => <<k, i, j>> \in Items(change[id])
  BY ItemsAre DEF ChangeIsSound
<1>2. IsFiniteSet(S)
  <2>1. \A id \in DOMAIN change : IsFiniteSet(Of(id))
    BY <1>1, FS_Singleton, FS_Product
  <2> HIDE DEF Of
  <2>2. PICK g : g = [id \in DOMAIN change |-> Of(id)]
    OBVIOUS
  <2>3. {Of(id) : id \in DOMAIN change} = {g[id] : id \in DOMAIN change}
    BY <2>2
  <2>4. DOMAIN g = DOMAIN change /\ g = [id \in DOMAIN change |-> g[id]]
    BY <2>2
  <2>5. IsFiniteSet({g[id] : id \in DOMAIN change})
    BY <2>4, ImageIsFinite
  <2>6. \A T \in {Of(id) : id \in DOMAIN change} : IsFiniteSet(T)
    BY <2>1
  <2> QED BY <2>3, <2>5, <2>6, FS_UNION
<1>3. \A p : p \in S <=> \E id \in DOMAIN change : \E t \in Items(change[id]) : p = <<id, t>>
  OBVIOUS
<1>4. \A e : e \in edges <=>
         \E id \in DOMAIN change : \E k, i, j :
             IsItem(change[id], k, i, j) /\ e = Relationship(id, change[id], job, k, i, j)
  <2> TAKE e
  <2>1. e \in edges <=>
           \E id \in DOMAIN change :
               e \in write_named_relations(id, change[id], ids) \cup {Edge(id, "SOURCED_FROM", SourceId(job))}
    BY DEF EdgesOf
  <2>2. \A id \in DOMAIN change :
           e \in write_named_relations(id, change[id], ids) \cup {Edge(id, "SOURCED_FROM", SourceId(job))}
           <=> IsWritten(e, id, change[id], job)
    <3> TAKE id \in DOMAIN change
    <3>1. IsChange(id, change[id], rules) /\ DOMAIN rules \subseteq ids
      BY DEF ChangeIsSound
    <3> HIDE DEF ids
    <3> QED BY <3>1, ItemsWrite
  <2> HIDE DEF edges, ids
  <2> QED BY <2>1, <2>2 DEF IsWritten
<1> HIDE DEF S, edges
<1>5. ASSUME NEW id \in DOMAIN change, NEW k, NEW i, NEW j, IsItem(change[id], k, i, j)
      PROVE  <<id, <<k, i, j>>>> \in S /\ f[<<id, <<k, i, j>>>>] = Relationship(id, change[id], job, k, i, j)
  BY <1>1, <1>3, <1>5
<1>6. ASSUME NEW p \in S
      PROVE  \E id \in DOMAIN change : \E k, i, j :
                /\ p = <<id, <<k, i, j>>>> /\ IsItem(change[id], k, i, j)
                /\ f[p] = Relationship(id, change[id], job, k, i, j)
  <2>1. PICK id \in DOMAIN change : \E t \in Items(change[id]) : p = <<id, t>>
    BY <1>3
  <2>2. PICK t \in Items(change[id]) : p = <<id, t>>
    BY <2>1
  <2>3. t = <<t[1], t[2], t[3]>> /\ IsItem(change[id], t[1], t[2], t[3])
    BY <1>1
  <2>4. f[p] = Relationship(id, change[id], job, t[1], t[2], t[3])
    BY <2>2
  <2> QED BY <2>2, <2>3, <2>4
<1>7. DOMAIN f = S /\ f = [p \in S |-> f[p]]
  OBVIOUS
<1> HIDE DEF f
<1>8. f \in [S -> edges]
  <2>1. \A p \in S : f[p] \in edges
    BY <1>4, <1>6
  <2> QED BY <1>7, <2>1
<1>9. ASSUME NEW e \in edges PROVE \E p \in S : f[p] = e
  <2>1. PICK id \in DOMAIN change : \E k, i, j :
           IsItem(change[id], k, i, j) /\ e = Relationship(id, change[id], job, k, i, j)
    BY <1>4
  <2>2. PICK k, i, j : IsItem(change[id], k, i, j) /\ e = Relationship(id, change[id], job, k, i, j)
    BY <2>1
  <2>3. <<id, <<k, i, j>>>> \in S /\ f[<<id, <<k, i, j>>>>] = e
    BY <1>5, <2>2
  <2> QED BY <2>3
<1>10. \A p, q \in S : f[p] = f[q] => p = q
  <2> SUFFICES ASSUME NEW p \in S, NEW q \in S, f[p] = f[q] PROVE p = q
    OBVIOUS
  <2>1. PICK id \in DOMAIN change : \E k, i, j :
           /\ p = <<id, <<k, i, j>>>> /\ IsItem(change[id], k, i, j)
           /\ f[p] = Relationship(id, change[id], job, k, i, j)
    BY <1>6
  <2>2. PICK k, i, j : /\ p = <<id, <<k, i, j>>>> /\ IsItem(change[id], k, i, j)
                       /\ f[p] = Relationship(id, change[id], job, k, i, j)
    BY <2>1
  <2>3. PICK d \in DOMAIN change : \E l, m, n :
           /\ q = <<d, <<l, m, n>>>> /\ IsItem(change[d], l, m, n)
           /\ f[q] = Relationship(d, change[d], job, l, m, n)
    BY <1>6
  <2>4. PICK l, m, n : /\ q = <<d, <<l, m, n>>>> /\ IsItem(change[d], l, m, n)
                       /\ f[q] = Relationship(d, change[d], job, l, m, n)
    BY <2>3
  <2>5. id = d /\ k = l /\ i = m /\ j = n
    <3>1. Relationship(id, change[id], job, k, i, j) = Relationship(d, change[d], job, l, m, n)
      BY <2>2, <2>4
    <3> QED BY <2>2, <2>4, <3>1, ItemsDiffer
  <2> QED BY <2>2, <2>4, <2>5
<1>11. f \in Bijection(S, edges)
  BY <1>8, <1>9, <1>10 DEF Bijection, Injection, Surjection, IsInjective
<1>12. Cardinality(edges) = Cardinality(S)
  BY <1>2, <1>11, FS_Bijection DEF ExistsBijection
<1> QED BY <1>12 DEF S, edges

\* What a submission reports is what its transaction did (apply_result, which
\* counts lengths of lists; the rules that exist are read before the commit):
\* rules created and merged, and one for each relationship, unless "and" or "none"
\* in a condition may have brought two groups together.
THEOREM ReportsAreExact ==
    ASSUME NEW CONSTANT Candidates, \A c \in Candidates : IsCandidate(c),
           NEW CONSTANT submissions \in SUBSET Seq(Candidates)
    PROVE  GraphInit /\ [][GraphNext(submissions)]_graphVars => ReportIsExact
<1> DEFINE Exact == session.pc = "write" /\ session'.pc = "submitted" =>
                       /\ session'.result.created = Cardinality(DOMAIN graph'.rules \ Rules)
                       /\ session'.result.merged = Cardinality(session'.result.rules \cap Rules)
                       /\ GroupsAreWordless(session.change) =>
                             session'.result.relations =
                                Cardinality(EdgesOf(session.change, session.section.job, DOMAIN graph'.rules))
<1>1. GraphInit => RuleInv
  BY RuleInvAtFirst
<1>2. RuleInv /\ [GraphNext(submissions)]_graphVars => RuleInv' /\ [Exact]_<<graph, session>>
  <2> SUFFICES ASSUME RuleInv, [GraphNext(submissions)]_graphVars
               PROVE  RuleInv' /\ (UNCHANGED <<graph, session>> \/ Exact)
    OBVIOUS
  <2>1. RuleInv'
    BY RuleInvIsKept
  <2>2. GraphNext(submissions) \/ UNCHANGED <<graph, session>>
    BY DEF graphVars
  <2>3. ASSUME GraphNext(submissions), session.pc = "write", session'.pc = "submitted" PROVE apply_rules_write
    <3>1. /\ session.pc \notin {"none", "model", "apply", "submitted"}
          /\ NoSession.pc # "submitted"
      BY <2>3 DEF NoSession
    <3> QED BY <2>3, <3>1
            DEF GraphNext, extract_graph_section, submit, apply_rules_read, go_on, finalize, fail
  <2>4. ASSUME apply_rules_write, session.pc = "write", session'.pc = "submitted" PROVE Exact
    <3>1. /\ graph' = write_change_set(graph, session.change, session.section)
          /\ session' = [NoSession EXCEPT !.pc = "submitted", !.section = session.section,
                            !.result = apply_result(session.change, session.existing)]
      BY <2>4 DEF apply_rules_write
    <3>2. session'.result = apply_result(session.change, session.existing)
      BY <3>1 DEF NoSession
    <3>3. /\ ChangeIsSound(session.change, graph.rules) /\ session.existing = Rules \cap DOMAIN session.change
          /\ IsFiniteSet(DOMAIN session.change)
      BY <2>4 DEF RuleInv, SessionHolds, GraphIsReadable
    <3>4. DOMAIN graph'.rules = DOMAIN graph.rules \cup DOMAIN session.change
      BY <3>1, WritesGrow
    <3>5. /\ DOMAIN session.change \ session.existing = DOMAIN graph'.rules \ Rules
          /\ DOMAIN session.change \cap session.existing = DOMAIN session.change \cap Rules
      BY <3>3, <3>4 DEF Rules
    <3>6. GroupsAreWordless(session.change) =>
          Cardinality(UNION {{id} \X Items(session.change[id]) : id \in DOMAIN session.change})
             = Cardinality(EdgesOf(session.change, session.section.job, DOMAIN graph'.rules))
      BY <3>3, <3>4, RelationsAreCounted
    <3>7. /\ session'.result.created = Cardinality(DOMAIN session.change \ session.existing)
          /\ session'.result.merged = Cardinality(DOMAIN session.change \cap session.existing)
          /\ session'.result.rules = DOMAIN session.change
          /\ session'.result.relations
                = Cardinality(UNION {{id} \X Items(session.change[id]) : id \in DOMAIN session.change})
      BY <3>2 DEF apply_result
    <3> QED BY <3>5, <3>6, <3>7
  <2> QED BY <2>1, <2>2, <2>3, <2>4
<1> QED BY <1>1, <1>2, PTL DEF ReportIsExact

\* Whatever is submitted, a write keeps what is in the graph, creates only rules
\* that were not known, keeps groups without joining words in their conditions
\* apart, and reports what it did (GraphStore.apply_rules).
THEOREM WritesStaySound ==
    ASSUME NEW CONSTANT Candidates, \A c \in Candidates : IsCandidate(c),
           NEW CONSTANT submissions \in SUBSET Seq(Candidates)
    PROVE  GraphInit /\ [][GraphNext(submissions)]_graphVars => WritesAreSound
<1>1. GraphInit /\ [][GraphNext(submissions)]_graphVars => RulesKeep
  BY RulesAreKept
<1>2. GraphInit /\ [][GraphNext(submissions)]_graphVars => CreatedIsUnknown
  BY CreatedWereUnknown
<1>3. GraphInit /\ [][GraphNext(submissions)]_graphVars => ReportIsExact
  BY ReportsAreExact
<1>4. GraphInit /\ [][GraphNext(submissions)]_graphVars => ConditionsStayApart
  BY GroupsAreKeptApart
<1> QED BY <1>1, <1>2, <1>3, <1>4 DEF WritesAreSound

(***************************************************************************)
(* The repetition of a submission that was written.                        *)
(***************************************************************************)

\* Every element of t is one of u.
Within(t, u) == \A i \in DOMAIN t : \E k \in DOMAIN u : u[k] = t[i]

LEMMA AllJoined ==
    ASSUME NEW S, NEW s \in Seq(S), NEW t \in Seq(S)
    PROVE  Within(s, s \o t) /\ Within(t, s \o t)
<1>1. /\ Len(s \o t) = Len(s) + Len(t) /\ s \o t \in Seq(S)
      /\ \A i \in 1..(Len(s) + Len(t)) : (s \o t)[i] = IF i <= Len(s) THEN s[i] ELSE t[i - Len(s)]
  BY ConcatProperties
<1>2. /\ Len(s) \in Nat /\ DOMAIN s = 1..Len(s) /\ Len(t) \in Nat /\ DOMAIN t = 1..Len(t)
      /\ DOMAIN (s \o t) = 1..(Len(s) + Len(t))
  BY <1>1, LenProperties
<1>3. ASSUME NEW i \in DOMAIN t PROVE \E k \in DOMAIN (s \o t) : (s \o t)[k] = t[i]
  <2>1. i + Len(s) \in 1..(Len(s) + Len(t)) /\ ~(i + Len(s) <= Len(s)) /\ (i + Len(s)) - Len(s) = i
    BY <1>2
  <2>2. (s \o t)[i + Len(s)] = t[i]
    BY <1>1, <2>1
  <2> QED BY <1>2, <2>1, <2>2
<1>4. ASSUME NEW i \in DOMAIN s PROVE \E k \in DOMAIN (s \o t) : (s \o t)[k] = s[i]
  BY <1>1, <1>2
<1> QED BY <1>3, <1>4 DEF Within

\* The aliases of a rule after a candidate: those it had, the candidate's name
\* unless it is the rule's, and the candidate's aliases.
Said(name, aliases, c) == (IF KeyOf[c.name] = KeyOf[name] THEN aliases ELSE Append(aliases, c.name)) \o c.aliases
\* What a repetition says of a rule: the same texts and groups, no link, and no
\* alias that is neither known nor said the first time.
FromEither(aliases, known, said) ==
    \A i \in DOMAIN aliases : \/ \E j \in DOMAIN known : known[j] = aliases[i]
                              \/ \E j \in DOMAIN said : said[j] = aliases[i]

LEMMA SaidAgain ==
    ASSUME NEW c, c.name \in Texts, c.aliases \in Seq(Texts), NEW name, NEW other, KeyOf[name] = KeyOf[other],
           NEW said \in Seq(Texts), NEW again \in Seq(Texts), NEW known, FromEither(again, known, said)
    PROVE  FromEither(Said(name, again, c), known, Said(other, said, c))
<1> DEFINE s == IF KeyOf[c.name] = KeyOf[other] THEN said ELSE Append(said, c.name)
           a == IF KeyOf[c.name] = KeyOf[name] THEN again ELSE Append(again, c.name)
<1>1. s \in Seq(Texts) /\ a \in Seq(Texts)
  BY Appended
<1>2. Within(said, s)
  <2>1. \A i \in DOMAIN said : i \in DOMAIN Append(said, c.name) /\ Append(said, c.name)[i] = said[i]
    BY Appended DEF BeginsWith
  <2> QED BY <2>1 DEF Within
<1>3. \A k \in DOMAIN a : \/ \E i \in DOMAIN again : a[k] = again[i]
                          \/ \E j \in DOMAIN s : s[j] = a[k]
  <2>1. CASE KeyOf[c.name] = KeyOf[name]
    BY <2>1
  <2>2. CASE KeyOf[c.name] # KeyOf[name]
    <3>1. a = Append(again, c.name) /\ s = Append(said, c.name)
      BY <2>2
    <3>2. \E j \in DOMAIN s : s[j] = c.name
      <4>1. Len(said) \in Nat /\ DOMAIN Append(said, c.name) = 1..(Len(said) + 1)
        OBVIOUS
      <4>2. Append(said, c.name)[Len(said) + 1] = c.name
        OBVIOUS
      <4> HIDE DEF s
      <4> QED BY <3>1, <4>1, <4>2
    <3>3. \A k \in DOMAIN Append(again, c.name) :
             Append(again, c.name)[k] = c.name \/ \E i \in DOMAIN again : Append(again, c.name)[k] = again[i]
      BY Appended
    <3> HIDE DEF s, a
    <3> QED BY <3>1, <3>2, <3>3
  <2> QED BY <2>1, <2>2
<1>4. Said(other, said, c) = s \o c.aliases /\ Said(name, again, c) = a \o c.aliases
  BY DEF Said
<1> HIDE DEF s, a
<1>5. Within(s, s \o c.aliases) /\ Within(c.aliases, s \o c.aliases)
  BY <1>1, AllJoined
<1>6. Joins(a \o c.aliases, a, c.aliases)
  BY <1>1, Concatenated
<1>7. FromEither(a \o c.aliases, known, s \o c.aliases)
  <2>1. PICK t : t = a \o c.aliases /\ Joins(t, a, c.aliases)
    BY <1>6
  <2>2. PICK u : u = s \o c.aliases /\ Within(s, u) /\ Within(c.aliases, u)
    BY <1>5
  <2>3. ASSUME NEW i \in DOMAIN t
        PROVE (\E j \in DOMAIN known : known[j] = t[i]) \/ \E j \in DOMAIN u : u[j] = t[i]
    <3>1. (\E k \in DOMAIN a : t[i] = a[k]) \/ (\E k \in DOMAIN c.aliases : t[i] = c.aliases[k])
      BY <2>1 DEF Joins
    <3>2. CASE \E k \in DOMAIN c.aliases : t[i] = c.aliases[k]
      BY <2>2, <3>2 DEF Within
    <3>3. CASE \E k \in DOMAIN s : s[k] = t[i]
      BY <2>2, <3>3 DEF Within
    <3>4. CASE \E k \in DOMAIN again : t[i] = again[k]
      <4>1. (\E j \in DOMAIN known : known[j] = t[i]) \/ (\E j \in DOMAIN said : said[j] = t[i])
        BY <3>4 DEF FromEither
      <4> QED BY <1>2, <2>2, <4>1 DEF Within
    <3> QED BY <1>3, <3>1, <3>2, <3>3, <3>4
  <2> QED BY <2>1, <2>2, <2>3 DEF FromEither
<1> QED BY <1>4, <1>7

\* A candidate as the model names it again, having found its rule.
Again(c) == [c EXCEPT !.existing = RuleIdOf(c), !.links = {}]

LEMMA AgainIs ==
    ASSUME NEW c, IsCandidate(c), NEW d, d = Again(c)
    PROVE  /\ IsCandidate(d) /\ d.name = c.name /\ d.summary = c.summary /\ d.aliases = c.aliases
           /\ d.texts = c.texts /\ d.groups = c.groups /\ d.links = {} /\ d.existing = RuleIdOf(c)
           /\ RuleIdOf(d) = RuleIdOf(c) /\ d.existing # NoId
<1>1. /\ c = [name |-> c.name, summary |-> c.summary, aliases |-> c.aliases, existing |-> c.existing,
              texts |-> c.texts, groups |-> c.groups, links |-> c.links]
      /\ c.name \in Texts /\ c.summary \in Nat /\ c.aliases \in Seq(Texts)
      /\ c.texts \in [TextKinds -> Seq(Texts)] /\ c.groups \in Seq(GroupRecords)
  BY DEF IsCandidate
<1>2. d = [name |-> c.name, summary |-> c.summary, aliases |-> c.aliases, existing |-> RuleIdOf(c),
           texts |-> c.texts, groups |-> c.groups, links |-> {}]
  BY <1>1 DEF Again
<1>3. RuleIdOf(c) # NoId
  <2>1. CASE c.existing # NoId
    BY <2>1 DEF RuleIdOf
  <2>2. CASE c.existing = NoId
    <3>1. RuleIdOf(c) = <<"R", KeyOf[c.name]>>
      BY <2>2 DEF RuleIdOf, RuleId
    <3>2. <<"R", KeyOf[c.name]>> # <<>>
      OBVIOUS
    <3> QED BY <3>1, <3>2 DEF NoId
  <2> QED BY <2>1, <2>2
<1>4. /\ d.name = c.name /\ d.summary = c.summary /\ d.aliases = c.aliases
      /\ d.texts = c.texts /\ d.groups = c.groups /\ d.links = {} /\ d.existing = RuleIdOf(c)
      /\ d = [name |-> d.name, summary |-> d.summary, aliases |-> d.aliases, existing |-> d.existing,
              texts |-> d.texts, groups |-> d.groups, links |-> d.links]
  BY <1>2
<1>5. IsCandidate(d)
  BY <1>1, <1>4, FS_EmptySet DEF IsCandidate
<1>6. RuleIdOf(d) = RuleIdOf(c)
  BY <1>3, <1>4 DEF RuleIdOf
<1> QED BY <1>3, <1>4, <1>5, <1>6

\* A repetition, merged as far as the first submission was: the same rules, each
\* of which says no more.
SaysNoMore(v, x, known) ==
    v.texts = x.texts /\ v.groups = x.groups /\ v.links = {} /\ FromEither(v.aliases, known, x.aliases)
Follows(n, m, rules) == DOMAIN n = DOMAIN m /\ \A r \in DOMAIN m : SaysNoMore(n[r], m[r], rules[r].aliases)

LEMMA AddFollows ==
    ASSUME NEW c, IsCandidate(c), NEW d, d = Again(c),
           NEW rules, RulesAreSound(rules), ~IsRefused(c, rules),
           NEW once, RulesAreSound(once), ~IsRefused(d, once), ~PassedOver(c) => RuleIdOf(c) \in DOMAIN once,
           NEW m, \A r \in DOMAIN m : IsMerging(r, m[r], rules),
           NEW n, \A r \in DOMAIN n : IsMerging(r, n[r], once), Follows(n, m, once)
    PROVE  Follows(AddCandidate(n, d, once), AddCandidate(m, c, rules), once)
<1> DEFINE id == RuleIdOf(c)
           x == IF id \in DOMAIN m THEN m[id] ELSE FirstOf(c, rules)
           v == IF id \in DOMAIN n THEN n[id] ELSE FirstOf(d, once)
           some == discard_empty_condition_groups(c.groups)
           made == [i \in DOMAIN some |-> condition_group(some[i])]
           New(a, old, rs) ==
               [name |-> old.name,
                summary |-> IF id \notin DOMAIN rs /\ a.summary > old.summary THEN a.summary ELSE old.summary,
                aliases |-> (IF KeyOf[a.name] = KeyOf[old.name] THEN old.aliases
                             ELSE Append(old.aliases, a.name)) \o a.aliases,
                texts |-> [k \in TextKinds |-> old.texts[k] \o a.texts[k]],
                groups |-> old.groups \o made,
                links |-> old.links \cup kept_links(a.links, id, rs)]
<1>1. /\ IsCandidate(d) /\ d.name = c.name /\ d.summary = c.summary /\ d.aliases = c.aliases
      /\ d.texts = c.texts /\ d.groups = c.groups /\ d.links = {} /\ RuleIdOf(d) = id
  BY AgainIs
<1>2. PassedOver(d) <=> PassedOver(c)
  BY <1>1 DEF PassedOver
<1>3. AddCandidate(m, c, rules) =
          IF PassedOver(c) THEN m ELSE [r \in DOMAIN m \cup {id} |-> IF r = id THEN New(c, x, rules) ELSE m[r]]
  BY DEF AddCandidate
<1>4. AddCandidate(n, d, once) =
          IF PassedOver(c) THEN n ELSE [r \in DOMAIN n \cup {id} |-> IF r = id THEN New(d, v, once) ELSE n[r]]
  BY <1>1, <1>2 DEF AddCandidate
<1>5. CASE PassedOver(c)
  BY <1>3, <1>4, <1>5
<1>6. CASE ~PassedOver(c)
  <2>1. id \in DOMAIN once /\ DOMAIN n = DOMAIN m
    BY <1>6 DEF Follows
  <2>2. IsMerging(id, FirstOf(c, rules), rules)
    BY <1>6, FirstIsMerging DEF IsRefused
  <2>3. IsMerging(id, FirstOf(d, once), once)
    BY <1>1, <1>2, <1>6, FirstIsMerging DEF IsRefused
  <2>4. IsMerging(id, x, rules) /\ IsMerging(id, v, once)
    BY <2>2, <2>3
  <2>5. /\ x.name \in Texts /\ x.aliases \in Seq(Texts) /\ id = RuleId(x.name)
        /\ v.name \in Texts /\ v.aliases \in Seq(Texts) /\ id = RuleId(v.name)
    BY <2>4 DEF IsMerging, IsSaid
  <2>6. KeyOf[v.name] = KeyOf[x.name]
    BY <2>5 DEF RuleId
  <2>7. SaysNoMore(v, x, once[id].aliases)
    <3>1. CASE id \in DOMAIN m
      BY <2>1, <3>1 DEF Follows
    <3>2. CASE id \notin DOMAIN m
      <4>1. x = FirstOf(c, rules) /\ v = FirstOf(d, once)
        BY <2>1, <3>2
      <4>2. /\ x.texts = [k \in TextKinds |-> <<>>] /\ x.groups = <<>>
            /\ v.texts = [k \in TextKinds |-> <<>>] /\ v.groups = <<>> /\ v.links = {}
            /\ v.aliases = once[id].aliases
        BY <1>1, <2>1, <4>1 DEF FirstOf
      <4> HIDE DEF x, v
      <4> QED BY <4>2 DEF SaysNoMore, FromEither
    <3> QED BY <3>1, <3>2
  <2> HIDE DEF x, v, made
  <2>8. /\ New(d, v, once).texts = [k \in TextKinds |-> v.texts[k] \o c.texts[k]]
        /\ New(c, x, rules).texts = [k \in TextKinds |-> x.texts[k] \o c.texts[k]]
        /\ New(d, v, once).groups = v.groups \o made /\ New(c, x, rules).groups = x.groups \o made
        /\ New(d, v, once).links = v.links \cup kept_links(d.links, id, once)
        /\ New(d, v, once).aliases = Said(v.name, v.aliases, c)
        /\ New(c, x, rules).aliases = Said(x.name, x.aliases, c)
    BY <1>1 DEF Said
  <2>9. kept_links(d.links, id, once) = {}
    BY <1>1 DEF kept_links
  <2>10. c.name \in Texts /\ c.aliases \in Seq(Texts)
    BY DEF IsCandidate
  <2>11. v.texts = x.texts /\ v.groups = x.groups /\ v.links = {} /\ FromEither(v.aliases, once[id].aliases, x.aliases)
    BY <2>7 DEF SaysNoMore
  <2>12. FromEither(Said(v.name, v.aliases, c), once[id].aliases, Said(x.name, x.aliases, c))
    BY <2>5, <2>6, <2>10, <2>11, SaidAgain
  <2> HIDE DEF New
  <2>13. SaysNoMore(New(d, v, once), New(c, x, rules), once[id].aliases)
    BY <2>8, <2>9, <2>11, <2>12 DEF SaysNoMore
  <2> QED BY <1>3, <1>4, <1>6, <2>1, <2>13 DEF Follows
<1> QED BY <1>5, <1>6

LEMMA RulesAreMerged ==
    ASSUME NEW submission, Len(submission) \in Nat, NEW rules, NEW n \in 1..Len(submission), ~PassedOver(submission[n])
    PROVE  RuleIdOf(submission[n]) \in DOMAIN merge_graph_extractions(submission, rules)
<1> DEFINE f == Merged(submission, rules)
           id == RuleIdOf(submission[n])
           T == {k \in n..Len(submission) : id \notin DOMAIN f[k]}
<1>1. \A k \in 1..Len(submission) : f[k] = AddCandidate(f[k - 1], submission[k], rules)
  <2>1. f = [k \in 0..Len(submission) |->
                IF k = 0 THEN <<>> ELSE AddCandidate(f[k - 1], submission[k], rules)]
    BY MergedIs
  <2> HIDE DEF f
  <2> QED BY <2>1
<1>2. DOMAIN merge_graph_extractions(submission, rules) = DOMAIN f[Len(submission)]
  BY DEF merge_graph_extractions
<1> HIDE DEF f
<1>3. /\ \A k \in 1..Len(submission) : DOMAIN f[k - 1] \subseteq DOMAIN f[k]
      /\ id \in DOMAIN f[n]
  <2>1. \A m, c : DOMAIN AddCandidate(m, c, rules) = IF PassedOver(c) THEN DOMAIN m ELSE DOMAIN m \cup {RuleIdOf(c)}
    BY DEF AddCandidate
  <2>2. \A k \in 1..Len(submission) : DOMAIN f[k - 1] \subseteq DOMAIN AddCandidate(f[k - 1], submission[k], rules)
    BY <2>1
  <2>3. id \in DOMAIN AddCandidate(f[n - 1], submission[n], rules)
    BY <2>1
  <2> QED BY <1>1, <2>2, <2>3
<1>4. T = {}
  <2> SUFFICES ASSUME T # {} PROVE FALSE
    OBVIOUS
  <2>1. PICK k \in T : \A l \in T : k <= l
    <3>1. T \in SUBSET Nat
      OBVIOUS
    <3> HIDE DEF T
    <3> QED BY <3>1, SmallestOf
  <2>2. k # n
    BY <1>3, <2>1
  <2>3. k - 1 \in n..Len(submission) /\ k \in 1..Len(submission) /\ ~(k <= k - 1)
    BY <2>1, <2>2
  <2>4. id \in DOMAIN f[k - 1]
    BY <2>1, <2>3
  <2> QED BY <1>3, <2>1, <2>3, <2>4
<1> QED BY <1>2, <1>4

\* A submission that was written once, and its repetition: neither is refused,
\* and every rule of it is in the graph.
IsRepeated(given, rules, again, once) ==
    /\ Len(given) \in Nat /\ Len(again) = Len(given) /\ RulesAreSound(rules) /\ RulesAreSound(once)
    /\ \A n \in 1..Len(given) : /\ IsCandidate(given[n]) /\ ~IsRefused(given[n], rules)
                                /\ again[n] = Again(given[n]) /\ ~IsRefused(again[n], once)
                                /\ ~PassedOver(given[n]) => RuleIdOf(given[n]) \in DOMAIN once

LEMMA MergedFollows ==
    ASSUME NEW given, NEW rules, NEW again, NEW once, IsRepeated(given, rules, again, once)
    PROVE  Follows(Merged(again, once)[Len(given)], Merged(given, rules)[Len(given)], once)
<1> DEFINE f == Merged(given, rules)
           g == Merged(again, once)
           T == {n \in 0..Len(given) : ~Follows(g[n], f[n], once)}
<1>1. /\ Len(given) \in Nat /\ Len(again) = Len(given) /\ RulesAreSound(rules) /\ RulesAreSound(once)
      /\ \A n \in 1..Len(given) : /\ IsCandidate(given[n]) /\ ~IsRefused(given[n], rules)
                                  /\ again[n] = Again(given[n]) /\ ~IsRefused(again[n], once)
                                  /\ ~PassedOver(given[n]) => RuleIdOf(given[n]) \in DOMAIN once
  BY DEF IsRepeated
<1>2. \A n \in 1..Len(given) : IsCandidate(again[n])
  <2> TAKE n \in 1..Len(given)
  <2>1. PICK c : c = given[n] /\ IsCandidate(c) /\ again[n] = Again(c)
    BY <1>1
  <2> QED BY <2>1, AgainIs
<1>3. /\ \A n \in 0..Len(given) : f[n] = IF n = 0 THEN <<>> ELSE AddCandidate(f[n - 1], given[n], rules)
      /\ \A n \in 0..Len(given) : g[n] = IF n = 0 THEN <<>> ELSE AddCandidate(g[n - 1], again[n], once)
  <2>1. f = [n \in 0..Len(given) |-> IF n = 0 THEN <<>> ELSE AddCandidate(f[n - 1], given[n], rules)]
    BY <1>1, MergedIs
  <2>2. g = [n \in 0..Len(again) |-> IF n = 0 THEN <<>> ELSE AddCandidate(g[n - 1], again[n], once)]
    BY <1>1, MergedIs
  <2> HIDE DEF f, g
  <2> QED BY <1>1, <2>1, <2>2
<1>4. /\ \A n \in 0..Len(given) : \A r \in DOMAIN f[n] : IsMerging(r, f[n][r], rules)
      /\ \A n \in 0..Len(given) : \A r \in DOMAIN g[n] : IsMerging(r, g[n][r], once)
  <2>1. \A n \in 0..Len(given) : \A r \in DOMAIN f[n] : IsMerging(r, f[n][r], rules)
    BY <1>1, MergedIsMerging
  <2>2. \A n \in 0..Len(again) : \A r \in DOMAIN g[n] : IsMerging(r, g[n][r], once)
    BY <1>1, <1>2, MergedIsMerging
  <2> QED BY <1>1, <2>1, <2>2
<1> HIDE DEF f, g
<1>5. T = {}
  <2> SUFFICES ASSUME T # {} PROVE FALSE
    OBVIOUS
  <2>1. PICK n \in T : \A k \in T : n <= k
    <3>1. T \in SUBSET Nat
      BY <1>1
    <3> HIDE DEF T
    <3> QED BY <3>1, SmallestOf
  <2>2. CASE n = 0
    <3>1. 0 \in 0..Len(given) /\ ~Follows(g[0], f[0], once)
      BY <2>1, <2>2
    <3>2. DOMAIN f[0] = {} /\ DOMAIN g[0] = {}
      BY <1>3, <3>1
    <3> QED BY <3>1, <3>2 DEF Follows
  <2>3. CASE n # 0
    <3>1. n \in 0..Len(given) /\ n - 1 \in 0..Len(given) /\ n \in 1..Len(given) /\ ~(n <= n - 1)
      BY <1>1, <2>1, <2>3
    <3>2. Follows(g[n - 1], f[n - 1], once) /\ ~Follows(g[n], f[n], once)
      BY <2>1, <3>1
    <3>3. f[n] = AddCandidate(f[n - 1], given[n], rules) /\ g[n] = AddCandidate(g[n - 1], again[n], once)
      BY <1>3, <2>3, <3>1
    <3>4. PICK c : c = given[n]
      OBVIOUS
    <3>5. PICK d : d = again[n]
      OBVIOUS
    <3>6. PICK old : old = f[n - 1]
      OBVIOUS
    <3>7. PICK new : new = g[n - 1]
      OBVIOUS
    <3>8. /\ IsCandidate(c) /\ d = Again(c) /\ ~IsRefused(c, rules) /\ ~IsRefused(d, once)
          /\ ~PassedOver(c) => RuleIdOf(c) \in DOMAIN once
      BY <1>1, <3>1, <3>4, <3>5
    <3>9. /\ \A r \in DOMAIN old : IsMerging(r, old[r], rules)
          /\ \A r \in DOMAIN new : IsMerging(r, new[r], once)
      BY <1>4, <3>1, <3>6, <3>7
    <3>10. Follows(new, old, once)
      BY <3>2, <3>6, <3>7
    <3>11. Follows(AddCandidate(new, d, once), AddCandidate(old, c, rules), once)
      BY <1>1, <3>8, <3>9, <3>10, AddFollows
    <3> QED BY <3>2, <3>3, <3>4, <3>5, <3>6, <3>7, <3>11
  <2> QED BY <2>2, <2>3
<1>6. \A n \in 0..Len(given) : Follows(g[n], f[n], once)
  BY <1>5
<1> QED BY <1>1, <1>6 DEF f, g

LEMMA RepeatSaysNoMore ==
    ASSUME NEW given, NEW rules, NEW again, NEW once, IsRepeated(given, rules, again, once),
           NEW change, change = merge_graph_extractions(given, rules),
           NEW repeat, repeat = merge_graph_extractions(again, once)
    PROVE  /\ DOMAIN repeat = DOMAIN change /\ ChangeIsSound(change, rules) /\ ChangeIsSound(repeat, once)
           /\ \A r \in DOMAIN change :
                 /\ repeat[r].texts = change[r].texts /\ repeat[r].groups = change[r].groups /\ repeat[r].links = {}
                 /\ \A i \in DOMAIN repeat[r].aliases :
                       \/ \E j \in DOMAIN once[r].aliases : once[r].aliases[j] = repeat[r].aliases[i]
                       \/ \E j \in DOMAIN change[r].aliases : KeyOf[change[r].aliases[j]] = KeyOf[repeat[r].aliases[i]]
<1> DEFINE m == Merged(given, rules)[Len(given)]
           n == Merged(again, once)[Len(again)]
           Unique(x) == [x EXCEPT !.aliases = unique_texts(@), !.groups = unique_condition_groups(@),
                                  !.texts = [k \in TextKinds |-> unique_texts(@[k])]]
<1>1. /\ Len(given) \in Nat /\ Len(again) = Len(given) /\ RulesAreSound(rules) /\ RulesAreSound(once)
      /\ \A k \in 1..Len(given) : /\ IsCandidate(given[k]) /\ ~IsRefused(given[k], rules)
                                  /\ again[k] = Again(given[k]) /\ ~IsRefused(again[k], once)
  BY DEF IsRepeated
<1>2. \A k \in 1..Len(given) : IsCandidate(again[k])
  <2> TAKE k \in 1..Len(given)
  <2>1. PICK c : c = given[k] /\ IsCandidate(c) /\ again[k] = Again(c)
    BY <1>1
  <2> QED BY <2>1, AgainIs
<1>3. ChangeIsSound(change, rules) /\ ChangeIsSound(repeat, once)
  BY <1>1, <1>2, MergeIsSound
<1>4. Follows(n, m, once)
  BY <1>1, MergedFollows
<1>5. /\ \A r \in DOMAIN m : IsMerging(r, m[r], rules)
      /\ \A r \in DOMAIN n : IsMerging(r, n[r], once)
  <2>1. \A k \in 0..Len(given) : \A r \in DOMAIN Merged(given, rules)[k] : IsMerging(r, Merged(given, rules)[k][r], rules)
    BY <1>1, MergedIsMerging
  <2>2. \A k \in 0..Len(again) : \A r \in DOMAIN Merged(again, once)[k] : IsMerging(r, Merged(again, once)[k][r], once)
    BY <1>1, <1>2, MergedIsMerging
  <2> QED BY <1>1, <2>1, <2>2
<1>6. change = [r \in DOMAIN m |-> Unique(m[r])] /\ repeat = [r \in DOMAIN n |-> Unique(n[r])]
  BY DEF merge_graph_extractions
<1> HIDE DEF m, n
<1>7. ASSUME NEW x, NEW r, NEW rs, IsMerging(r, x, rs)
      PROVE  /\ Unique(x).aliases = unique_texts(x.aliases) /\ Unique(x).links = x.links
             /\ Unique(x).texts = [k \in TextKinds |-> unique_texts(x.texts[k])]
             /\ Unique(x).groups = unique_condition_groups(x.groups)
             /\ UniqueOf(Unique(x).aliases, x.aliases)
  <2>1. x = [name |-> x.name, summary |-> x.summary, aliases |-> x.aliases,
             texts |-> x.texts, groups |-> x.groups, links |-> x.links] /\ x.aliases \in Seq(Texts)
    BY <1>7 DEF IsMerging, IsSaid
  <2>2. Unique(x).aliases = unique_texts(x.aliases) /\ Unique(x).links = x.links
    BY <2>1
  <2>3. /\ Unique(x).texts = [k \in TextKinds |-> unique_texts(x.texts[k])]
        /\ Unique(x).groups = unique_condition_groups(x.groups)
    BY <2>1
  <2>4. UniqueOf(unique_texts(x.aliases), x.aliases)
    BY <2>1, UniqueTexts
  <2> QED BY <2>2, <2>3, <2>4
<1>8. DOMAIN m = DOMAIN n /\ DOMAIN repeat = DOMAIN n /\ DOMAIN change = DOMAIN m
  BY <1>4, <1>6 DEF Follows
<1>9. ASSUME NEW r \in DOMAIN change
      PROVE  /\ repeat[r].texts = change[r].texts /\ repeat[r].groups = change[r].groups /\ repeat[r].links = {}
             /\ \A i \in DOMAIN repeat[r].aliases :
                   \/ \E j \in DOMAIN once[r].aliases : once[r].aliases[j] = repeat[r].aliases[i]
                   \/ \E j \in DOMAIN change[r].aliases : KeyOf[change[r].aliases[j]] = KeyOf[repeat[r].aliases[i]]
  <2>1. PICK x : x = m[r] /\ IsMerging(r, x, rules) /\ change[r] = Unique(x)
    BY <1>5, <1>6, <1>8
  <2>2. PICK v : v = n[r] /\ IsMerging(r, v, once) /\ repeat[r] = Unique(v)
    BY <1>5, <1>6, <1>8
  <2>3. SaysNoMore(v, x, once[r].aliases)
    BY <1>4, <1>8, <2>1, <2>2 DEF Follows
  <2>4. /\ change[r].texts = [k \in TextKinds |-> unique_texts(x.texts[k])]
        /\ change[r].groups = unique_condition_groups(x.groups) /\ UniqueOf(change[r].aliases, x.aliases)
    BY <1>7, <2>1
  <2>5. /\ repeat[r].texts = [k \in TextKinds |-> unique_texts(v.texts[k])] /\ repeat[r].links = v.links
        /\ repeat[r].groups = unique_condition_groups(v.groups) /\ UniqueOf(repeat[r].aliases, v.aliases)
    BY <1>7, <2>2
  <2>6. v.texts = x.texts /\ v.groups = x.groups /\ v.links = {} /\ FromEither(v.aliases, once[r].aliases, x.aliases)
    BY <2>3 DEF SaysNoMore
  <2>7. ASSUME NEW i \in DOMAIN repeat[r].aliases, NEW a, a = repeat[r].aliases[i]
        PROVE  \/ \E j \in DOMAIN once[r].aliases : once[r].aliases[j] = a
               \/ \E j \in DOMAIN change[r].aliases : KeyOf[change[r].aliases[j]] = KeyOf[a]
    <3>1. KeyOf[a] # NoKey /\ \E p \in DOMAIN v.aliases : a = v.aliases[p]
      BY <2>5, <2>7 DEF UniqueOf
    <3>2. (\E j \in DOMAIN once[r].aliases : once[r].aliases[j] = a) \/ \E p \in DOMAIN x.aliases : x.aliases[p] = a
      BY <2>6, <3>1 DEF FromEither
    <3>3. \A p \in DOMAIN x.aliases : KeyOf[x.aliases[p]] # NoKey
             => \E j \in DOMAIN change[r].aliases : KeyOf[change[r].aliases[j]] = KeyOf[x.aliases[p]]
      BY <2>4 DEF UniqueOf
    <3> QED BY <3>1, <3>2, <3>3
  <2> QED BY <2>4, <2>5, <2>6, <2>7
<1> QED BY <1>3, <1>8, <1>9

\* A written rule lists every alias of the change set.
LEMMA AliasesAreWritten ==
    ASSUME NEW rules, RulesAreSound(rules), NEW r, NEW x, IsChange(r, x, rules), NEW y, y = MergedRule(r, x, rules),
           NEW i \in DOMAIN x.aliases
    PROVE  \E j \in DOMAIN y.aliases : y.aliases[j] = x.aliases[i]
<1>1. x.aliases \in Seq(Texts)
  BY DEF IsChange, IsSaid
<1>2. CASE r \notin DOMAIN rules
  <2>1. y.aliases = x.aliases
    BY <1>2 DEF MergedRule
  <2> QED BY <2>1
<1>3. CASE r \in DOMAIN rules
  <2> DEFINE old == rules[r].aliases
             P == {k \in DOMAIN x.aliases : x.aliases[k] \notin ToSet(old)}
             more == At(x.aliases, P)
  <2>1. /\ rules[r] = [name |-> rules[r].name, summary |-> rules[r].summary, aliases |-> old] /\ old \in Seq(Texts)
    BY <1>3 DEF RulesAreSound
  <2>2. y = [rules[r] EXCEPT !.aliases = old \o more]
    BY <1>3 DEF MergedRule
  <2>3. P \in SUBSET DOMAIN x.aliases
    OBVIOUS
  <2>4. i \in P \/ \E j \in DOMAIN old : old[j] = x.aliases[i]
    BY DEF ToSet
  <2> HIDE DEF P
  <2>5. more \in Seq(Texts) /\ Picks(more, x.aliases, P)
    BY <1>1, <2>3, AtIs
  <2>6. (\E k \in DOMAIN more : more[k] = x.aliases[i]) \/ (\E j \in DOMAIN old : old[j] = x.aliases[i])
    BY <2>4, <2>5 DEF Picks
  <2> HIDE DEF more
  <2>7. y.aliases = old \o more
    BY <2>1, <2>2
  <2> HIDE DEF old
  <2>8. Within(old, old \o more) /\ Within(more, old \o more)
    BY <2>1, <2>5, AllJoined
  <2>9. PICK all : all = old \o more
    OBVIOUS
  <2> QED BY <2>6, <2>7, <2>8, <2>9 DEF Within
<1> QED BY <1>2, <1>3

\* Nothing to add, nothing changes.
LEMMA NothingIsAdded ==
    ASSUME NEW rules, RulesAreSound(rules), NEW r \in DOMAIN rules, NEW x, IsChange(r, x, rules),
           \A i \in DOMAIN x.aliases : \E j \in DOMAIN rules[r].aliases : KeyOf[rules[r].aliases[j]] = KeyOf[x.aliases[i]]
    PROVE  MergedRule(r, x, rules) = rules[r]
<1> DEFINE old == rules[r].aliases
           P == {k \in DOMAIN x.aliases : x.aliases[k] \notin ToSet(old)}
           more == At(x.aliases, P)
<1>1. rules[r] = [name |-> rules[r].name, summary |-> rules[r].summary, aliases |-> old] /\ old \in Seq(Texts)
  BY DEF RulesAreSound
<1>2. MergedRule(r, x, rules) = [rules[r] EXCEPT !.aliases = old \o more]
  BY DEF MergedRule
<1>3. P = {}
  <2>1. \A i \in DOMAIN x.aliases, j \in DOMAIN old : KeyOf[x.aliases[i]] = KeyOf[old[j]] => x.aliases[i] = old[j]
    BY DEF IsChange
  <2>2. \A i \in DOMAIN x.aliases : \E j \in DOMAIN old : x.aliases[i] = old[j]
    BY <2>1
  <2> HIDE DEF old
  <2> QED BY <2>2 DEF ToSet
<1>4. more = <<>>
  <2>1. x.aliases \in Seq(Texts)
    BY DEF IsChange, IsSaid
  <2>2. more \in Seq(Texts) /\ Picks(more, x.aliases, {})
    BY <1>3, <2>1, AtIs
  <2> HIDE DEF more
  <2>3. DOMAIN more = {}
    BY <2>2 DEF Picks
  <2> QED BY <2>2, <2>3, NotEmpty
<1> HIDE DEF more
<1>5. old \o more = old
  <2> HIDE DEF old
  <2> QED BY <1>1, <1>4
<1> QED BY <1>1, <1>2, <1>5

LEMMA NotRefusedAgain ==
    ASSUME NEW c, IsCandidate(c), NEW d, d = Again(c), NEW rules, ~IsRefused(c, rules),
           NEW once, ~PassedOver(c) => RuleIdOf(c) \in DOMAIN once
    PROVE  ~IsRefused(d, once)
<1>1. /\ d.name = c.name /\ d.summary = c.summary /\ d.groups = c.groups
      /\ d.existing = RuleIdOf(c) /\ d.existing # NoId
  BY AgainIs
<1>2. PassedOver(d) <=> PassedOver(c)
  BY <1>1 DEF PassedOver
<1>3. \A g \in ToSet(discard_empty_condition_groups(d.groups)) : validate_group(g)
  BY <1>1 DEF IsRefused
<1>4. ~PassedOver(d) => ~RefusedRule(d, once)
  BY <1>1, <1>2 DEF RefusedRule
<1> QED BY <1>3, <1>4 DEF IsRefused

\* A repetition is not refused and writes what was written.
LEMMA RepeatWritesNothing ==
    ASSUME NEW Candidates, \A c \in Candidates : IsCandidate(c), NEW given \in Seq(Candidates),
           NEW g, GraphHolds(g), NEW section \in Sections, ~Refused(given, g.rules),
           NEW change, change = merge_graph_extractions(given, g.rules),
           NEW h, h = write_change_set(g, change, section),
           NEW again, again = [i \in DOMAIN given |-> Again(given[i])]
    PROVE  ~Refused(again, h.rules) /\ h = write_change_set(h, merge_graph_extractions(again, h.rules), section)
<1> DEFINE ids == DOMAIN g.rules \cup DOMAIN change
           edges == EdgesOf(change, section.job, ids)
           repeat == merge_graph_extractions(again, h.rules)
           more == EdgesOf(repeat, section.job, ids)
<1>1. Len(given) \in Nat /\ DOMAIN given = 1..Len(given)
  BY LenProperties
<1>2. \A n \in 1..Len(given) : given[n] \in Candidates /\ given[n] \in ToSet(given)
  BY <1>1, ElementOfSeq DEF ToSet
<1>3. \A n \in 1..Len(given) : IsCandidate(given[n]) /\ ~IsRefused(given[n], g.rules)
  BY <1>2 DEF Refused, IsRefused
<1>4. RulesAreSound(g.rules)
  BY DEF GraphHolds
<1>5. ChangeIsSound(change, g.rules)
  BY <1>1, <1>3, <1>4, MergeIsSound
<1>6. RulesAreSound(h.rules)
  <2>1. GraphHolds(h)
    BY <1>5, WriteIsSound
  <2> QED BY <2>1 DEF GraphHolds
<1>7. /\ h = [rules |-> h.rules, edges |-> h.edges, ranges |-> h.ranges]
      /\ h.rules = [r \in ids |-> IF r \in DOMAIN change THEN MergedRule(r, change[r], g.rules) ELSE g.rules[r]]
      /\ h.edges = [e \in DOMAIN g.edges \cup edges |->
                       IF e \in edges THEN (IF e \in DOMAIN g.edges THEN g.edges[e] ELSE {}) \cup {section.job}
                       ELSE g.edges[e]]
      /\ h.ranges = [r \in ids |-> RangesOf(g, change, section, r)]
  BY DEF write_change_set
<1>8. DOMAIN h.rules = ids /\ DOMAIN h.edges = DOMAIN g.edges \cup edges /\ DOMAIN h.ranges = ids
  BY <1>7
<1>9. again \in [1..Len(given) -> {Again(given[i]) : i \in DOMAIN given}] /\ Len(again) = Len(given)
      /\ \A n \in 1..Len(given) : again[n] = Again(given[n])
  <2>1. again \in [1..Len(given) -> {Again(given[i]) : i \in DOMAIN given}]
        /\ \A n \in 1..Len(given) : again[n] = Again(given[n])
    BY <1>1
  <2> QED BY <1>1, <2>1, LenProperties, SeqDef
<1>10. \A n \in 1..Len(given) : ~PassedOver(given[n]) => RuleIdOf(given[n]) \in DOMAIN h.rules
  BY <1>1, <1>8, RulesAreMerged
<1>11. \A n \in 1..Len(given) : ~IsRefused(again[n], h.rules)
  <2> TAKE n \in 1..Len(given)
  <2>1. PICK c : c = given[n] /\ IsCandidate(c) /\ ~IsRefused(c, g.rules)
                 /\ (~PassedOver(c) => RuleIdOf(c) \in DOMAIN h.rules)
    BY <1>3, <1>10
  <2>2. PICK d : d = again[n] /\ d = Again(c)
    BY <1>9, <2>1
  <2> QED BY <2>1, <2>2, NotRefusedAgain
<1>12. ~Refused(again, h.rules)
  <2>1. \A c \in ToSet(again) : ~IsRefused(c, h.rules)
    BY <1>9, <1>11 DEF ToSet
  <2> QED BY <2>1 DEF Refused, IsRefused
<1>13. IsRepeated(given, g.rules, again, h.rules)
  BY <1>1, <1>3, <1>4, <1>6, <1>9, <1>10, <1>11 DEF IsRepeated
<1>14. /\ DOMAIN repeat = DOMAIN change /\ ChangeIsSound(repeat, h.rules)
       /\ \A r \in DOMAIN change :
             /\ repeat[r].texts = change[r].texts /\ repeat[r].groups = change[r].groups /\ repeat[r].links = {}
             /\ \A i \in DOMAIN repeat[r].aliases :
                   \/ \E j \in DOMAIN h.rules[r].aliases : h.rules[r].aliases[j] = repeat[r].aliases[i]
                   \/ \E j \in DOMAIN change[r].aliases : KeyOf[change[r].aliases[j]] = KeyOf[repeat[r].aliases[i]]
  BY <1>13, RepeatSaysNoMore
<1> HIDE DEF repeat, edges, more
<1>15. \A r \in DOMAIN change : MergedRule(r, repeat[r], h.rules) = h.rules[r]
  <2> TAKE r \in DOMAIN change
  <2>1. PICK y : y = MergedRule(r, change[r], g.rules) /\ h.rules[r] = y
    BY <1>7
  <2>2. IsChange(r, change[r], g.rules) /\ IsChange(r, repeat[r], h.rules) /\ r \in DOMAIN h.rules
    BY <1>5, <1>8, <1>14 DEF ChangeIsSound
  <2>3. \A j \in DOMAIN change[r].aliases : \E k \in DOMAIN y.aliases : y.aliases[k] = change[r].aliases[j]
    BY <1>4, <2>1, <2>2, AliasesAreWritten
  <2>4. \A i \in DOMAIN repeat[r].aliases :
           \E j \in DOMAIN h.rules[r].aliases : KeyOf[h.rules[r].aliases[j]] = KeyOf[repeat[r].aliases[i]]
    BY <1>14, <2>1, <2>3
  <2> QED BY <1>6, <2>2, <2>4, NothingIsAdded
<1>16. more \subseteq edges
  <2>1. \A r \in DOMAIN change :
           write_named_relations(r, repeat[r], ids) \subseteq write_named_relations(r, change[r], ids)
    <3> TAKE r \in DOMAIN change
    <3>1. TextEdges(r, repeat[r]) = TextEdges(r, change[r])
      BY <1>14 DEF TextEdges
    <3>2. repeat[r].groups = change[r].groups /\ repeat[r].links = {}
      BY <1>14
    <3>3. {Edge(r, l.kind, l.id) : l \in {k \in repeat[r].links : k.id \in ids}} = {}
      BY <3>2
    <3> QED BY <3>1, <3>2, <3>3 DEF write_named_relations
  <2> DEFINE Of(id, x) == write_named_relations(id, x, ids) \cup {Edge(id, "SOURCED_FROM", SourceId(section.job))}
  <2>2. \A r \in DOMAIN change : Of(r, repeat[r]) \subseteq Of(r, change[r])
    BY <2>1
  <2>3. more = UNION {Of(r, repeat[r]) : r \in DOMAIN change} /\ edges = UNION {Of(r, change[r]) : r \in DOMAIN change}
    BY <1>14 DEF EdgesOf, edges, more
  <2> HIDE DEF Of
  <2> QED BY <2>2, <2>3
<1>17. PICK twice : twice = write_change_set(h, repeat, section)
  OBVIOUS
<1>18. /\ twice = [rules |-> twice.rules, edges |-> twice.edges, ranges |-> twice.ranges]
       /\ twice.rules = [r \in ids |-> IF r \in DOMAIN change THEN MergedRule(r, repeat[r], h.rules) ELSE h.rules[r]]
       /\ twice.edges = [e \in DOMAIN h.edges \cup more |->
                             IF e \in more THEN (IF e \in DOMAIN h.edges THEN h.edges[e] ELSE {}) \cup {section.job}
                             ELSE h.edges[e]]
       /\ twice.ranges = [r \in ids |-> RangesOf(h, repeat, section, r)]
  <2>1. DOMAIN h.rules \cup DOMAIN repeat = ids
    BY <1>8, <1>14
  <2> QED BY <1>14, <1>17, <2>1 DEF write_change_set, more
<1>19. twice.rules = h.rules
  <2>1. h.rules = [r \in ids |-> h.rules[r]]
    <3>1. PICK f : f = h.rules
      OBVIOUS
    <3>2. f = [r \in ids |-> IF r \in DOMAIN change THEN MergedRule(r, change[r], g.rules) ELSE g.rules[r]]
      BY <1>7, <3>1
    <3>3. f = [r \in ids |-> f[r]]
      BY <3>2
    <3> QED BY <3>1, <3>3
  <2>2. \A r \in ids : h.rules[r] = IF r \in DOMAIN change THEN MergedRule(r, repeat[r], h.rules) ELSE h.rules[r]
    BY <1>15
  <2>3. [r \in ids |-> IF r \in DOMAIN change THEN MergedRule(r, repeat[r], h.rules) ELSE h.rules[r]]
            = [r \in ids |-> h.rules[r]]
    BY <2>2
  <2> QED BY <1>18, <2>1, <2>3
<1>20. twice.edges = h.edges
  <2>1. \A e \in more : e \in DOMAIN h.edges /\ section.job \in h.edges[e]
    BY <1>7, <1>8, <1>16
  <2>2. h.edges = [e \in DOMAIN h.edges |-> h.edges[e]]
    BY <1>7
  <2>3. DOMAIN h.edges \cup more = DOMAIN h.edges
    BY <2>1
  <2>4. PICK D : D = DOMAIN h.edges
    OBVIOUS
  <2>5. twice.edges = [e \in D |-> IF e \in more THEN (IF e \in D THEN h.edges[e] ELSE {}) \cup {section.job}
                                    ELSE h.edges[e]]
    BY <1>18, <2>3, <2>4
  <2>6. \A e \in D : (IF e \in more THEN (IF e \in D THEN h.edges[e] ELSE {}) \cup {section.job}
                      ELSE h.edges[e]) = h.edges[e]
    BY <2>1
  <2>7. twice.edges = [e \in D |-> h.edges[e]]
    BY <2>5, <2>6
  <2> QED BY <2>2, <2>4, <2>7
<1>21. twice.ranges = h.ranges
  <2>1. \A r \in ids : RangesOf(h, repeat, section, r) = h.ranges[r]
    <3> TAKE r \in ids
    <3>1. h.ranges[r] = RangesOf(g, change, section, r) /\ r \in DOMAIN h.ranges
      BY <1>7, <1>8
    <3>2. r \in DOMAIN change => section \in h.ranges[r]
      BY <3>1 DEF RangesOf
    <3> QED BY <1>14, <3>1, <3>2 DEF RangesOf
  <2>2. twice.ranges = [r \in ids |-> RangesOf(h, repeat, section, r)]
    BY <1>18
  <2>3. h.ranges = [r \in ids |-> h.ranges[r]]
    BY <1>7
  <2> HIDE DEF ids
  <2>4. twice.ranges = [r \in ids |-> h.ranges[r]]
    BY <2>1, <2>2
  <2> QED BY <2>3, <2>4
<1> QED BY <1>7, <1>12, <1>17, <1>18, <1>19, <1>20, <1>21 DEF repeat

\* What a session is about to write is what was submitted, merged with the graph.
GivenHolds(Candidates) ==
    session.pc \in {"apply", "write"} =>
        /\ session.given \in Seq(Candidates) /\ ~Refused(session.given, graph.rules)
        /\ session.change = merge_graph_extractions(session.given, graph.rules)

LEMMA GivenIsKept ==
    ASSUME NEW Candidates, NEW submissions \in SUBSET Seq(Candidates),
           RuleInv, GivenHolds(Candidates), [GraphNext(submissions)]_graphVars
    PROVE  GivenHolds(Candidates)'
<1>1. session = [pc |-> session.pc, section |-> session.section, given |-> session.given,
                 change |-> session.change, existing |-> session.existing, result |-> session.result]
  BY DEF RuleInv, GraphIsReadable
<1>2. ASSUME session'.pc \notin {"apply", "write"} PROVE GivenHolds(Candidates)'
  BY <1>2 DEF GivenHolds
<1>3. CASE \E s \in Sections : extract_graph_section(s)
  <2>1. session'.pc = "model"
    BY <1>3 DEF extract_graph_section, NoSession
  <2> QED BY <1>2, <2>1
<1>4. ASSUME NEW submission \in submissions, submit(submission) PROVE GivenHolds(Candidates)'
  <2> DEFINE change == merge_graph_extractions(submission, graph.rules)
  <2>1. /\ graph' = graph /\ ~Refused(submission, graph.rules) /\ submission \in Seq(Candidates)
        /\ \/ session' = [session EXCEPT !.result = NoSubmission, !.pc = "submitted"]
           \/ session' = [session EXCEPT !.given = submission, !.change = change, !.pc = "apply"]
    BY <1>4 DEF submit
  <2>2. CASE session' = [session EXCEPT !.result = NoSubmission, !.pc = "submitted"]
    <3>1. session'.pc = "submitted"
      BY <1>1, <2>2
    <3> QED BY <1>2, <3>1
  <2>3. CASE session' = [session EXCEPT !.given = submission, !.change = change, !.pc = "apply"]
    <3> HIDE DEF change
    <3>1. session'.given = submission /\ session'.change = change
      BY <1>1, <2>3
    <3> QED BY <2>1, <3>1 DEF change, GivenHolds
  <2> QED BY <2>1, <2>2, <2>3
<1>5. CASE apply_rules_read
  <2>1. /\ session.pc = "apply" /\ graph' = graph
        /\ session' = [session EXCEPT !.pc = "write", !.existing = Rules \cap DOMAIN session.change]
    BY <1>5 DEF apply_rules_read
  <2>2. session'.given = session.given /\ session'.change = session.change
    BY <1>1, <2>1
  <2>3. /\ session.given \in Seq(Candidates) /\ ~Refused(session.given, graph.rules)
        /\ session.change = merge_graph_extractions(session.given, graph.rules)
    BY <2>1 DEF GivenHolds
  <2>4. /\ session'.given \in Seq(Candidates) /\ ~Refused(session'.given, graph'.rules)
        /\ session'.change = merge_graph_extractions(session'.given, graph'.rules)
    BY <2>1, <2>2, <2>3
  <2> QED BY <2>4 DEF GivenHolds
<1>6. CASE apply_rules_write
  <2>1. session'.pc = "submitted"
    BY <1>6 DEF apply_rules_write, NoSession
  <2> QED BY <1>2, <2>1
<1>7. CASE go_on
  <2>1. session' = [session EXCEPT !.pc = "model"]
    BY <1>7 DEF go_on
  <2>2. session'.pc = "model"
    BY <1>1, <2>1
  <2> QED BY <1>2, <2>2
<1>8. CASE finalize \/ fail
  <2>1. session'.pc = "none"
    <3>1. session' = NoSession
      BY <1>8 DEF finalize, fail
    <3>2. NoSession.pc = "none"
      BY DEF NoSession
    <3> QED BY <3>1, <3>2
  <2> QED BY <1>2, <2>1
<1>9. CASE UNCHANGED graphVars
  <2>1. session' = session /\ graph' = graph
    BY <1>9 DEF graphVars
  <2> QED BY <2>1 DEF GivenHolds
<1> QED BY <1>3, <1>4, <1>5, <1>6, <1>7, <1>8, <1>9 DEF GraphNext

\* A section that is repeated after its rules were committed (execute_graph_organizing_job
\* runs it again, GraphStore.apply_rules merges by id) adds nothing when the model
\* names the rules it finds: it is not refused, and the graph stays what it is.
THEOREM RepeatsAddNothing ==
    ASSUME NEW CONSTANT Candidates, \A c \in Candidates : IsCandidate(c),
           NEW CONSTANT submissions \in SUBSET Seq(Candidates)
    PROVE  GraphInit /\ [][GraphNext(submissions)]_graphVars => []RepeatAddsNothing
<1>1. GraphInit => RuleInv /\ GivenHolds(Candidates)
  <2>1. GraphInit => session.pc = "none"
    <3>1. GraphInit => session = NoSession
      BY DEF GraphInit
    <3>2. NoSession.pc = "none"
      BY DEF NoSession
    <3> QED BY <3>1, <3>2
  <2> QED BY <2>1, RuleInvAtFirst DEF GivenHolds
<1>2. RuleInv /\ GivenHolds(Candidates) /\ [GraphNext(submissions)]_graphVars => RuleInv' /\ GivenHolds(Candidates)'
  BY RuleInvIsKept, GivenIsKept
<1>3. RuleInv /\ GivenHolds(Candidates) => RepeatAddsNothing
  <2> SUFFICES ASSUME RuleInv, GivenHolds(Candidates), session.pc = "write" PROVE RepeatAddsNothing
    BY DEF RepeatAddsNothing
  <2>1. /\ session.given \in Seq(Candidates) /\ ~Refused(session.given, graph.rules)
        /\ session.change = merge_graph_extractions(session.given, graph.rules)
        /\ GraphHolds(graph) /\ session.section \in Sections
    BY DEF RuleInv, SessionHolds, GivenHolds
  <2>2. PICK once : once = write_change_set(graph, session.change, session.section)
    OBVIOUS
  <2>3. PICK again : again = [i \in DOMAIN session.given |-> Again(session.given[i])]
    OBVIOUS
  <2>4. /\ ~Refused(again, once.rules)
        /\ once = write_change_set(once, merge_graph_extractions(again, once.rules), session.section)
    BY <2>1, <2>2, <2>3, RepeatWritesNothing
  <2>5. again = [i \in DOMAIN session.given |->
                    [session.given[i] EXCEPT !.existing = RuleIdOf(session.given[i]), !.links = {}]]
    BY <2>3 DEF Again
  <2> QED BY <2>2, <2>4, <2>5 DEF RepeatAddsNothing
<1> QED BY <1>1, <1>2, <1>3, PTL
=============================================================================

----------------------------- MODULE SumProofs -----------------------------
(***************************************************************************)
(* Lemmas about sums: SumFunctionOnSet(f, S) of the community modules adds *)
(* f[x] over the members of a finite set.  It is a fold by a function that *)
(* is defined recursively on the subsets of S, so that it does add up is   *)
(* shown here first: the recursion is well defined, and a term can be      *)
(* split off whichever member the fold takes first.                        *)
(*                                                                         *)
(* Induction is by a least counterexample: among the sets that disagree    *)
(* with a claim there is one all of whose proper subsets agree with it.    *)
(***************************************************************************)
EXTENDS Integers, FiniteSetsExt, Functions, TLAPS, FiniteSetTheorems, WellFoundedInduction

\* A set of finite sets that is not empty has a member with no proper subset in it.
LEMMA SmallestMember ==
  ASSUME NEW S, IsFiniteSet(S), NEW T, T \subseteq SUBSET S, T # {}
  PROVE  \E m \in T : \A s \in T : s \subseteq m => s = m
<1>1. T \subseteq FiniteSubsetsOf(S)
  BY FS_FiniteSubsetsOfFinite
<1>2. IsWellFoundedOn(StrictSubsetOrdering(S), FiniteSubsetsOf(S))
  BY FS_StrictSubsetOrderingWellFounded
<1>3. PICK m \in T : \A s \in T : ~(<<s, m>> \in StrictSubsetOrdering(S))
  BY <1>1, <1>2, WFMin
<1>4. \A s \in T : s \subseteq m => s = m
  BY <1>1, <1>3 DEF StrictSubsetOrdering
<1>5. QED BY <1>4

\* Induction over the subsets of a finite set.
LEMMA SubsetInduction ==
  ASSUME NEW S, IsFiniteSet(S), NEW Good,
         \A s \in SUBSET S : (\A t \in SUBSET s : t # s => t \in Good) => s \in Good
  PROVE  S \in Good
<1> DEFINE Bad == {s \in SUBSET S : s \notin Good}
<1>1. SUFFICES ASSUME Bad # {} PROVE FALSE
  OBVIOUS
<1>2. PICK m \in Bad : \A s \in Bad : s \subseteq m => s = m
  <2>1. Bad \subseteq SUBSET S OBVIOUS
  <2> HIDE DEF Bad
  <2>2. QED BY <1>1, <2>1, SmallestMember
<1>3. \A t \in SUBSET m : t # m => t \in Good BY <1>2
<1>4. QED BY <1>3

-----------------------------------------------------------------------------
(* The recursion behind a sum.                                              *)

First(s) == CHOOSE x \in s : TRUE
Rest(s) == s \ {First(s)}

SumsUp(f, S, g) ==
  g = [s \in SUBSET S |-> IF s = {} THEN 0 ELSE f[First(s)] + g[Rest(s)]]

LEMMA SumIsFold ==
  ASSUME NEW f, NEW S
  PROVE  SumFunctionOnSet(f, S) = (CHOOSE g : SumsUp(f, S, g))[S]
BY DEF SumFunctionOnSet, FoldFunctionOnSet, MapThenFoldSet, SumsUp, First, Rest

LEMMA FirstIsMember == ASSUME NEW s, s # {} PROVE First(s) \in s
BY DEF First

\* Two such functions agree where both are defined.
LEMMA SumsAgree ==
  ASSUME NEW f, NEW A, NEW B, NEW g, NEW h, SumsUp(f, A, g), SumsUp(f, B, h), IsFiniteSet(A),
         NEW s, s \subseteq A, s \subseteq B
  PROVE  g[s] = h[s]
<1> DEFINE Bad == {t \in SUBSET A : t \subseteq B /\ g[t] # h[t]}
<1>1. SUFFICES ASSUME Bad # {} PROVE FALSE
  OBVIOUS
<1>2. PICK m \in Bad : \A t \in Bad : t \subseteq m => t = m
  <2>1. Bad \subseteq SUBSET A OBVIOUS
  <2> HIDE DEF Bad
  <2>2. QED BY <1>1, <2>1, SmallestMember
<1>3. CASE m = {}
  BY <1>3 DEF SumsUp
<1>4. CASE m # {}
  <2>1. First(m) \in m BY <1>4, FirstIsMember
  <2>2. Rest(m) \subseteq m /\ Rest(m) # m BY <2>1 DEF Rest
  <2>3. Rest(m) \notin Bad BY <1>2, <2>2
  <2>4. Rest(m) \subseteq A /\ Rest(m) \subseteq B BY <2>2
  <2>5. g[Rest(m)] = h[Rest(m)] BY <2>3, <2>4
  <2>6. g[m] = f[First(m)] + g[Rest(m)] /\ h[m] = f[First(m)] + h[Rest(m)]
    BY <1>4 DEF SumsUp
  <2>7. QED BY <2>5, <2>6
<1>5. QED BY <1>3, <1>4

\* There is such a function for every finite set.
LEMMA SumsExist ==
  ASSUME NEW f, NEW S, IsFiniteSet(S)
  PROVE  \E g : SumsUp(f, S, g)
<1> DEFINE Bad == {t \in SUBSET S : ~ \E g : SumsUp(f, t, g)}
<1>1. SUFFICES ASSUME Bad # {} PROVE FALSE
  OBVIOUS
<1>2. PICK m \in Bad : \A t \in Bad : t \subseteq m => t = m
  <2>1. Bad \subseteq SUBSET S OBVIOUS
  <2> HIDE DEF Bad
  <2>2. QED BY <1>1, <2>1, SmallestMember
<1> DEFINE G(t) == CHOOSE g : SumsUp(f, t, g)
           below == [t \in SUBSET m |-> G(t)[t]]
           sum == [t \in SUBSET m |-> IF t = {} THEN 0 ELSE f[First(t)] + below[Rest(t)]]
<1>3. ASSUME NEW t \in SUBSET m, t # m PROVE SumsUp(f, t, G(t))
  <2>1. t \notin Bad BY <1>2, <1>3
  <2>2. \E g : SumsUp(f, t, g) BY <2>1
  <2>3. QED BY <2>2
<1>4. ASSUME NEW t \in SUBSET m, t # {}
      PROVE  Rest(t) \in SUBSET m /\ Rest(t) # m /\ Rest(t) # t /\ Rest(t) \subseteq t
  BY <1>4, FirstIsMember DEF Rest
<1>5. ASSUME NEW t \in SUBSET m, t # m, t # {} PROVE below[t] = f[First(t)] + below[Rest(t)]
  <2> DEFINE r == Rest(t)
  <2>1. SumsUp(f, t, G(t)) /\ SumsUp(f, r, G(r)) BY <1>3, <1>4, <1>5
  <2>2. IsFiniteSet(t) /\ IsFiniteSet(r) BY <1>4, <1>5, FS_Subset
  <2> HIDE DEF G
  <2>3. G(t)[r] = G(r)[r] BY <1>4, <1>5, <2>1, <2>2, SumsAgree
  <2>4. G(t)[t] = f[First(t)] + G(t)[r] BY <1>5, <2>1 DEF SumsUp
  <2>5. below[t] = G(t)[t] /\ below[r] = G(r)[r] BY <1>4, <1>5
  <2>6. QED BY <2>3, <2>4, <2>5
<1>6. below[{}] = 0 \/ m = {}
  <2>1. CASE m # {}
    <3>1. SumsUp(f, {}, G({})) BY <1>3, <2>1
    <3> HIDE DEF G
    <3>2. G({})[{}] = 0 BY <3>1 DEF SumsUp
    <3>3. QED BY <3>2
  <2>2. QED BY <2>1
<1> HIDE DEF below
<1>7. ASSUME NEW t \in SUBSET m PROVE sum[t] = IF t = {} THEN 0 ELSE f[First(t)] + sum[Rest(t)]
  <2>1. CASE t = {} BY <2>1
  <2>2. CASE t # {}
    <3>1. sum[t] = f[First(t)] + below[Rest(t)] BY <2>2
    <3>2. sum[Rest(t)] = below[Rest(t)]
      <4>1. CASE Rest(t) = {} BY <1>4, <1>6, <2>2, <4>1
      <4>2. CASE Rest(t) # {}
        <5>1. below[Rest(t)] = f[First(Rest(t))] + below[Rest(Rest(t))] BY <1>4, <1>5, <2>2, <4>2
        <5>2. QED BY <1>4, <2>2, <4>2, <5>1
      <4>3. QED BY <4>1, <4>2
    <3>3. QED BY <2>2, <3>1, <3>2
  <2>3. QED BY <2>1, <2>2
<1>8. SumsUp(f, m, sum)
  <2>1. sum = [t \in SUBSET m |-> sum[t]] OBVIOUS
  <2> HIDE DEF sum
  <2>2. QED BY <1>7, <2>1 DEF SumsUp
<1>9. m \notin Bad BY <1>8
<1>10. QED BY <1>2, <1>9

\* So a sum is what any function that sums up says.
LEMMA SumIs ==
  ASSUME NEW f, NEW S, IsFiniteSet(S), NEW A, IsFiniteSet(A), NEW g, SumsUp(f, A, g), S \subseteq A
  PROVE  SumFunctionOnSet(f, S) = g[S]
<1> DEFINE h == CHOOSE k : SumsUp(f, S, k)
<1>1. SumsUp(f, S, h) BY SumsExist
<1>2. SumFunctionOnSet(f, S) = h[S] BY SumIsFold
<1> HIDE DEF h
<1>3. QED BY <1>1, <1>2, SumsAgree

LEMMA SumOverNone == ASSUME NEW f PROVE SumFunctionOnSet(f, {}) = 0
<1>1. IsFiniteSet({}) BY FS_EmptySet
<1>2. PICK g : SumsUp(f, {}, g) BY <1>1, SumsExist
<1>3. g[{}] = 0 BY <1>2 DEF SumsUp
<1>4. QED BY <1>1, <1>2, <1>3, SumIs

LEMMA SumSplitsFirst ==
  ASSUME NEW f, NEW S, IsFiniteSet(S), S # {}
  PROVE  SumFunctionOnSet(f, S) = f[First(S)] + SumFunctionOnSet(f, Rest(S))
<1>1. PICK g : SumsUp(f, S, g) BY SumsExist
<1>2. Rest(S) \subseteq S /\ IsFiniteSet(Rest(S)) BY FS_Subset DEF Rest
<1>3. g[S] = f[First(S)] + g[Rest(S)] BY <1>1 DEF SumsUp
<1>4. QED BY <1>1, <1>2, <1>3, SumIs

-----------------------------------------------------------------------------
(* What sums do.                                                            *)

LEMMA SumIsInt ==
  ASSUME NEW f, NEW S, IsFiniteSet(S), \A x \in S : f[x] \in Int
  PROVE  SumFunctionOnSet(f, S) \in Int
<1> DEFINE Good == {s \in SUBSET S : SumFunctionOnSet(f, s) \in Int}
<1>1. ASSUME NEW s \in SUBSET S, \A t \in SUBSET s : t # s => t \in Good
      PROVE  s \in Good
  <2>1. CASE s = {} BY <2>1, SumOverNone
  <2>2. CASE s # {}
    <3>1. First(s) \in s /\ Rest(s) \in SUBSET s /\ Rest(s) # s BY <2>2, FirstIsMember DEF Rest
    <3>2. SumFunctionOnSet(f, Rest(s)) \in Int BY <1>1, <3>1
    <3>3. f[First(s)] \in Int BY <3>1
    <3>4. IsFiniteSet(s) BY FS_Subset
    <3>5. SumFunctionOnSet(f, s) = f[First(s)] + SumFunctionOnSet(f, Rest(s))
      BY <2>2, <3>4, SumSplitsFirst
    <3>6. QED BY <3>2, <3>3, <3>5
  <2>3. QED BY <2>1, <2>2
<1>2. S \in Good
  <2> HIDE DEF Good
  <2>1. QED BY <1>1, SubsetInduction
<1>3. QED BY <1>2

LEMMA SumIsNat ==
  ASSUME NEW f, NEW S, IsFiniteSet(S), \A x \in S : f[x] \in Nat
  PROVE  SumFunctionOnSet(f, S) \in Nat
<1> DEFINE Good == {s \in SUBSET S : SumFunctionOnSet(f, s) \in Nat}
<1>1. ASSUME NEW s \in SUBSET S, \A t \in SUBSET s : t # s => t \in Good
      PROVE  s \in Good
  <2>1. CASE s = {} BY <2>1, SumOverNone
  <2>2. CASE s # {}
    <3>1. First(s) \in s /\ Rest(s) \in SUBSET s /\ Rest(s) # s BY <2>2, FirstIsMember DEF Rest
    <3>2. SumFunctionOnSet(f, Rest(s)) \in Nat BY <1>1, <3>1
    <3>3. f[First(s)] \in Nat BY <3>1
    <3>4. IsFiniteSet(s) BY FS_Subset
    <3>5. SumFunctionOnSet(f, s) = f[First(s)] + SumFunctionOnSet(f, Rest(s))
      BY <2>2, <3>4, SumSplitsFirst
    <3>6. QED BY <3>2, <3>3, <3>5
  <2>3. QED BY <2>1, <2>2
<1>2. S \in Good
  <2> HIDE DEF Good
  <2>1. QED BY <1>1, SubsetInduction
<1>3. QED BY <1>2

\* Any member can be split off.
LEMMA SumSplits ==
  ASSUME NEW f, NEW S, IsFiniteSet(S), \A x \in S : f[x] \in Int, NEW e \in S
  PROVE  SumFunctionOnSet(f, S) = f[e] + SumFunctionOnSet(f, S \ {e})
<1> DEFINE Sum(s) == SumFunctionOnSet(f, s)
           Good == {s \in SUBSET S : \A x \in s : Sum(s) = f[x] + Sum(s \ {x})}
<1>0. ASSUME NEW s \in SUBSET S PROVE IsFiniteSet(s) /\ Sum(s) \in Int
  BY FS_Subset, SumIsInt
<1>1. ASSUME NEW s \in SUBSET S, \A t \in SUBSET s : t # s => t \in Good
      PROVE  s \in Good
  <2>1. ASSUME NEW x \in s PROVE Sum(s) = f[x] + Sum(s \ {x})
    <3> DEFINE c == First(s)
    <3>1. c \in s BY <2>1, FirstIsMember
    <3>2. Sum(s) = f[c] + Sum(s \ {c}) BY <1>0, <2>1, SumSplitsFirst DEF Rest
    <3> HIDE DEF Sum, c
    <3>3. CASE x = c BY <3>2, <3>3
    <3>4. CASE x # c
      <4>1. s \ {c} \in Good /\ s \ {x} \in Good BY <1>1, <3>1
      <4>2. Sum(s \ {c}) = f[x] + Sum((s \ {c}) \ {x}) BY <3>4, <4>1
      <4>3. Sum(s \ {x}) = f[c] + Sum((s \ {x}) \ {c}) BY <3>1, <3>4, <4>1
      <4>4. (s \ {c}) \ {x} = (s \ {x}) \ {c} /\ (s \ {c}) \ {x} \in SUBSET S OBVIOUS
      <4>5. f[x] \in Int /\ f[c] \in Int /\ Sum((s \ {c}) \ {x}) \in Int BY <1>0, <3>1, <4>4
      <4> DEFINE q == Sum((s \ {c}) \ {x})
      <4>6. Sum(s) = f[c] + (f[x] + q) BY <3>2, <4>2
      <4>7. Sum(s \ {x}) = f[c] + q BY <4>3, <4>4
      <4>8. q \in Int BY <4>5
      <4> HIDE DEF q
      <4>9. f[c] + (f[x] + q) = f[x] + (f[c] + q) BY <4>5, <4>8
      <4>10. QED BY <4>6, <4>7, <4>9
    <3>5. QED BY <3>3, <3>4
  <2>2. QED BY <2>1
<1>2. S \in Good
  <2> HIDE DEF Good
  <2>1. QED BY <1>1, SubsetInduction
<1>3. QED BY <1>2

LEMMA SumWithOneMore ==
  ASSUME NEW f, NEW S, IsFiniteSet(S), NEW e, e \notin S, f[e] \in Int, \A x \in S : f[x] \in Int
  PROVE  SumFunctionOnSet(f, S \cup {e}) = SumFunctionOnSet(f, S) + f[e]
<1>1. IsFiniteSet(S \cup {e}) BY FS_AddElement
<1>2. SumFunctionOnSet(f, S \cup {e}) = f[e] + SumFunctionOnSet(f, (S \cup {e}) \ {e})
  BY <1>1, SumSplits
<1>3. (S \cup {e}) \ {e} = S OBVIOUS
<1>4. SumFunctionOnSet(f, S) \in Int BY SumIsInt
<1>5. f[e] + SumFunctionOnSet(f, S) = SumFunctionOnSet(f, S) + f[e] BY <1>4
<1>6. QED BY <1>2, <1>3, <1>5

\* Sums of the same terms are the same.
LEMMA SumOfSameTerms ==
  ASSUME NEW f, NEW g, NEW S, IsFiniteSet(S), \A x \in S : f[x] = g[x]
  PROVE  SumFunctionOnSet(f, S) = SumFunctionOnSet(g, S)
<1> DEFINE Good == {s \in SUBSET S : SumFunctionOnSet(f, s) = SumFunctionOnSet(g, s)}
<1>1. ASSUME NEW s \in SUBSET S, \A t \in SUBSET s : t # s => t \in Good
      PROVE  s \in Good
  <2>1. CASE s = {} BY <2>1, SumOverNone
  <2>2. CASE s # {}
    <3>1. First(s) \in s /\ Rest(s) \in SUBSET s /\ Rest(s) # s BY <2>2, FirstIsMember DEF Rest
    <3>2. SumFunctionOnSet(f, Rest(s)) = SumFunctionOnSet(g, Rest(s)) BY <1>1, <3>1
    <3>3. f[First(s)] = g[First(s)] BY <3>1
    <3>4. IsFiniteSet(s) BY FS_Subset
    <3>5. /\ SumFunctionOnSet(f, s) = f[First(s)] + SumFunctionOnSet(f, Rest(s))
          /\ SumFunctionOnSet(g, s) = g[First(s)] + SumFunctionOnSet(g, Rest(s))
      BY <2>2, <3>4, SumSplitsFirst
    <3>6. QED BY <3>2, <3>3, <3>5
  <2>3. QED BY <2>1, <2>2
<1>2. S \in Good
  <2> HIDE DEF Good
  <2>1. QED BY <1>1, SubsetInduction
<1>3. QED BY <1>2

\* A term that changes changes the sum by as much.
LEMMA SumOfChangedTerm ==
  ASSUME NEW f, NEW g, NEW S, IsFiniteSet(S), NEW e \in S,
         \A x \in S : f[x] \in Int, g[e] \in Int, \A x \in S \ {e} : g[x] = f[x]
  PROVE  SumFunctionOnSet(g, S) = SumFunctionOnSet(f, S) - f[e] + g[e]
<1> DEFINE T == S \ {e}
<1>1. IsFiniteSet(T) BY FS_RemoveElement
<1>2. \A x \in S : g[x] \in Int OBVIOUS
<1>3. SumFunctionOnSet(f, S) = f[e] + SumFunctionOnSet(f, T) BY SumSplits
<1>4. SumFunctionOnSet(g, S) = g[e] + SumFunctionOnSet(g, T) BY <1>2, SumSplits
<1>5. SumFunctionOnSet(f, T) = SumFunctionOnSet(g, T) BY <1>1, SumOfSameTerms
<1>6. SumFunctionOnSet(f, T) \in Int BY <1>1, SumIsInt
<1>7. QED BY <1>3, <1>4, <1>5, <1>6

\* The sum of sums, term by term.
LEMMA SumOfSums ==
  ASSUME NEW f, NEW g, NEW h, NEW S, IsFiniteSet(S),
         \A x \in S : f[x] \in Int /\ g[x] \in Int /\ h[x] = f[x] + g[x]
  PROVE  SumFunctionOnSet(h, S) = SumFunctionOnSet(f, S) + SumFunctionOnSet(g, S)
<1> DEFINE Good == {s \in SUBSET S : SumFunctionOnSet(h, s) = SumFunctionOnSet(f, s) + SumFunctionOnSet(g, s)}
<1>1. ASSUME NEW s \in SUBSET S, \A t \in SUBSET s : t # s => t \in Good
      PROVE  s \in Good
  <2>1. CASE s = {} BY <2>1, SumOverNone
  <2>2. CASE s # {}
    <3> DEFINE c == First(s)
               r == Rest(s)
    <3>1. c \in s /\ r \in SUBSET s /\ r # s BY <2>2, FirstIsMember DEF Rest
    <3>2. IsFiniteSet(s) /\ IsFiniteSet(r) BY <3>1, FS_Subset
    <3>3. /\ SumFunctionOnSet(f, s) = f[c] + SumFunctionOnSet(f, r)
          /\ SumFunctionOnSet(g, s) = g[c] + SumFunctionOnSet(g, r)
          /\ SumFunctionOnSet(h, s) = h[c] + SumFunctionOnSet(h, r)
      BY <2>2, <3>2, SumSplitsFirst
    <3> HIDE DEF c, r
    <3>4. SumFunctionOnSet(h, r) = SumFunctionOnSet(f, r) + SumFunctionOnSet(g, r) BY <1>1, <3>1
    <3>5. SumFunctionOnSet(f, r) \in Int /\ SumFunctionOnSet(g, r) \in Int BY <3>1, <3>2, SumIsInt
    <3>6. f[c] \in Int /\ g[c] \in Int /\ h[c] = f[c] + g[c] BY <3>1
    <3>7. QED BY <3>3, <3>4, <3>5, <3>6
  <2>3. QED BY <2>1, <2>2
<1>2. S \in Good
  <2> HIDE DEF Good
  <2>1. QED BY <1>1, SubsetInduction
<1>3. QED BY <1>2

\* A term that may or may not be among those added.
LEMMA SumLessOne ==
  ASSUME NEW f, NEW S, IsFiniteSet(S), \A x \in S : f[x] \in Int, NEW e
  PROVE  SumFunctionOnSet(f, S) =
           SumFunctionOnSet(f, S \ {e}) + (IF e \in S THEN f[e] ELSE 0)
<1>1. SumFunctionOnSet(f, S \ {e}) \in Int BY FS_RemoveElement, SumIsInt
<1>2. CASE e \in S
  <2>1. SumFunctionOnSet(f, S) = f[e] + SumFunctionOnSet(f, S \ {e}) BY <1>2, SumSplits
  <2>2. f[e] \in Int BY <1>2
  <2>3. QED BY <1>1, <1>2, <2>1, <2>2
<1>3. CASE e \notin S
  <2>1. S \ {e} = S BY <1>3
  <2>2. SumFunctionOnSet(f, S) = SumFunctionOnSet(f, S \ {e}) BY <2>1
  <2>3. QED BY <1>1, <1>3, <2>2
<1>4. QED BY <1>2, <1>3

\* A sum is the sum over a part of its terms and the sum over the others.
LEMMA SumOfParts ==
  ASSUME NEW f, NEW S, IsFiniteSet(S), \A x \in S : f[x] \in Int, NEW P
  PROVE  SumFunctionOnSet(f, S) = SumFunctionOnSet(f, S \cap P) + SumFunctionOnSet(f, S \ P)
<1> DEFINE Sum(s) == SumFunctionOnSet(f, s)
           Good == {s \in SUBSET S : Sum(s) = Sum(s \cap P) + Sum(s \ P)}
<1>1. ASSUME NEW s \in SUBSET S, \A t \in SUBSET s : t # s => t \in Good
      PROVE  s \in Good
  <2>1. CASE s = {}
    <3>1. s \cap P = {} /\ s \ P = {} BY <2>1
    <3>2. QED BY <2>1, <3>1, SumOverNone
  <2>2. CASE s # {}
    <3> DEFINE c == First(s)
               r == s \ {c}
    <3>1. c \in s /\ r \in SUBSET s /\ r # s BY <2>2, FirstIsMember
    <3> HIDE DEF c
    <3>2. /\ IsFiniteSet(s) /\ IsFiniteSet(s \cap P) /\ IsFiniteSet(s \ P)
          /\ IsFiniteSet(r \cap P) /\ IsFiniteSet(r \ P)
      BY <3>1, FS_Subset
    <3>3. Sum(s) = f[c] + Sum(r) /\ f[c] \in Int
      <4>1. \A x \in s : f[x] \in Int OBVIOUS
      <4>2. SumFunctionOnSet(f, s) = f[c] + SumFunctionOnSet(f, s \ {c})
        BY <3>1, <3>2, <4>1, SumSplits
      <4>3. QED BY <3>1, <4>2
    <3>4. Sum(s \cap P) = (IF c \in P THEN f[c] ELSE 0) + Sum(r \cap P)
      <4> DEFINE inner == s \cap P
      <4>1. CASE c \in P
        <5>1. c \in inner /\ r \cap P = inner \ {c} /\ \A x \in inner : f[x] \in Int BY <3>1, <4>1
        <5>2. IsFiniteSet(inner) BY <3>2
        <5> HIDE DEF inner, r
        <5>3. SumFunctionOnSet(f, inner) = f[c] + SumFunctionOnSet(f, inner \ {c})
          BY <5>1, <5>2, SumSplits
        <5>4. QED BY <4>1, <5>1, <5>3 DEF inner
      <4>2. CASE c \notin P
        <5>1. s \cap P = r \cap P BY <3>1, <4>2
        <5>2. Sum(r \cap P) \in Int BY <3>1, <3>2, SumIsInt
        <5> HIDE DEF r, Sum
        <5>3. 0 + Sum(r \cap P) = Sum(r \cap P) BY <5>2
        <5>4. QED BY <4>2, <5>1, <5>3, Zenon
      <4>3. QED BY <4>1, <4>2
    <3>5. Sum(s \ P) = (IF c \in P THEN 0 ELSE f[c]) + Sum(r \ P)
      <4> DEFINE outer == s \ P
      <4>1. CASE c \notin P
        <5>1. c \in outer /\ r \ P = outer \ {c} /\ \A x \in outer : f[x] \in Int BY <3>1, <4>1
        <5>2. IsFiniteSet(outer) BY <3>2
        <5> HIDE DEF outer, r
        <5>3. SumFunctionOnSet(f, outer) = f[c] + SumFunctionOnSet(f, outer \ {c})
          BY <5>1, <5>2, SumSplits
        <5>4. QED BY <4>1, <5>1, <5>3 DEF outer
      <4>2. CASE c \in P
        <5>1. s \ P = r \ P BY <3>1, <4>2
        <5>2. Sum(r \ P) \in Int BY <3>1, <3>2, SumIsInt
        <5> HIDE DEF r, Sum
        <5>3. 0 + Sum(r \ P) = Sum(r \ P) BY <5>2
        <5>4. QED BY <4>2, <5>1, <5>3, Zenon
      <4>3. QED BY <4>1, <4>2
    <3>6. Sum(r) = Sum(r \cap P) + Sum(r \ P) BY <1>1, <3>1
    <3>7. Sum(r \cap P) \in Int /\ Sum(r \ P) \in Int BY <3>1, <3>2, SumIsInt
    <3> HIDE DEF r, Sum
    <3>8. Sum(s) = Sum(s \cap P) + Sum(s \ P)
      <4>1. CASE c \in P BY <3>3, <3>4, <3>5, <3>6, <3>7, <4>1
      <4>2. CASE c \notin P BY <3>3, <3>4, <3>5, <3>6, <3>7, <4>2
      <4>3. QED BY <4>1, <4>2
    <3>9. QED BY <3>8
  <2>3. QED BY <2>1, <2>2
<1>2. S \in Good
  <2> HIDE DEF Good
  <2>1. QED BY <1>1, SubsetInduction
<1>3. QED BY <1>2

\* Part of a sum of naturals is at most all of it.
LEMMA SumOfFewer ==
  ASSUME NEW f, NEW S, IsFiniteSet(S), \A x \in S : f[x] \in Nat, NEW P, P \subseteq S
  PROVE  SumFunctionOnSet(f, P) <= SumFunctionOnSet(f, S)
<1>1. S \cap P = P OBVIOUS
<1>2. IsFiniteSet(P) /\ IsFiniteSet(S \ P) BY FS_Subset
<1>3. SumFunctionOnSet(f, P) \in Nat /\ SumFunctionOnSet(f, S \ P) \in Nat BY <1>2, SumIsNat
<1>4. SumFunctionOnSet(f, S) = SumFunctionOnSet(f, P) + SumFunctionOnSet(f, S \ P)
  BY <1>1, SumOfParts
<1>5. QED BY <1>3, <1>4

-----------------------------------------------------------------------------
(* Numbers. *)

LEMMA CountTo ==
  ASSUME NEW n \in Nat
  PROVE  IsFiniteSet(1..n) /\ Cardinality(1..n) = n
<1>1. /\ IsFiniteSet(1..n)
      /\ Cardinality(1..n) = (IF 1 > n THEN 0 ELSE n - 1 + 1)
  BY FS_Interval
<1>2. QED BY <1>1

\* A set of natural numbers that is not empty has a least one.
LEMMA MinOfNats ==
  ASSUME NEW S, S \subseteq Nat, S # {}
  PROVE  Min(S) \in S /\ \A y \in S : Min(S) <= y
<1>1. PICK top \in S : TRUE
  OBVIOUS
<1> DEFINE T == {0..k : k \in {y \in S : y <= top}}
<1>2. IsFiniteSet(0..top)
  BY <1>1, FS_Interval
<1>3. T \subseteq SUBSET (0..top) /\ T # {}
  BY <1>1
<1>4. PICK m \in T : \A s \in T : s \subseteq m => s = m
  <2> DEFINE all == 0..top
  <2>1. IsFiniteSet(all) /\ T \subseteq SUBSET all /\ T # {} BY <1>2, <1>3
  <2> HIDE DEF T, all
  <2>2. QED BY <2>1, SmallestMember
<1>5. PICK x \in S : x <= top /\ m = 0..x
  BY <1>4
<1>6. \A y \in S : x <= y
  <2> SUFFICES ASSUME NEW y \in S, y < x PROVE FALSE
    BY <1>5
  <2>1. 0..y \in T /\ 0..y \subseteq 0..x BY <1>1, <1>5
  <2>2. 0..y = 0..x BY <1>4, <1>5, <2>1
  <2>3. x \in 0..x BY <1>5
  <2>4. QED BY <2>2, <2>3
<1>7. QED BY <1>6 DEF Min

LEMMA LeastIs ==
  ASSUME NEW S, S \subseteq Nat, NEW x \in S, \A y \in S : x <= y
  PROVE  Min(S) = x
<1> DEFINE m == Min(S)
<1>1. m \in S /\ \A y \in S : m <= y BY MinOfNats
<1> HIDE DEF m
<1>2. m = x BY <1>1
<1>3. QED BY <1>2 DEF m
=============================================================================

---------------------------- MODULE DataTheorems ----------------------------
(***************************************************************************)
(* What a sum over a finite set is: SumFunctionOnSet, and how it changes   *)
(* with the set and with the function; and what bags and sequences hold    *)
(* after something has come or gone.  The library states induction with an *)
(* operator as a parameter; here it is a set of subsets, which has a       *)
(* minimal element.                                                        *)
(***************************************************************************)
EXTENDS Sequences, Bags, FiniteSetsExt, FiniteSetTheorems, TLAPS

(***************************************************************************)
(* Induction over the subsets of a finite set                              *)
(***************************************************************************)

\* A set of subsets of a finite set has a minimal member.
LEMMA MinimalSubset ==
  ASSUME NEW S, IsFiniteSet(S), NEW B \in SUBSET SUBSET S, B # {}
  PROVE  \E T \in B : \A U \in B : U \subseteq T => U = T
<1>1. IsWellFoundedOn(StrictSubsetOrdering(S), SUBSET S)
  BY FS_StrictSubsetOrderingWellFounded, FS_FiniteSubsetsOfFinite
<1>2. PICK T \in B : \A U \in B : << U, T >> \notin StrictSubsetOrdering(S)
  BY <1>1, WFMin
<1> QED
  BY <1>2 DEF StrictSubsetOrdering

\* What holds of a subset when it holds of the smaller ones, holds of all of them.
LEMMA SubsetInduction ==
  ASSUME NEW S, IsFiniteSet(S), NEW P,
         \A T \in SUBSET S : (\A U \in SUBSET T : U # T => U \in P) => T \in P
  PROVE  \A T \in SUBSET S : T \in P
<1> SUFFICES ASSUME \E T \in SUBSET S : T \notin P
             PROVE  FALSE
  OBVIOUS
<1> DEFINE B == { T \in SUBSET S : T \notin P }
<1>1. PICK T \in B : \A U \in B : U \subseteq T => U = T
  <2> B \in SUBSET SUBSET S /\ B # {}
    OBVIOUS
  <2> HIDE DEF B
  <2> QED
    BY MinimalSubset
<1>2. \A U \in SUBSET T : U # T => U \in P
  BY <1>1
<1> QED
  BY <1>1, <1>2

(***************************************************************************)
(* The recursion that sums is well defined                                 *)
(***************************************************************************)
First(T) == CHOOSE x \in T : TRUE

LEMMA FirstIn == ASSUME NEW T, T # {} PROVE First(T) \in T
BY DEF First

\* sum[T] is the sum of f over T, if it is so for the smaller sets.
SumAt(f, sum, T) == IF T = {} THEN 0 ELSE f[First(T)] + sum[T \ { First(T) }]

Sums(f, S) == CHOOSE sum : sum = [ T \in SUBSET S |-> SumAt(f, sum, T) ]

LEMMA SumIsSums ==
  ASSUME NEW f, NEW S
  PROVE  SumFunctionOnSet(f, S) = Sums(f, S)[S]
BY DEF SumFunctionOnSet, FoldFunctionOnSet, MapThenFoldSet, Sums, SumAt, First

\* Two functions that sum over all subsets are the same.
LEMMA SumsUnique ==
  ASSUME NEW f, NEW S, IsFiniteSet(S), NEW g, NEW h,
         g = [ T \in SUBSET S |-> SumAt(f, g, T) ],
         h = [ T \in SUBSET S |-> SumAt(f, h, T) ]
  PROVE  g = h
<1> DEFINE P == { T \in SUBSET S : g[T] = h[T] }
<1>1. ASSUME NEW T \in SUBSET S, \A U \in SUBSET T : U # T => U \in P
      PROVE  T \in P
  <2>1. g[T] = SumAt(f, g, T) /\ h[T] = SumAt(f, h, T)
    <3>1. g[T] = [ U \in SUBSET S |-> SumAt(f, g, U) ][T]
      OBVIOUS
    <3>2. h[T] = [ U \in SUBSET S |-> SumAt(f, h, U) ][T]
      OBVIOUS
    <3> QED
      BY <3>1, <3>2
  <2>2. CASE T = {}
    BY <2>1, <2>2 DEF SumAt
  <2>3. CASE T # {}
    <3>1. First(T) \in T
      BY <2>3, FirstIn
    <3>2. T \ { First(T) } \in P
      BY <1>1, <3>1
    <3> QED
      BY <2>1, <3>2 DEF SumAt
  <2> QED
    BY <2>2, <2>3
<1>2. \A T \in SUBSET S : T \in P
  <2> HIDE DEF P
  <2> QED
    BY <1>1, SubsetInduction
<1> QED
  BY <1>2

\* The sum over a set satisfies the recursion.
LEMMA SumRecursion ==
  ASSUME NEW f, NEW S, IsFiniteSet(S)
  PROVE  LET all == [ T \in SUBSET S |-> SumFunctionOnSet(f, T) ]
         IN  \A T \in SUBSET S : SumFunctionOnSet(f, T) = SumAt(f, all, T)
<1> DEFINE all == [ T \in SUBSET S |-> SumFunctionOnSet(f, T) ]
           P == { T \in SUBSET S : SumFunctionOnSet(f, T) = SumAt(f, all, T) }
<1>1. ASSUME NEW T \in SUBSET S, \A U \in SUBSET T : U # T => U \in P
      PROVE  T \in P
  <2> DEFINE h == [ U \in SUBSET T |-> IF U = T THEN SumAt(f, all, T) ELSE SumFunctionOnSet(f, U) ]
  <2>1. ASSUME NEW U \in SUBSET T
        PROVE  SumAt(f, h, U) = SumAt(f, all, U)
    <3>1. CASE U = {}
      BY <3>1 DEF SumAt
    <3>2. CASE U # {}
      <4>1. First(U) \in U
        BY <3>2, FirstIn
      <4>2. /\ U \ { First(U) } \in SUBSET T /\ U \ { First(U) } # T
            /\ U \ { First(U) } \in SUBSET S
        BY <4>1
      <4>3. h[U \ { First(U) }] = all[U \ { First(U) }]
        BY <4>2
      <4> QED
        BY <3>2, <4>3 DEF SumAt
    <3> QED
      BY <3>1, <3>2
  <2>2. \A U \in SUBSET T : h[U] = SumAt(f, all, U)
    <3>1. \A U \in SUBSET T : U # T => SumFunctionOnSet(f, U) = SumAt(f, all, U)
      BY <1>1
    <3> QED
      BY <3>1
  <2>3. h = [ U \in SUBSET T |-> SumAt(f, h, U) ]
    <3>1. \A U \in SUBSET T : h[U] = SumAt(f, h, U)
      BY <2>1, <2>2
    <3>2. h = [ U \in SUBSET T |-> h[U] ]
      OBVIOUS
    <3> HIDE DEF h
    <3> QED
      BY <3>1, <3>2
  <2>4. Sums(f, T) = [ U \in SUBSET T |-> SumAt(f, Sums(f, T), U) ]
    <3> HIDE DEF h
    <3> QED
      BY <2>3 DEF Sums
  <2>5. IsFiniteSet(T)
    BY FS_Subset
  <2>6. Sums(f, T) = h
    <3> HIDE DEF h
    <3> QED
      BY <2>3, <2>4, <2>5, SumsUnique
  <2>7. SumFunctionOnSet(f, T) = h[T]
    BY <2>6, SumIsSums
  <2> QED
    BY <2>2, <2>7
<1>2. \A T \in SUBSET S : T \in P
  <2> HIDE DEF P
  <2> QED
    BY <1>1, SubsetInduction
<1> QED
  BY <1>2

(***************************************************************************)
(* Sums                                                                    *)
(***************************************************************************)

\* The sum over no elements.
LEMMA SumEmpty == ASSUME NEW f PROVE SumFunctionOnSet(f, {}) = 0
<1> DEFINE all == [ T \in SUBSET {} |-> SumFunctionOnSet(f, T) ]
<1>1. SumFunctionOnSet(f, {}) = SumAt(f, all, {})
  BY FS_EmptySet, SumRecursion
<1> QED
  BY <1>1 DEF SumAt

LEMMA SumFirst ==
  ASSUME NEW f, NEW S, IsFiniteSet(S), S # {}
  PROVE  SumFunctionOnSet(f, S) = f[First(S)] + SumFunctionOnSet(f, S \ { First(S) })
<1> DEFINE all == [ T \in SUBSET S |-> SumFunctionOnSet(f, T) ]
<1>1. SumFunctionOnSet(f, S) = SumAt(f, all, S)
  BY SumRecursion
<1> QED
  BY <1>1 DEF SumAt

\* What is summed is taken out and added in any order.
LEMMA SumOrder ==
  ASSUME NEW f, NEW S, IsFiniteSet(S), \A x \in S : f[x] \in Int
  PROVE  /\ SumFunctionOnSet(f, S) \in Int
         /\ \A x \in S : SumFunctionOnSet(f, S) = f[x] + SumFunctionOnSet(f, S \ { x })
<1> DEFINE P == { T \in SUBSET S : /\ SumFunctionOnSet(f, T) \in Int
                                   /\ \A x \in T : SumFunctionOnSet(f, T) = f[x] + SumFunctionOnSet(f, T \ { x }) }
<1>1. ASSUME NEW T \in SUBSET S, \A U \in SUBSET T : U # T => U \in P
      PROVE  T \in P
  <2>1. CASE T = {}
    BY <2>1, SumEmpty
  <2>2. CASE T # {}
    <3> DEFINE y == First(T)
    <3>1. y \in T /\ f[y] \in Int
      BY <2>2, FirstIn
    <3>2. SumFunctionOnSet(f, T) = f[y] + SumFunctionOnSet(f, T \ { y })
      BY <2>2, FS_Subset, SumFirst
    <3> HIDE DEF y
    <3>3. SumFunctionOnSet(f, T \ { y }) \in Int
      BY <1>1, <3>1
    <3>4. ASSUME NEW x \in T, x # y
          PROVE  SumFunctionOnSet(f, T) = f[x] + SumFunctionOnSet(f, T \ { x })
      <4>1. SumFunctionOnSet(f, T \ { y }) = f[x] + SumFunctionOnSet(f, T \ { x, y })
        <5>1. T \ { y } \in P /\ x \in T \ { y } /\ (T \ { y }) \ { x } = T \ { x, y }
          BY <1>1, <3>1, <3>4
        <5> QED
          BY <5>1
      <4>2. SumFunctionOnSet(f, T \ { x }) = f[y] + SumFunctionOnSet(f, T \ { x, y })
        <5>1. T \ { x } \in P /\ y \in T \ { x } /\ (T \ { x }) \ { y } = T \ { x, y }
          BY <1>1, <3>1, <3>4
        <5> QED
          BY <5>1
      <4>3. SumFunctionOnSet(f, T \ { x, y }) \in Int
        <5>1. T \ { x, y } \in P
          BY <1>1, <3>1
        <5> QED
          BY <5>1
      <4> QED
        BY <3>1, <3>2, <4>1, <4>2, <4>3
    <3> QED
      BY <3>1, <3>2, <3>3, <3>4
  <2> QED
    BY <2>1, <2>2
<1>2. S \in P
  <2> HIDE DEF P
  <2> QED
    BY <1>1, SubsetInduction
<1> QED
  BY <1>2

\* A sum of integers is one.
LEMMA SumType ==
  ASSUME NEW f, NEW S, IsFiniteSet(S), \A x \in S : f[x] \in Int
  PROVE  SumFunctionOnSet(f, S) \in Int
BY SumOrder

\* An element that comes to the set adds its value.
LEMMA SumAdd ==
  ASSUME NEW f, NEW S, IsFiniteSet(S), \A x \in S : f[x] \in Int,
         NEW y, y \notin S, f[y] \in Int
  PROVE  SumFunctionOnSet(f, S \cup { y }) = SumFunctionOnSet(f, S) + f[y]
<1>1. IsFiniteSet(S \cup { y }) /\ (S \cup { y }) \ { y } = S /\ SumFunctionOnSet(f, S) \in Int
  BY FS_AddElement, SumType
<1>2. \A x \in S \cup { y } : f[x] \in Int
  OBVIOUS
<1>3. SumFunctionOnSet(f, S \cup { y }) = f[y] + SumFunctionOnSet(f, (S \cup { y }) \ { y })
  BY <1>1, <1>2, SumOrder
<1>4. SumFunctionOnSet(f, S \cup { y }) = f[y] + SumFunctionOnSet(f, S)
  BY <1>1, <1>3
<1> QED
  BY <1>1, <1>4

\* One that goes takes its value along.
LEMMA SumRemove ==
  ASSUME NEW f, NEW S, IsFiniteSet(S), \A x \in S : f[x] \in Int, NEW y \in S
  PROVE  SumFunctionOnSet(f, S \ { y }) = SumFunctionOnSet(f, S) - f[y]
<1>1. IsFiniteSet(S \ { y }) /\ \A x \in S \ { y } : f[x] \in Int
  BY FS_RemoveElement
<1>2. SumFunctionOnSet(f, S \ { y }) \in Int
  BY <1>1, SumType
<1>3. SumFunctionOnSet(f, S) = f[y] + SumFunctionOnSet(f, S \ { y })
  BY SumOrder
<1> QED
  BY <1>2, <1>3

\* The sum depends on the values over the set only.
LEMMA SumSame ==
  ASSUME NEW f, NEW g, NEW S, IsFiniteSet(S), \A x \in S : f[x] = g[x]
  PROVE  SumFunctionOnSet(f, S) = SumFunctionOnSet(g, S)
<1> DEFINE P == { T \in SUBSET S : SumFunctionOnSet(f, T) = SumFunctionOnSet(g, T) }
<1>1. ASSUME NEW T \in SUBSET S, \A U \in SUBSET T : U # T => U \in P
      PROVE  T \in P
  <2>1. CASE T = {}
    BY <2>1, SumEmpty
  <2>2. CASE T # {}
    <3>1. First(T) \in T /\ f[First(T)] = g[First(T)] /\ IsFiniteSet(T)
      BY <2>2, FirstIn, FS_Subset
    <3>2. T \ { First(T) } \in P
      BY <1>1, <3>1
    <3> QED
      BY <2>2, <3>1, <3>2, SumFirst
  <2> QED
    BY <2>1, <2>2
<1>2. S \in P
  <2> HIDE DEF P
  <2> QED
    BY <1>1, SubsetInduction
<1> QED
  BY <1>2

\* A value that changes changes the sum by the difference.
LEMMA SumChange ==
  ASSUME NEW f, NEW g, NEW S, IsFiniteSet(S), \A x \in S : f[x] \in Int,
         NEW y \in S, g[y] \in Int, \A x \in S \ { y } : g[x] = f[x]
  PROVE  SumFunctionOnSet(g, S) = SumFunctionOnSet(f, S) + g[y] - f[y]
<1>1. SumFunctionOnSet(g, S) = g[y] + SumFunctionOnSet(g, S \ { y })
  BY SumOrder
<1>2. SumFunctionOnSet(f, S) = f[y] + SumFunctionOnSet(f, S \ { y })
  BY SumOrder
<1>3. IsFiniteSet(S \ { y })
  BY FS_RemoveElement
<1>4. SumFunctionOnSet(g, S \ { y }) = SumFunctionOnSet(f, S \ { y })
  BY <1>3, SumSame
<1>5. SumFunctionOnSet(f, S \ { y }) \in Int
  BY <1>3, SumType
<1> QED
  BY <1>1, <1>2, <1>4, <1>5

\* What is zero everywhere sums to zero.
LEMMA SumZero ==
  ASSUME NEW f, NEW S, IsFiniteSet(S), \A x \in S : f[x] = 0
  PROVE  SumFunctionOnSet(f, S) = 0
<1> DEFINE P == { T \in SUBSET S : SumFunctionOnSet(f, T) = 0 }
<1>1. ASSUME NEW T \in SUBSET S, \A U \in SUBSET T : U # T => U \in P
      PROVE  T \in P
  <2>1. CASE T = {}
    BY <2>1, SumEmpty
  <2>2. CASE T # {}
    <3>1. First(T) \in T /\ f[First(T)] = 0 /\ IsFiniteSet(T)
      BY <2>2, FirstIn, FS_Subset
    <3>2. T \ { First(T) } \in P
      BY <1>1, <3>1
    <3> QED
      BY <2>2, <3>1, <3>2, SumFirst
  <2> QED
    BY <2>1, <2>2
<1>2. S \in P
  <2> HIDE DEF P
  <2> QED
    BY <1>1, SubsetInduction
<1> QED
  BY <1>2

\* A sum of what is nowhere negative is not.
LEMMA SumNat ==
  ASSUME NEW f, NEW S, IsFiniteSet(S), \A x \in S : f[x] \in Nat
  PROVE  SumFunctionOnSet(f, S) \in Nat
<1> DEFINE P == { T \in SUBSET S : SumFunctionOnSet(f, T) \in Nat }
<1>1. ASSUME NEW T \in SUBSET S, \A U \in SUBSET T : U # T => U \in P
      PROVE  T \in P
  <2>1. CASE T = {}
    BY <2>1, SumEmpty
  <2>2. CASE T # {}
    <3>1. First(T) \in T /\ f[First(T)] \in Nat /\ IsFiniteSet(T)
      BY <2>2, FirstIn, FS_Subset
    <3>2. T \ { First(T) } \in P
      BY <1>1, <3>1
    <3> QED
      BY <2>2, <3>1, <3>2, SumFirst
  <2> QED
    BY <2>1, <2>2
<1>2. S \in P
  <2> HIDE DEF P
  <2> QED
    BY <1>1, SubsetInduction
<1> QED
  BY <1>2
\* Sums over two parts of a set that agree but for one element differ by what it
\* adds to each.
LEMMA SumPartChange ==
  ASSUME NEW f, NEW g, NEW S, IsFiniteSet(S), NEW T \in SUBSET S, NEW U \in SUBSET S, NEW y \in S,
         T \ { y } = U \ { y },
         \A x \in T : f[x] \in Int, \A x \in U : g[x] \in Int,
         \A x \in T \ { y } : g[x] = f[x]
  PROVE  SumFunctionOnSet(g, U) - (IF y \in U THEN g[y] ELSE 0)
           = SumFunctionOnSet(f, T) - (IF y \in T THEN f[y] ELSE 0)
<1>1. IsFiniteSet(T) /\ IsFiniteSet(U) /\ IsFiniteSet(T \ { y }) /\ IsFiniteSet(U \ { y })
  BY FS_Subset
<1>2. SumFunctionOnSet(f, T) - (IF y \in T THEN f[y] ELSE 0) = SumFunctionOnSet(f, T \ { y })
  <2>1. CASE y \in T
    <3>1. SumFunctionOnSet(f, T) = f[y] + SumFunctionOnSet(f, T \ { y })
      BY <1>1, <2>1, SumOrder
    <3>2. SumFunctionOnSet(f, T \ { y }) \in Int
      BY <1>1, SumType
    <3> QED
      BY <2>1, <3>1, <3>2
  <2>2. CASE y \notin T
    <3>1. T \ { y } = T
      BY <2>2
    <3>2. SumFunctionOnSet(f, T) \in Int
      BY <1>1, SumType
    <3>3. SumFunctionOnSet(f, T) - (IF y \in T THEN f[y] ELSE 0) = SumFunctionOnSet(f, T)
      BY <2>2, <3>2
    <3> QED
      BY <3>1, <3>3
  <2> QED
    BY <2>1, <2>2
<1>3. SumFunctionOnSet(g, U) - (IF y \in U THEN g[y] ELSE 0) = SumFunctionOnSet(g, U \ { y })
  <2>1. CASE y \in U
    <3>1. SumFunctionOnSet(g, U) = g[y] + SumFunctionOnSet(g, U \ { y })
      BY <1>1, <2>1, SumOrder
    <3>2. SumFunctionOnSet(g, U \ { y }) \in Int
      BY <1>1, SumType
    <3> QED
      BY <2>1, <3>1, <3>2
  <2>2. CASE y \notin U
    <3>1. U \ { y } = U
      BY <2>2
    <3>2. SumFunctionOnSet(g, U) \in Int
      BY <1>1, SumType
    <3>3. SumFunctionOnSet(g, U) - (IF y \in U THEN g[y] ELSE 0) = SumFunctionOnSet(g, U)
      BY <2>2, <3>2
    <3> QED
      BY <3>1, <3>3
  <2> QED
    BY <2>1, <2>2
<1>4. SumFunctionOnSet(f, T \ { y }) = SumFunctionOnSet(g, T \ { y })
  BY <1>1, SumSame
<1> QED
  BY <1>2, <1>3, <1>4

\* A sum of what is nowhere positive is not.
LEMMA SumNotPositive ==
  ASSUME NEW f, NEW S, IsFiniteSet(S), \A x \in S : f[x] \in Int /\ f[x] <= 0
  PROVE  SumFunctionOnSet(f, S) \in Int /\ SumFunctionOnSet(f, S) <= 0
<1> DEFINE P == { T \in SUBSET S : SumFunctionOnSet(f, T) \in Int /\ SumFunctionOnSet(f, T) <= 0 }
<1>1. ASSUME NEW T \in SUBSET S, \A U \in SUBSET T : U # T => U \in P
      PROVE  T \in P
  <2>1. CASE T = {}
    BY <2>1, SumEmpty
  <2>2. CASE T # {}
    <3>1. First(T) \in T /\ f[First(T)] \in Int /\ f[First(T)] <= 0 /\ IsFiniteSet(T)
      BY <2>2, FirstIn, FS_Subset
    <3>2. T \ { First(T) } \in P
      BY <1>1, <3>1
    <3> QED
      BY <2>2, <3>1, <3>2, SumFirst
  <2> QED
    BY <2>1, <2>2
<1>2. S \in P
  <2> HIDE DEF P
  <2> QED
    BY <1>1, SubsetInduction
<1> QED
  BY <1>2

(***************************************************************************)
(* Bags and sequences, of messages on their way                            *)
(***************************************************************************)

\* A bag with more in it, with less, and the empty one: what is in them.
LEMMA BagPlus ==
  ASSUME NEW B, NEW S, IsABag(B)
  PROVE  IsABag(B (+) SetToBag(S)) /\ BagToSet(B (+) SetToBag(S)) = BagToSet(B) \cup S
<1>1. DOMAIN (B (+) SetToBag(S)) = DOMAIN B \cup S
  BY DEF (+), SetToBag
<1>2. ASSUME NEW e \in DOMAIN B \cup S PROVE (B (+) SetToBag(S))[e] \in { n \in Nat : n > 0 }
  BY <1>2 DEF (+), SetToBag, IsABag
<1>3. B (+) SetToBag(S) = [ e \in DOMAIN B \cup S |-> (B (+) SetToBag(S))[e] ]
  BY DEF (+), SetToBag
<1> QED
  BY <1>1, <1>2, <1>3 DEF IsABag, BagToSet

LEMMA BagMinus ==
  ASSUME NEW B, NEW t, IsABag(B)
  PROVE  /\ IsABag(B (-) SetToBag({ t }))
         /\ BagToSet(B (-) SetToBag({ t })) \subseteq BagToSet(B)
         /\ BagToSet(B) \ { t } \subseteq BagToSet(B (-) SetToBag({ t }))
<1> DEFINE left == [ e \in DOMAIN B |-> IF e \in { t } THEN B[e] - 1 ELSE B[e] ]
<1>1. B (-) SetToBag({ t }) = [ e \in { d \in DOMAIN B : left[d] > 0 } |-> left[e] ]
  BY DEF (-), SetToBag
<1>2. \A e \in DOMAIN B : left[e] \in Nat /\ (e # t => left[e] > 0)
  BY DEF IsABag
<1> HIDE DEF left
<1> QED
  BY <1>1, <1>2 DEF IsABag, BagToSet

LEMMA BagNone == IsABag(EmptyBag) /\ BagToSet(EmptyBag) = {}
BY DEF EmptyBag, SetToBag, BagToSet, IsABag

\* What was appended is last, and the rest is as it was.
LEMMA AppendLast ==
  ASSUME NEW S, NEW s \in Seq(S), NEW v \in S
  PROVE  /\ Append(s, v) \in Seq(S) /\ Append(s, v) # << >> /\ Append(s, v)[Len(Append(s, v))] = v
         /\ Len(Append(s, v)) \in 1 .. Len(Append(s, v))
         /\ \A n \in 1 .. Len(Append(s, v)) : Append(s, v)[n] = v \/ (n \in 1 .. Len(s) /\ Append(s, v)[n] = s[n])
         /\ \A n \in 1 .. Len(s) : n \in 1 .. Len(Append(s, v)) /\ Append(s, v)[n] = s[n]
OBVIOUS

\* Without its first element a sequence ends as before, unless that was the only one.
LEMMA TailLast ==
  ASSUME NEW S, NEW s \in Seq(S), s # << >>
  PROVE  /\ Tail(s) \in Seq(S) /\ Head(s) \in S /\ Head(s) = s[1] /\ 1 \in 1 .. Len(s)
         /\ Tail(s) # << >> => Tail(s)[Len(Tail(s))] = s[Len(s)] /\ Len(Tail(s)) \in 1 .. Len(Tail(s))
         /\ Tail(s) = << >> => Head(s) = s[Len(s)]
         /\ \A n \in 1 .. Len(Tail(s)) : n + 1 \in 1 .. Len(s) /\ Tail(s)[n] = s[n + 1]
         /\ \A n \in 1 .. Len(s) : s[n] = Head(s) \/ (n - 1 \in 1 .. Len(Tail(s)) /\ s[n] = Tail(s)[n - 1])
<1>1. /\ Tail(s) \in Seq(S) /\ Head(s) \in S /\ Head(s) = s[1] /\ 1 \in 1 .. Len(s)
      /\ Len(Tail(s)) = Len(s) - 1 /\ Len(s) \in Nat \ { 0 }
      /\ \A n \in 1 .. Len(Tail(s)) : n + 1 \in 1 .. Len(s) /\ Tail(s)[n] = s[n + 1]
  OBVIOUS
<1>2. ASSUME Tail(s) = << >> PROVE Len(s) = 1
  <2>0. Len(<< >>) = 0
    OBVIOUS
  <2>1. Len(Tail(s)) = 0
    BY <1>2, <2>0, Zenon
  <2> QED
    BY <1>1, <2>1
<1>3. Tail(s) # << >> => Tail(s)[Len(Tail(s))] = s[Len(s)] /\ Len(Tail(s)) \in 1 .. Len(Tail(s))
  <2>1. Tail(s) # << >> => Len(Tail(s)) \in 1 .. Len(Tail(s))
    BY <1>1
  <2> QED
    BY <1>1, <2>1
<1>4. ASSUME NEW n \in 1 .. Len(s), n # 1 PROVE n - 1 \in 1 .. Len(Tail(s)) /\ s[n] = Tail(s)[n - 1]
  <2>1. n - 1 \in 1 .. Len(Tail(s)) /\ (n - 1) + 1 = n
    BY <1>1, <1>4
  <2> QED
    BY <1>1, <2>1
<1> QED
  BY <1>1, <1>2, <1>3, <1>4
=============================================================================

---------------------------- MODULE CharacterProofs ----------------------------
(***************************************************************************)
(* Proofs about what characters own (Items) and whom they go with (Party), *)
(* for any characters, items, limits and parties.                          *)
(*                                                                         *)
(* Items: every store keeps to its size, and what exists of an item is     *)
(* what the game has brought in, less what it has taken away and what a    *)
(* limit has cut.  Parties: the pointers of the characters and the lists   *)
(* of the parties tell the same.                                           *)
(***************************************************************************)
EXTENDS Items, Party, FiniteSetTheorems, SequenceTheorems, WellFoundedInduction, TLAPS

-----------------------------------------------------------------------------
(***************************************************************************)
(* Sums over finite sets.                                                  *)
(***************************************************************************)

LEMMA LeastOf ==
    ASSUME NEW I, I \subseteq Nat, I # {}
    PROVE  \E i \in I : \A j \in I : i <= j
<1>1. PICK i \in I : \A j \in I : ~ (<<j, i>> \in OpToRel(<, Nat))
    BY Zenon, NatLessThanWellFounded, WFMin
<1>2. \A j \in I : i <= j
    <2> SUFFICES ASSUME NEW j \in I PROVE i <= j
        OBVIOUS
    <2>1. ~ (<<j, i>> \in {z \in Nat \X Nat : z[1] < z[2]})
        BY <1>1 DEF OpToRel
    <2>2. <<j, i>> \in Nat \X Nat
        OBVIOUS
    <2> QED BY <2>1, <2>2
<1> QED BY <1>2

\* Induction over numbers, for a set of them.
LEMMA NumbersFollow ==
    ASSUME NEW T, 0 \in T, \A n \in Nat : n \in T => n + 1 \in T
    PROVE  Nat \subseteq T
<1> SUFFICES ASSUME Nat \ T # {} PROVE FALSE
    OBVIOUS
<1>1. PICK n \in Nat \ T : \A k \in Nat \ T : n <= k
    BY LeastOf
<1>2. n # 0 /\ n - 1 \in Nat /\ (n - 1) + 1 = n /\ ~(n <= n - 1)
    OBVIOUS
<1>3. n - 1 \notin T
    BY <1>2
<1> QED BY <1>1, <1>2, <1>3

\* The order in which MapThenSumSet adds, what it adds up, and the functions that do.
Some(S) == CHOOSE x \in S : TRUE
Summed(f, sum, S) == IF S = {} THEN 0 ELSE f[Some(S)] + sum[S \ {Some(S)}]
Sums(D, f) == {sum \in [SUBSET D -> Int] : \A S \in SUBSET D : sum[S] = Summed(f, sum, S)}

\* One element less.
LEMMA OneLess ==
    ASSUME NEW D, IsFiniteSet(D), NEW S \in SUBSET D
    PROVE  /\ Cardinality(S) \in Nat /\ (Cardinality(S) = 0 <=> S = {})
           /\ S # {} => Some(S) \in S
           /\ \A x \in S : Cardinality(S \ {x}) = Cardinality(S) - 1 /\ S \ {x} \in SUBSET D
<1>1. IsFiniteSet(S)
    BY FS_Subset
<1>2. S # {} => Some(S) \in S
    BY DEF Some
<1>3. \A x \in S : Cardinality(S \ {x}) = Cardinality(S) - 1
    BY <1>1, FS_RemoveElement
<1> QED BY <1>1, <1>2, <1>3, FS_CardinalityType, FS_EmptySet

\* Induction over the subsets of a finite set.
LEMMA SetsFollow ==
    ASSUME NEW D, IsFiniteSet(D), NEW T, {} \in T,
           \A S \in SUBSET D : S # {} /\ (\A x \in S : S \ {x} \in T) => S \in T
    PROVE  SUBSET D \subseteq T
<1> DEFINE N == {n \in Nat : \A S \in SUBSET D : Cardinality(S) <= n => S \in T}
<1>1. 0 \in N
    <2> SUFFICES ASSUME NEW S \in SUBSET D, Cardinality(S) <= 0 PROVE S \in T
        OBVIOUS
    <2>1. S = {}
        BY OneLess
    <2> QED BY Zenon, <2>1
<1>2. ASSUME NEW n \in Nat, n \in N PROVE n + 1 \in N
    <2> SUFFICES ASSUME NEW S \in SUBSET D, Cardinality(S) <= n + 1 PROVE S \in T
        OBVIOUS
    <2>1. \A x \in S : S \ {x} \in SUBSET D /\ Cardinality(S \ {x}) <= n
        BY OneLess
    <2>2. \A x \in S : S \ {x} \in T
        BY <1>2, <2>1
    <2>3. CASE S = {}
        BY Zenon, <2>3
    <2>4. CASE S # {}
        BY Zenon, <2>2, <2>4
    <2> QED BY <2>3, <2>4
<1>3. Nat \subseteq N
    <2> HIDE DEF N
    <2> QED BY <1>1, <1>2, NumbersFollow
<1>4. ASSUME NEW S \in SUBSET D PROVE S \in T
    <2>1. Cardinality(S) \in Nat
        BY OneLess
    <2> QED BY <1>3, <2>1
<1> QED BY <1>4

\* There is a function that adds up.
LEMMA SumExists ==
    ASSUME NEW D, IsFiniteSet(D), NEW f \in [D -> Int]
    PROVE  Sums(D, f) # {}
<1> DEFINE UpTo(n) == {S \in SUBSET D : Cardinality(S) <= n}
           On(g, n) == \A S \in UpTo(n) : g[S] = Summed(f, g, S)
           N == {n \in Nat : \E g \in [UpTo(n) -> Int] : On(g, n)}
<1>1. 0 \in N
    <2>1. \A S \in UpTo(0) : S = {}
        BY OneLess
    <2>2. [S \in UpTo(0) |-> 0] \in [UpTo(0) -> Int]
        OBVIOUS
    <2>3. On([S \in UpTo(0) |-> 0], 0)
        BY <2>1 DEF Summed
    <2> QED BY <2>2, <2>3
<1>2. ASSUME NEW n \in Nat, n \in N PROVE n + 1 \in N
    <2>1. PICK g \in [UpTo(n) -> Int] : On(g, n)
        BY <1>2
    <2> DEFINE h == [S \in UpTo(n + 1) |-> Summed(f, g, S)]
    <2>2. ASSUME NEW S \in UpTo(n + 1), S # {}
          PROVE  S \ {Some(S)} \in UpTo(n) /\ f[Some(S)] \in Int
        <3>1. S \in SUBSET D /\ Cardinality(S) <= n + 1
            OBVIOUS
        <3> QED BY <2>2, <3>1, OneLess
    <2>3. \A S \in UpTo(n) : S \in UpTo(n + 1) /\ h[S] = g[S]
        <3> SUFFICES ASSUME NEW S \in UpTo(n) PROVE S \in UpTo(n + 1) /\ h[S] = g[S]
            OBVIOUS
        <3>1. S \in UpTo(n + 1)
            BY OneLess
        <3> QED BY <2>1, <3>1
    <2>4. h \in [UpTo(n + 1) -> Int]
        BY <2>2 DEF Summed
    <2>5. On(h, n + 1)
        BY <2>2, <2>3 DEF Summed
    <2> HIDE DEF h, On, UpTo
    <2> QED BY <2>4, <2>5
<1>3. Cardinality(D) \in N
    <2>1. Nat \subseteq N
        <3> HIDE DEF N
        <3> QED BY <1>1, <1>2, NumbersFollow
    <2> HIDE DEF N
    <2> QED BY <2>1, FS_CardinalityType
<1>4. UpTo(Cardinality(D)) = SUBSET D
    BY FS_Subset
<1> QED BY <1>3, <1>4 DEF Sums

\* Whichever element is taken away first, the sum is the same.
LEMMA SumAny ==
    ASSUME NEW D, IsFiniteSet(D), NEW f \in [D -> Int], NEW sum \in Sums(D, f),
           NEW A \in SUBSET D, NEW a \in A
    PROVE  sum[A] = f[a] + sum[A \ {a}]
<1> DEFINE T == {S \in SUBSET D : \A x \in S : sum[S] = f[x] + sum[S \ {x}]}
<1>1. {} \in T
    OBVIOUS
<1>2. ASSUME NEW S \in SUBSET D, S # {}, \A x \in S : S \ {x} \in T PROVE S \in T
    <2> SUFFICES ASSUME NEW x \in S PROVE sum[S] = f[x] + sum[S \ {x}]
        OBVIOUS
    <2> DEFINE y == Some(S)
    <2>1. y \in S
        BY OneLess
    <2>2. sum[S] = f[y] + sum[S \ {y}]
        BY DEF Sums, Summed
    <2>3. CASE x = y
        BY <2>2, <2>3
    <2>4. CASE x # y
        <3> HIDE DEF y
        <3>1. sum[S \ {y}] = f[x] + sum[(S \ {y}) \ {x}]
            BY <1>2, <2>1, <2>4
        <3>2. sum[S \ {x}] = f[y] + sum[(S \ {x}) \ {y}]
            BY <1>2, <2>1, <2>4
        <3>3. sum[(S \ {y}) \ {x}] = sum[(S \ {x}) \ {y}]
            <4>1. (S \ {y}) \ {x} = (S \ {x}) \ {y}
                OBVIOUS
            <4> QED BY <4>1
        <3>4. f[x] \in Int /\ f[y] \in Int /\ sum[(S \ {x}) \ {y}] \in Int
            BY <2>1 DEF Sums
        <3> QED BY <2>2, <3>1, <3>2, <3>3, <3>4
    <2> QED BY <2>3, <2>4
<1>3. SUBSET D \subseteq T
    <2> HIDE DEF T
    <2> QED BY <1>1, <1>2, SetsFollow
<1> QED BY <1>3

\* Of nothing the sum is nothing.
LEMMA SumOfNone ==
    ASSUME NEW D, NEW f, NEW sum \in Sums(D, f)
    PROVE  {} \in SUBSET D /\ sum[{}] = 0
<1>1. {} \in SUBSET D /\ Summed(f, sum, {}) = 0
    BY DEF Summed
<1> QED BY Zenon, <1>1 DEF Sums

\* The sum changes as the one element does whose part of it changes.
LEMMA SumChanges ==
    ASSUME NEW D, IsFiniteSet(D), NEW f \in [D -> Int], NEW g \in [D -> Int], NEW c \in D,
           \A x \in D \ {c} : g[x] = f[x], NEW s \in Sums(D, f), NEW t \in Sums(D, g)
    PROVE  t[D] = s[D] + (g[c] - f[c])
<1> DEFINE T == {S \in SUBSET D : t[S] = s[S] + (IF c \in S THEN g[c] - f[c] ELSE 0)}
<1>1. {} \in T
    <2>1. {} \in SUBSET D /\ s[{}] = 0 /\ t[{}] = 0
        BY SumOfNone
    <2> QED BY <2>1
<1>2. ASSUME NEW S \in SUBSET D, S # {}, \A x \in S : S \ {x} \in T PROVE S \in T
    <2> DEFINE x == Some(S)
    <2>1. x \in S /\ x \in D
        BY <1>2, OneLess
    <2>2. s[S] = f[x] + s[S \ {x}] /\ t[S] = g[x] + t[S \ {x}]
        BY <1>2 DEF Sums, Summed
    <2>3. s[S \ {x}] \in Int /\ t[S \ {x}] \in Int /\ f[x] \in Int /\ g[x] \in Int
          /\ f[c] \in Int /\ g[c] \in Int
        BY <2>1 DEF Sums
    <2> HIDE DEF x
    <2>4. t[S \ {x}] = s[S \ {x}] + (IF c \in S \ {x} THEN g[c] - f[c] ELSE 0)
        BY <1>2, <2>1
    <2>5. CASE x = c
        BY <2>1, <2>2, <2>3, <2>4, <2>5
    <2>6. CASE x # c
        <3>1. g[x] = f[x]
            BY <2>1, <2>6
        <3> QED BY <2>1, <2>2, <2>3, <2>4, <2>6, <3>1
    <2> QED BY <2>5, <2>6
<1>3. SUBSET D \subseteq T
    <2> HIDE DEF T
    <2> QED BY <1>1, <1>2, SetsFollow
<1> QED BY <1>3
\* The sum of a function is such a sum.
LEMMA SumIs ==
    ASSUME NEW D, IsFiniteSet(D), NEW f \in [D -> Int]
    PROVE  \E sum \in Sums(D, f) : SumFunction(f) = sum[D]
<1> DEFINE Adds(h) == [S \in SUBSET D |->
                          IF S = {} THEN 0 ELSE f[Some(S)] + h[S \ {Some(S)}]]
           sum == CHOOSE h : h = Adds(h)
<1>1. \A S \in SUBSET D : S # {} => Some(S) \in D
    BY DEF Some
<1>2. sum = Adds(sum)
    <2>1. PICK g : g \in Sums(D, f)
        BY SumExists
    <2>2. g = Adds(g)
        <3>1. g = [S \in SUBSET D |-> g[S]] /\ \A S \in SUBSET D : g[S] = Summed(f, g, S)
            BY <2>1 DEF Sums
        <3> QED BY <1>1, <3>1 DEF Summed
    <2> HIDE DEF Adds
    <2> QED BY Zenon, <2>2
<1>3. SumFunction(f) = sum[D]
    <2>1. DOMAIN f = D
        OBVIOUS
    <2> QED BY Zenon, <2>1 DEF SumFunction, SumFunctionOnSet, FoldFunctionOnSet, MapThenFoldSet, Some
<1> HIDE DEF sum
<1>4. \A S \in SUBSET D : sum[S] = Summed(f, sum, S)
    BY <1>1, <1>2 DEF Summed
<1>5. sum \in Sums(D, f)
    <2> DEFINE T == {S \in SUBSET D : sum[S] \in Int}
    <2>1. {} \in T
        <3>1. {} \in SUBSET D /\ Summed(f, sum, {}) = 0
            BY DEF Summed
        <3>2. sum[{}] = 0
            BY Zenon, <1>4, <3>1
        <3> QED BY <3>1, <3>2
    <2>2. ASSUME NEW S \in SUBSET D, S # {}, \A x \in S : S \ {x} \in T PROVE S \in T
        <3>1. Some(S) \in S /\ f[Some(S)] \in Int
            BY <1>1, <2>2, OneLess
        <3>2. sum[S] = f[Some(S)] + sum[S \ {Some(S)}]
            BY <1>4, <2>2 DEF Summed
        <3>3. sum[S \ {Some(S)}] \in Int
            BY <2>2, <3>1
        <3> QED BY <3>1, <3>2, <3>3
    <2>3. SUBSET D \subseteq T
        <3> HIDE DEF T
        <3> QED BY <2>1, <2>2, SetsFollow
    <2>4. sum \in [SUBSET D -> Int]
        BY <1>2, <2>3
    <2> QED BY <1>4, <2>4 DEF Sums
<1> QED BY <1>3, <1>5

LEMMA SumType ==
    ASSUME NEW D, IsFiniteSet(D), NEW f \in [D -> Int]
    PROVE  SumFunction(f) \in Int
<1>1. PICK sum \in Sums(D, f) : SumFunction(f) = sum[D]
    BY SumIs
<1> QED BY <1>1 DEF Sums

LEMMA SumEmpty ==
    ASSUME NEW f \in [{} -> Int]
    PROVE  SumFunction(f) = 0
<1>1. PICK sum \in Sums({}, f) : SumFunction(f) = sum[{}]
    BY SumIs, FS_EmptySet
<1> QED BY <1>1, SumOfNone

\* One term changes.
LEMMA SumChange ==
    ASSUME NEW D, IsFiniteSet(D), NEW f \in [D -> Int], NEW g \in [D -> Int], NEW c \in D,
           \A x \in D \ {c} : g[x] = f[x]
    PROVE  SumFunction(g) = SumFunction(f) + (g[c] - f[c])
<1>1. PICK s \in Sums(D, f) : SumFunction(f) = s[D]
    BY SumIs
<1>2. PICK t \in Sums(D, g) : SumFunction(g) = t[D]
    BY SumIs
<1>3. t[D] = s[D] + (g[c] - f[c])
    BY <1>1, <1>2, SumChanges
<1> QED BY <1>1, <1>2, <1>3

\* The same terms under other names.
LEMMA SumRenamed ==
    ASSUME NEW D, IsFiniteSet(D), NEW f \in [D -> Int], NEW E, IsFiniteSet(E),
           NEW g \in [E -> Int], NEW h \in [E -> D],
           \A x, y \in E : h[x] = h[y] => x = y, \A d \in D : \E x \in E : h[x] = d,
           \A x \in E : g[x] = f[h[x]]
    PROVE  SumFunction(g) = SumFunction(f)
<1>1. PICK s \in Sums(D, f) : SumFunction(f) = s[D]
    BY SumIs
<1>2. PICK t \in Sums(E, g) : SumFunction(g) = t[E]
    BY SumIs
<1> DEFINE Img(S) == {h[x] : x \in S}
           T == {S \in SUBSET E : t[S] = s[Img(S)]}
<1>3. {} \in T
    <2>1. Img({}) = {} /\ s[{}] = 0 /\ t[{}] = 0
        BY SumOfNone
    <2> QED BY <2>1
<1>4. ASSUME NEW S \in SUBSET E, S # {}, \A x \in S : S \ {x} \in T PROVE S \in T
    <2>1. PICK x \in S : x \in E
        BY <1>4
    <2>2. t[S] = g[x] + t[S \ {x}]
        <3>1. /\ IsFiniteSet(E) /\ g \in [E -> Int] /\ t \in Sums(E, g)
              /\ S \in SUBSET E /\ x \in S
            BY <1>2, <1>4, <2>1
        <3> HIDE DEF T, Img
        <3> QED BY <3>1, SumAny
    <2> DEFINE I == Img(S)
    <2>3. I \in SUBSET D /\ h[x] \in I
        BY <2>1
    <2>4. I \ {h[x]} = Img(S \ {x})
        BY <2>1
    <2> HIDE DEF I
    <2>5. s[I] = f[h[x]] + s[I \ {h[x]}]
        BY <1>1, <2>3, SumAny
    <2>6. t[S \ {x}] = s[Img(S \ {x})]
        BY <1>4, <2>1
    <2>7. s[I] = g[x] + t[S \ {x}]
        BY <2>1, <2>4, <2>5, <2>6
    <2> QED BY <2>2, <2>7 DEF I
<1>5. SUBSET E \subseteq T
    <2> HIDE DEF T
    <2> QED BY <1>3, <1>4, SetsFollow
<1>6. Img(E) = D
    OBVIOUS
<1>7. t[E] = s[Img(E)]
    BY <1>5
<1> QED BY <1>1, <1>2, <1>6, <1>7

\* One term more.
LEMMA SumMore ==
    ASSUME NEW D, IsFiniteSet(D), NEW c \in D, NEW f \in [D \ {c} -> Int],
           NEW g \in [D -> Int], \A x \in D \ {c} : g[x] = f[x]
    PROVE  SumFunction(g) = SumFunction(f) + g[c]
<1> DEFINE E == D \ {c}
<1>1. IsFiniteSet(E) /\ E \in SUBSET D
    BY FS_RemoveElement
<1>2. PICK s \in Sums(E, f) : SumFunction(f) = s[E]
    BY <1>1, SumIs
<1>3. PICK t \in Sums(D, g) : SumFunction(g) = t[D]
    BY SumIs
<1> DEFINE T == {S \in SUBSET E : t[S] = s[S]}
<1>4. {} \in T
    BY <1>2, <1>3, SumOfNone
<1>5. ASSUME NEW S \in SUBSET E, S # {}, \A x \in S : S \ {x} \in T PROVE S \in T
    <2>1. PICK x \in S : x \in E
        BY <1>5
    <2>2. S \in SUBSET D
        BY <1>1
    <2>3. t[S] = g[x] + t[S \ {x}]
        <3> HIDE DEF E, T
        <3> QED BY <1>3, <2>1, <2>2, SumAny
    <2>4. s[S] = f[x] + s[S \ {x}]
        BY <1>1, <1>2, SumAny
    <2>5. t[S \ {x}] = s[S \ {x}] /\ g[x] = f[x]
        BY <1>5, <2>1
    <2> QED BY <2>3, <2>4, <2>5
<1>6. SUBSET E \subseteq T
    <2> HIDE DEF E, T
    <2> QED BY <1>1, <1>4, <1>5, SetsFollow
<1>7. t[E] = s[E]
    BY <1>6
<1>8. t[D] = g[c] + t[E]
    <2>1. D \in SUBSET D /\ c \in D
        OBVIOUS
    <2> QED BY <1>3, <2>1, SumAny
<1>9. s[E] \in Int /\ g[c] \in Int
    BY <1>2 DEF Sums
<1> QED BY <1>2, <1>3, <1>7, <1>8, <1>9

-----------------------------------------------------------------------------
(***************************************************************************)
(* Folds.  What the four folds of Items do with an element, and how they   *)
(* come to their result one element after the other.                       *)
(***************************************************************************)
Does(how, x, e) ==
    CASE how.fold = "stacks" -> Placed(x, e)
      [] how.fold = "needs" -> Used(x, e)
      [] how.fold = "recipes" -> Crafted(how.id, x, e)
      [] how.fold = "spawns" ->
            IF e \notin how.due THEN x
            ELSE Spawned(x, how.pick[e].id, how.pick[e].amount, e)

Stage(how, base, list, h, K) ==
    IF K = {} THEN base ELSE Does(how, h[K \ {Max(K)}], list[Max(K)])
Stages(how, base, list) ==
    CHOOSE h : h = [K \in SUBSET DOMAIN list |-> Stage(how, base, list, h, K)]

\* What there is after k elements.
After(how, base, list, k) == Stages(how, base, list)[1 .. k]

LEMMA MaxOf ==
    ASSUME NEW n \in Nat, NEW K \in SUBSET (1 .. n), K # {}
    PROVE  Max(K) \in K /\ \A i \in K : i <= Max(K)
<1>1. K \subseteq Nat /\ \A i \in K : i <= n
    OBVIOUS
<1>2. \E i \in K : \A j \in K : j <= i
    <2> DEFINE J == {n - i : i \in K}
    <2>1. J \subseteq Nat /\ J # {}
        <3>1. \A i \in K : n - i \in Nat
            BY <1>1
        <3> QED BY <3>1
    <2>2. PICK k \in J : \A j \in J : k <= j
        BY <2>1, LeastOf
    <2>3. PICK i \in K : k = n - i
        BY <2>2
    <2>4. \A j \in K : n - i <= n - j
        BY <2>2, <2>3
    <2>5. \A j \in K : j <= i
        BY <1>1, <2>4
    <2> QED BY <2>5
<1>3. \E i \in K : \A j \in K : i >= j
    BY <1>1, <1>2
<1>4. Max(K) \in K /\ \A j \in K : Max(K) >= j
    BY <1>3 DEF Max
<1> QED BY <1>1, <1>4

LEMMA StagesExist ==
    ASSUME NEW how, NEW base, NEW list, NEW n \in Nat, DOMAIN list = 1 .. n
    PROVE  \A K \in SUBSET (1 .. n) :
               Stages(how, base, list)[K] = Stage(how, base, list, Stages(how, base, list), K)
<1> DEFINE C == 1 .. n
           UpTo(m) == {K \in SUBSET C : Cardinality(K) <= m}
           On(g, m) == g = [K \in UpTo(m) |-> Stage(how, base, list, g, K)]
           N == {m \in Nat : \E g : On(g, m)}
<1>1. IsFiniteSet(C)
    BY FS_Interval
<1>2. \A K \in SUBSET C : K # {} => Max(K) \in K
    BY MaxOf
<1> HIDE DEF C
<1>3. 0 \in N
    <2> DEFINE g == [K \in UpTo(0) |-> base]
    <2>1. \A K \in UpTo(0) : Stage(how, base, list, g, K) = base
        BY <1>1, OneLess DEF Stage
    <2>2. On(g, 0)
        BY <2>1
    <2> QED BY <2>2
<1>4. ASSUME NEW m \in Nat, m \in N PROVE m + 1 \in N
    <2>1. PICK g : On(g, m)
        BY <1>4
    <2> DEFINE h == [K \in UpTo(m + 1) |-> Stage(how, base, list, g, K)]
    <2>2. \A K \in UpTo(m + 1) : K # {} => K \ {Max(K)} \in UpTo(m)
        BY <1>1, <1>2, OneLess
    <2>3. \A K \in UpTo(m) : K \in UpTo(m + 1) /\ h[K] = g[K]
        <3>1. \A K \in UpTo(m) : K \in UpTo(m + 1)
            BY <1>1, OneLess
        <3>2. \A K \in UpTo(m) : g[K] = Stage(how, base, list, g, K)
            BY <2>1
        <3> QED BY Zenon, <3>1, <3>2
    <2>4. \A K \in UpTo(m + 1) : Stage(how, base, list, h, K) = Stage(how, base, list, g, K)
        BY Zenon, <2>2, <2>3 DEF Stage
    <2>5. On(h, m + 1)
        BY Zenon, <2>4
    <2> HIDE DEF On, UpTo, h
    <2> QED BY <2>5
<1>5. Cardinality(C) \in N
    <2>1. Nat \subseteq N
        <3> HIDE DEF N
        <3> QED BY <1>3, <1>4, NumbersFollow
    <2> HIDE DEF N
    <2> QED BY <1>1, <2>1, FS_CardinalityType
<1>6. UpTo(Cardinality(C)) = SUBSET C
    BY <1>1, FS_Subset
<1>7. PICK h : On(h, Cardinality(C))
    BY <1>5
<1>8. h = [K \in SUBSET C |-> Stage(how, base, list, h, K)]
    BY Zenon, <1>6, <1>7
<1>9. DOMAIN list = C
    BY DEF C
<1> DEFINE s == Stages(how, base, list)
<1>10. s = [K \in SUBSET C |-> Stage(how, base, list, s, K)]
    BY Zenon, <1>8, <1>9 DEF Stages
<1> HIDE DEF s
<1>11. \A K \in SUBSET C : s[K] = Stage(how, base, list, s, K)
    BY Zenon, <1>10
<1> QED BY Zenon, <1>11 DEF s, C

LEMMA AfterNone ==
    ASSUME NEW how, NEW base, NEW list, NEW n \in Nat, DOMAIN list = 1 .. n
    PROVE  After(how, base, list, 0) = base
<1> DEFINE s == Stages(how, base, list)
<1>1. \A K \in SUBSET (1 .. n) : s[K] = Stage(how, base, list, s, K)
    BY Zenon, StagesExist
<1>2. 1 .. 0 = {} /\ {} \in SUBSET (1 .. n)
    OBVIOUS
<1>3. s[1 .. 0] = base
    BY Zenon, <1>1, <1>2 DEF Stage
<1> QED BY <1>3 DEF After

LEMMA AfterNext ==
    ASSUME NEW how, NEW base, NEW list, NEW n \in Nat, DOMAIN list = 1 .. n, NEW k \in 0 .. n - 1
    PROVE  After(how, base, list, k + 1) = Does(how, After(how, base, list, k), list[k + 1])
<1> DEFINE s == Stages(how, base, list)
<1>1. \A K \in SUBSET (1 .. n) : s[K] = Stage(how, base, list, s, K)
    BY Zenon, StagesExist
<1>2. 1 .. k + 1 \in SUBSET (1 .. n) /\ k + 1 \in 1 .. k + 1
    OBVIOUS
<1>3. Max(1 .. k + 1) = k + 1
    <2>1. Max(1 .. k + 1) \in 1 .. k + 1 /\ k + 1 <= Max(1 .. k + 1)
        BY <1>2, MaxOf
    <2> QED BY <2>1
<1>4. (1 .. k + 1) \ {k + 1} = 1 .. k
    OBVIOUS
<1>5. 1 .. k + 1 # {}
    BY <1>2
<1>6. s[1 .. k + 1] = Does(how, s[1 .. k], list[k + 1])
    BY Zenon, <1>1, <1>2, <1>3, <1>4, <1>5 DEF Stage
<1> QED BY <1>6 DEF After

\* The folds come to what there is after all elements.
LEMMA StacksFolded ==
    ASSUME NEW base, NEW list, NEW n \in Nat, DOMAIN list = 1 .. n
    PROVE  FoldLeft(Placed, base, list) = After([fold |-> "stacks"], base, list, n)
<1> DEFINE how == [fold |-> "stacks"]
           Next1(h) == [K \in SUBSET DOMAIN list |->
                           IF K = {} THEN base ELSE Placed(h[K \ {Max(K)}], list[Max(K)])]
<1>1. \A x, e : Does(how, x, e) = Placed(x, e)
    BY DEF Does
<1>2. FoldLeft(Placed, base, list) = (CHOOSE h : h = Next1(h))[DOMAIN list]
    BY Zenon DEF FoldLeft, MapThenFoldSet
<1> HIDE DEF how
<1>3. \A h : Next1(h) = [K \in SUBSET DOMAIN list |-> Stage(how, base, list, h, K)]
    BY Zenon, <1>1 DEF Stage
<1>4. (CHOOSE h : h = Next1(h)) = Stages(how, base, list)
    <2> HIDE DEF Next1
    <2>1. \A h : h = Next1(h) <=> h = [K \in SUBSET DOMAIN list |-> Stage(how, base, list, h, K)]
        BY Zenon, <1>3
    <2> QED BY Zenon, <2>1 DEF Stages
<1> QED BY Zenon, <1>2, <1>4 DEF After, how

LEMMA NeedsFolded ==
    ASSUME NEW base, NEW list, NEW n \in Nat, DOMAIN list = 1 .. n
    PROVE  FoldLeft(Used, base, list) = After([fold |-> "needs"], base, list, n)
<1> DEFINE how == [fold |-> "needs"]
           Next1(h) == [K \in SUBSET DOMAIN list |->
                           IF K = {} THEN base ELSE Used(h[K \ {Max(K)}], list[Max(K)])]
<1>1. \A x, e : Does(how, x, e) = Used(x, e)
    BY DEF Does
<1>2. FoldLeft(Used, base, list) = (CHOOSE h : h = Next1(h))[DOMAIN list]
    BY Zenon DEF FoldLeft, MapThenFoldSet
<1> HIDE DEF how
<1>3. \A h : Next1(h) = [K \in SUBSET DOMAIN list |-> Stage(how, base, list, h, K)]
    BY Zenon, <1>1 DEF Stage
<1>4. (CHOOSE h : h = Next1(h)) = Stages(how, base, list)
    <2> HIDE DEF Next1
    <2>1. \A h : h = Next1(h) <=> h = [K \in SUBSET DOMAIN list |-> Stage(how, base, list, h, K)]
        BY Zenon, <1>3
    <2> QED BY Zenon, <2>1 DEF Stages
<1> QED BY Zenon, <1>2, <1>4 DEF After, how

LEMMA RecipesFolded ==
    ASSUME NEW i, NEW base, NEW list, NEW n \in Nat, DOMAIN list = 1 .. n
    PROVE  FoldLeft(LAMBDA s, recipe : Crafted(i, s, recipe), base, list)
               = After([fold |-> "recipes", id |-> i], base, list, n)
<1> DEFINE how == [fold |-> "recipes", id |-> i]
           Next1(h) == [K \in SUBSET DOMAIN list |->
                           IF K = {} THEN base ELSE Crafted(i, h[K \ {Max(K)}], list[Max(K)])]
<1>1. \A x, e : Does(how, x, e) = Crafted(i, x, e)
    BY DEF Does
<1>2. FoldLeft(LAMBDA s, recipe : Crafted(i, s, recipe), base, list)
          = (CHOOSE h : h = Next1(h))[DOMAIN list]
    BY Zenon DEF FoldLeft, MapThenFoldSet
<1> HIDE DEF how
<1>3. \A h : Next1(h) = [K \in SUBSET DOMAIN list |-> Stage(how, base, list, h, K)]
    BY Zenon, <1>1 DEF Stage
<1>4. (CHOOSE h : h = Next1(h)) = Stages(how, base, list)
    <2> HIDE DEF Next1
    <2>1. \A h : h = Next1(h) <=> h = [K \in SUBSET DOMAIN list |-> Stage(how, base, list, h, K)]
        BY Zenon, <1>3
    <2> QED BY Zenon, <2>1 DEF Stages
<1> QED BY Zenon, <1>2, <1>4 DEF After, how

LEMMA SpawnsFolded ==
    ASSUME NEW due, NEW pick, NEW base, NEW list, NEW n \in Nat, DOMAIN list = 1 .. n
    PROVE  FoldLeft(LAMBDA contents, s : IF s \notin due THEN contents
                                         ELSE Spawned(contents, pick[s].id, pick[s].amount, s),
                    base, list)
               = After([fold |-> "spawns", due |-> due, pick |-> pick], base, list, n)
<1> DEFINE how == [fold |-> "spawns", due |-> due, pick |-> pick]
           Step(x, e) == IF e \notin due THEN x ELSE Spawned(x, pick[e].id, pick[e].amount, e)
           Next1(h) == [K \in SUBSET DOMAIN list |->
                           IF K = {} THEN base ELSE Step(h[K \ {Max(K)}], list[Max(K)])]
<1>1. \A x, e : Does(how, x, e) = Step(x, e)
    BY DEF Does
<1>2. FoldLeft(LAMBDA contents, s : IF s \notin due THEN contents
                                    ELSE Spawned(contents, pick[s].id, pick[s].amount, s),
               base, list)
          = (CHOOSE h : h = Next1(h))[DOMAIN list]
    BY Zenon DEF FoldLeft, MapThenFoldSet
<1> HIDE DEF how, Step
<1>3. \A h : Next1(h) = [K \in SUBSET DOMAIN list |-> Stage(how, base, list, h, K)]
    BY Zenon, <1>1 DEF Stage
<1>4. (CHOOSE h : h = Next1(h)) = Stages(how, base, list)
    <2> HIDE DEF Next1
    <2>1. \A h : h = Next1(h) <=> h = [K \in SUBSET DOMAIN list |-> Stage(how, base, list, h, K)]
        BY Zenon, <1>3
    <2> QED BY Zenon, <2>1 DEF Stages
<1> QED BY Zenon, <1>2, <1>4 DEF After, how

-----------------------------------------------------------------------------
(***************************************************************************)
(* What the operators on amounts, on inventories, on the floor and on the  *)
(* chest do.                                                               *)
(***************************************************************************)

\* An amount that is added: what there is after it, and when some of it is cut.
LEMMA AddedIs ==
    ASSUME NEW has \in Nat, NEW amount \in Int, NEW max \in Nat
    PROVE  /\ Added(has, amount, max) \in Nat
           /\ amount <= 0 => Added(has, amount, max) = has
           /\ amount > 0 =>
                 /\ Added(has, amount, max) <= has + amount
                 /\ \/ Added(has, amount, max) = has + amount
                    \/ has > 0 /\ has + amount > MaxInt /\ Added(has, amount, max) = has
                    \/ has > 0 /\ has + amount > max /\ Added(has, amount, max) = max
<1>0. MaxInt \in Nat
    BY LimitsArePositive
<1>1. CASE amount <= 0
    BY <1>1 DEF Added
<1>2. CASE amount > 0 /\ has > 0 /\ has + amount > MaxInt
    BY <1>2 DEF Added
<1>3. CASE amount > 0 /\ has = 0
    BY <1>3 DEF Added
<1>4. CASE amount > 0 /\ has > 0 /\ ~(has + amount > MaxInt)
    <2>1. Added(has, amount, max) = IF has + amount < max THEN has + amount ELSE max
        BY <1>4 DEF Added, Least
    <2>2. CASE has + amount < max
        BY <1>4, <2>1, <2>2
    <2>3. CASE has + amount = max
        BY <1>4, <2>1, <2>3
    <2>4. CASE has + amount > max
        BY <1>4, <2>1, <2>4
    <2> QED BY <2>2, <2>3, <2>4
<1> QED BY <1>1, <1>2, <1>3, <1>4

LEMMA RemovedIs ==
    ASSUME NEW has \in Nat, NEW amount \in Int
    PROVE  /\ Removed(has, amount) \in Nat
           /\ amount <= 0 => Removed(has, amount) = has
           /\ amount \in 0 .. has => Removed(has, amount) = has - amount
           /\ amount > has => Removed(has, amount) = 0
BY DEF Removed, Most

Carried == [Item -> Nat]
Inventories == [Char -> Carried]

LEMMA WithIs ==
    ASSUME NEW inv \in Inventories, NEW c \in Char, NEW i \in Item, NEW amount \in Int
    PROVE  /\ With(inv, c, i, amount) \in Inventories
           /\ \A d \in Char : d # c => With(inv, c, i, amount)[d] = inv[d]
           /\ \A j \in Item : With(inv, c, i, amount)[c][j]
                 = IF j = i THEN Added(inv[c][i], amount, MaxItem) ELSE inv[c][j]
<1>1. inv[c] \in Carried /\ inv[c][i] \in Nat /\ MaxItem \in Nat
    BY LimitsArePositive DEF Inventories, Carried
<1>2. Added(inv[c][i], amount, MaxItem) \in Nat
    BY <1>1, AddedIs
<1>3. With(inv, c, i, amount)
          = [inv EXCEPT ![c] = [inv[c] EXCEPT ![i] = Added(inv[c][i], amount, MaxItem)]]
    BY DEF With
<1>4. [inv[c] EXCEPT ![i] = Added(inv[c][i], amount, MaxItem)] \in Carried
    BY <1>1, <1>2 DEF Carried
<1> QED BY <1>1, <1>3, <1>4 DEF Inventories, Carried

LEMMA WithoutIs ==
    ASSUME NEW inv \in Inventories, NEW c \in Char, NEW i \in Item, NEW amount \in Int
    PROVE  /\ Without(inv, c, i, amount) \in Inventories
           /\ \A d \in Char : d # c => Without(inv, c, i, amount)[d] = inv[d]
           /\ \A j \in Item : Without(inv, c, i, amount)[c][j]
                 = IF j = i THEN Removed(inv[c][i], amount) ELSE inv[c][j]
<1>1. inv[c] \in Carried /\ inv[c][i] \in Nat
    BY DEF Inventories, Carried
<1>2. Removed(inv[c][i], amount) \in Nat
    BY <1>1, RemovedIs
<1>3. Without(inv, c, i, amount)
          = [inv EXCEPT ![c] = [inv[c] EXCEPT ![i] = Removed(inv[c][i], amount)]]
    BY DEF Without
<1>4. [inv[c] EXCEPT ![i] = Removed(inv[c][i], amount)] \in Carried
    BY <1>1, <1>2 DEF Carried
<1> QED BY <1>1, <1>3, <1>4 DEF Inventories, Carried

-----------------------------------------------------------------------------
(***************************************************************************)
(* The floor.                                                              *)
(***************************************************************************)
Lying == [id : Item, amount : Nat \ {0}, owner : Char, protected : BOOLEAN]
Floored(f) == IsFiniteSet(DOMAIN f) /\ f \in [DOMAIN f -> Lying]

\* What a stack has of an item.
Part(s, i) == IF s.id = i THEN s.amount ELSE 0

LEMMA OnFloorIs ==
    ASSUME NEW f, Floored(f), NEW i \in Item
    PROVE  /\ [u \in DOMAIN f |-> Part(f[u], i)] \in [DOMAIN f -> Int]
           /\ OnFloor(f, i) = SumFunction([u \in DOMAIN f |-> Part(f[u], i)])
           /\ OnFloor(f, i) \in Int
<1>1. \A u \in DOMAIN f : Part(f[u], i) \in Int
    BY DEF Floored, Lying, Part
<1>2. [u \in DOMAIN f |-> Part(f[u], i)] \in [DOMAIN f -> Int]
    BY <1>1
<1>3. OnFloor(f, i) = SumFunction([u \in DOMAIN f |-> Part(f[u], i)])
    BY DEF OnFloor, Part
<1>4. SumFunction([u \in DOMAIN f |-> Part(f[u], i)]) \in Int
    BY <1>2, SumType DEF Floored
<1> QED BY <1>2, <1>3, <1>4

\* There is a free uid.
LEMMA FreeIs ==
    ASSUME NEW f, IsFiniteSet(DOMAIN f)
    PROVE  LowestFree(f) \notin DOMAIN f
<1> DEFINE n == Cardinality(DOMAIN f)
           I == {u \in 1 .. n + 1 : u \notin DOMAIN f}
<1>1. n \in Nat
    BY FS_CardinalityType
<1>2. I # {}
    <2> SUFFICES ASSUME I = {} PROVE FALSE
        OBVIOUS
    <2>1. 1 .. n + 1 \in SUBSET (DOMAIN f)
        OBVIOUS
    <2> HIDE DEF n
    <2>2. Cardinality(1 .. n + 1) <= Cardinality(DOMAIN f)
        BY <2>1, FS_Subset
    <2>3. Cardinality(1 .. n + 1) = n + 1
        <3>1. 1 \in Int /\ n + 1 \in Int /\ ~(1 > n + 1)
            BY <1>1
        <3>2. Cardinality(1 .. n + 1) = (n + 1) - 1 + 1
            BY <3>1, FS_Interval
        <3> QED BY <1>1, <3>2
    <2> QED BY <1>1, <2>2, <2>3 DEF n
<1> HIDE DEF n
<1>3. I \subseteq Nat
    BY <1>1
<1>4. PICK u \in I : \A v \in I : u <= v
    BY <1>2, <1>3, LeastOf
<1>5. \A v \in 1 .. u - 1 : v \in DOMAIN f
    <2> SUFFICES ASSUME NEW v \in 1 .. u - 1, v \notin DOMAIN f PROVE FALSE
        OBVIOUS
    <2>1. v \in I /\ ~(u <= v)
        BY <1>1, <1>4
    <2> QED BY <1>4, <2>1
<1>6. \E w \in 1 .. n + 1 : w \notin DOMAIN f /\ \A v \in 1 .. w - 1 : v \in DOMAIN f
    BY <1>4, <1>5
<1> QED BY <1>6 DEF LowestFree, n

\* A stack is put on the floor.
LEMMA PlacedIs ==
    ASSUME NEW f, Floored(f), NEW s \in Lying
    PROVE  /\ Floored(Placed(f, s))
           /\ \A i \in Item : OnFloor(Placed(f, s), i) = OnFloor(f, i) + Part(s, i)
<1> DEFINE u == LowestFree(f)
           g == Placed(f, s)
           D == DOMAIN f \cup {u}
<1>1. u \notin DOMAIN f
    BY FreeIs DEF Floored
<1>2. g = [v \in D |-> IF v \in DOMAIN f THEN f[v] ELSE s]
    BY DEF Placed
<1> HIDE DEF u, g
<1>3. DOMAIN g = D /\ IsFiniteSet(D)
    BY <1>2, FS_AddElement DEF Floored
<1>4. Floored(g)
    BY <1>2, <1>3 DEF Floored
<1>5. ASSUME NEW i \in Item PROVE OnFloor(g, i) = OnFloor(f, i) + Part(s, i)
    <2> DEFINE a == [v \in DOMAIN f |-> Part(f[v], i)]
               b == [v \in DOMAIN g |-> Part(g[v], i)]
    <2>1. D \ {u} = DOMAIN f /\ u \in D
        BY <1>1
    <2>2. a \in [DOMAIN f -> Int] /\ b \in [D -> Int]
        BY <1>3, <1>4, OnFloorIs
    <2>3. \A v \in DOMAIN f : b[v] = a[v]
        BY <1>2, <1>3
    <2>4. b[u] = Part(s, i)
        BY <1>1, <1>2, <1>3
    <2>5. OnFloor(f, i) = SumFunction(a) /\ OnFloor(g, i) = SumFunction(b)
        BY <1>4, OnFloorIs
    <2> HIDE DEF a, b, D
    <2>6. SumFunction(b) = SumFunction(a) + b[u]
        BY <1>3, <2>1, <2>2, <2>3, SumMore
    <2> QED BY <2>4, <2>5, <2>6
<1> QED BY <1>4, <1>5 DEF g

\* Some of a stack, or all of it, is taken.
LEMMA LiftedIs ==
    ASSUME NEW f, Floored(f), NEW u \in DOMAIN f, NEW amount \in 1 .. f[u].amount
    PROVE  /\ Floored(Lifted(f, u, amount))
           /\ \A i \in Item : OnFloor(Lifted(f, u, amount), i)
                 = OnFloor(f, i) - (IF i = f[u].id THEN amount ELSE 0)
<1> DEFINE g == Lifted(f, u, amount)
           D == DOMAIN f
<1>0. f[u] \in Lying /\ f[u].amount \in Nat /\ amount \in Nat \ {0} /\ IsFiniteSet(D)
    BY DEF Floored, Lying
<1>1. CASE amount < f[u].amount
    <2> DEFINE s == [f[u] EXCEPT !.amount = @ - amount]
    <2>1. g = [f EXCEPT ![u] = s]
        BY <1>1 DEF Lifted
    <2>2. s \in Lying /\ s.id = f[u].id /\ s.amount = f[u].amount - amount
        BY <1>0, <1>1 DEF Lying
    <2> HIDE DEF s, g
    <2>3. Floored(g) /\ DOMAIN g = D /\ g[u] = s /\ \A v \in D \ {u} : g[v] = f[v]
        BY <2>1, <2>2 DEF Floored
    <2>4. ASSUME NEW i \in Item
          PROVE  OnFloor(g, i) = OnFloor(f, i) - (IF i = f[u].id THEN amount ELSE 0)
        <3> DEFINE a == [v \in D |-> Part(f[v], i)]
                   b == [v \in D |-> Part(g[v], i)]
        <3>1. OnFloor(f, i) = SumFunction(a) /\ OnFloor(g, i) = SumFunction(b)
              /\ a \in [D -> Int] /\ b \in [D -> Int] /\ OnFloor(f, i) \in Int
            BY <2>3, OnFloorIs
        <3>2. \A v \in D \ {u} : b[v] = a[v]
            BY <2>3
        <3>3. a[u] = Part(f[u], i) /\ b[u] = Part(s, i)
            BY <2>3
        <3> HIDE DEF a, b, D
        <3>4. SumFunction(b) = SumFunction(a) + (b[u] - a[u])
            BY <1>0, <3>1, <3>2, SumChange DEF D
        <3>5. b[u] - a[u] = 0 - (IF i = f[u].id THEN amount ELSE 0)
            BY <1>0, <2>2, <3>3 DEF Part
        <3> QED BY <1>0, <3>1, <3>4, <3>5
    <2> QED BY <2>3, <2>4 DEF g
<1>2. CASE ~(amount < f[u].amount)
    <2>0. amount = f[u].amount
        BY <1>0, <1>2
    <2>1. g = [v \in D \ {u} |-> f[v]]
        BY <1>2 DEF Lifted
    <2> HIDE DEF g
    <2>2. DOMAIN g = D \ {u} /\ Floored(g) /\ \A v \in D \ {u} : g[v] = f[v]
        BY <1>0, <2>1, FS_RemoveElement DEF Floored
    <2>3. ASSUME NEW i \in Item
          PROVE  OnFloor(g, i) = OnFloor(f, i) - (IF i = f[u].id THEN amount ELSE 0)
        <3> DEFINE a == [v \in D |-> Part(f[v], i)]
                   b == [v \in D \ {u} |-> Part(g[v], i)]
        <3>1. OnFloor(f, i) = SumFunction(a) /\ OnFloor(g, i) = SumFunction(b)
              /\ a \in [D -> Int] /\ b \in [D \ {u} -> Int]
              /\ OnFloor(f, i) \in Int /\ OnFloor(g, i) \in Int
            BY <2>2, OnFloorIs
        <3>2. \A v \in D \ {u} : a[v] = b[v]
            BY <2>2
        <3>3. a[u] = Part(f[u], i)
            OBVIOUS
        <3>6. u \in D
            OBVIOUS
        <3> HIDE DEF a, b, D
        <3>4. SumFunction(a) = SumFunction(b) + a[u]
            <4>1. IsFiniteSet(D) /\ a \in [D -> Int] /\ b \in [D \ {u} -> Int]
                BY <1>0, <3>1
            <4> QED BY ONLY <4>1, <3>2, <3>6, SumMore
        <3>5. a[u] = IF i = f[u].id THEN amount ELSE 0
            BY <2>0, <3>3 DEF Part
        <3> QED BY <1>0, <3>1, <3>4, <3>5
    <2> QED BY <2>2, <2>3 DEF g
<1> QED BY <1>1, <1>2

-----------------------------------------------------------------------------
(***************************************************************************)
(* The chest.                                                              *)
(***************************************************************************)
Entries == [id : Item, amount : Nat \ {0}, slot : 0 .. Len(Spawns)]

Chested(ch) ==
    /\ ch \in Seq(Entries)
    /\ Len(ch) <= ChestSlots
    /\ \A k \in DOMAIN ch : ch[k].amount \in 1 .. MaxChest
    /\ \A j, k \in DOMAIN ch : ch[j].slot # 0 /\ ch[j].slot = ch[k].slot => j = k

LEMMA SizesAreNatural == MaxChest \in Nat /\ ChestSlots \in Nat /\ Len(Spawns) \in Nat
BY SizesAreNumbers, DataIsTyped

LEMMA StoredIs ==
    ASSUME NEW ch \in Seq(Entries), NEW i \in Item
    PROVE  /\ IsFiniteSet(DOMAIN ch)
           /\ [k \in DOMAIN ch |-> Part(ch[k], i)] \in [DOMAIN ch -> Int]
           /\ Stored(ch, i) = SumFunction([k \in DOMAIN ch |-> Part(ch[k], i)])
           /\ Stored(ch, i) \in Int
<1>1. IsFiniteSet(DOMAIN ch)
    <2>1. DOMAIN ch = 1 .. Len(ch) /\ 1 \in Int /\ Len(ch) \in Int
        OBVIOUS
    <2> QED BY <2>1, FS_Interval
<1>2. \A k \in DOMAIN ch : Part(ch[k], i) \in Int
    <2>1. \A k \in DOMAIN ch : ch[k] \in Entries
        OBVIOUS
    <2> QED BY <2>1 DEF Entries, Part
<1>3. [k \in DOMAIN ch |-> Part(ch[k], i)] \in [DOMAIN ch -> Int]
    BY <1>2
<1>4. Stored(ch, i) = SumFunction([k \in DOMAIN ch |-> Part(ch[k], i)])
    BY DEF Stored, Part
<1>5. SumFunction([k \in DOMAIN ch |-> Part(ch[k], i)]) \in Int
    BY <1>1, <1>3, SumType
<1> QED BY <1>1, <1>3, <1>4, <1>5

LEMMA FirstIs ==
    ASSUME NEW ch, Chested(ch), NEW i \in Item, EntriesOf(ch, i) # {}
    PROVE  /\ FirstOf(ch, i) \in DOMAIN ch /\ ch[FirstOf(ch, i)].id = i
           /\ InChest(ch, i) = ch[FirstOf(ch, i)].amount
           /\ InChest(ch, i) \in 1 .. MaxChest
<1> DEFINE I == EntriesOf(ch, i)
<1>1. DOMAIN ch = 1 .. Len(ch) /\ Len(ch) \in Nat
    BY DEF Chested
<1>2. I \subseteq Nat
    BY <1>1 DEF EntriesOf
<1>3. \E k \in I : \A j \in I : k <= j
    BY <1>2, LeastOf
<1>4. FirstOf(ch, i) \in I
    BY <1>3 DEF FirstOf
<1>5. FirstOf(ch, i) \in DOMAIN ch /\ ch[FirstOf(ch, i)].id = i
    BY <1>4 DEF EntriesOf
<1> QED BY <1>5 DEF InChest, Chested

\* One entry gets another amount, or no longer holds a slot.
Changed(ch, k, amount, slot) == [ch EXCEPT ![k] = Entry(ch[k].id, amount, slot)]

LEMMA EntryChanges ==
    ASSUME NEW ch, Chested(ch), NEW k \in DOMAIN ch, NEW amount \in 1 .. MaxChest,
           NEW slot, slot = ch[k].slot \/ slot = 0
    PROVE  LET to == Changed(ch, k, amount, slot) IN
           /\ Chested(to)
           /\ \A j \in Item : Stored(to, j) =
                  Stored(ch, j) + (IF j = ch[k].id THEN amount - ch[k].amount ELSE 0)
<1> DEFINE e == Entry(ch[k].id, amount, slot)
           to == Changed(ch, k, amount, slot)
           D == DOMAIN ch
<1>0. ch \in Seq(Entries) /\ ch[k] \in Entries /\ MaxChest \in Nat
    BY SizesAreNatural DEF Chested
<1>1. e \in Entries /\ e.id = ch[k].id /\ e.amount = amount /\ e.slot = slot
      /\ amount \in Nat \ {0} /\ ch[k].amount \in Nat
    BY <1>0, SizesAreNatural DEF Entry, Entries
<1> HIDE DEF e, to
<1>2. /\ to \in Seq(Entries) /\ Len(to) = Len(ch) /\ DOMAIN to = D /\ to[k] = e
      /\ \A j \in D \ {k} : to[j] = ch[j]
    <2>1. to = [ch EXCEPT ![k] = e]
        BY DEF Changed, to, e
    <2> QED BY <1>0, <1>1, <2>1
<1>3. Chested(to)
    <2>1. \A j \in D : to[j].amount \in 1 .. MaxChest
        BY <1>1, <1>2 DEF Chested
    <2>2. \A j \in D : to[j].slot # 0 => to[j].slot = ch[j].slot
        BY <1>1, <1>2
    <2>3. \A j, l \in D : to[j].slot # 0 /\ to[j].slot = to[l].slot => j = l
        BY <2>2 DEF Chested
    <2> QED BY <1>2, <2>1, <2>3 DEF Chested
<1>4. ASSUME NEW i \in Item
      PROVE  Stored(to, i) = Stored(ch, i) + (IF i = ch[k].id THEN amount - ch[k].amount ELSE 0)
    <2> DEFINE a == [v \in D |-> Part(ch[v], i)]
               b == [v \in D |-> Part(to[v], i)]
    <2>1. Stored(ch, i) = SumFunction(a) /\ Stored(to, i) = SumFunction(b)
          /\ a \in [D -> Int] /\ b \in [D -> Int] /\ IsFiniteSet(D)
        BY <1>0, <1>2, StoredIs
    <2>2. \A v \in D \ {k} : b[v] = a[v]
        BY <1>2
    <2>3. a[k] = Part(ch[k], i) /\ b[k] = Part(e, i) /\ k \in D
        BY <1>2
    <2> HIDE DEF a, b, D
    <2>4. SumFunction(b) = SumFunction(a) + (b[k] - a[k])
        BY <2>1, <2>2, <2>3, SumChange
    <2>5. b[k] - a[k] = IF i = ch[k].id THEN amount - ch[k].amount ELSE 0
        BY <1>1, <2>3 DEF Part
    <2> QED BY <2>1, <2>4, <2>5
<1> QED BY Zenon, <1>3, <1>4 DEF to

\* An entry is put at one end.
LEMMA EntryAppended ==
    ASSUME NEW ch, Chested(ch), NEW e \in Entries, e.slot = 0, e.amount <= MaxChest,
           Len(ch) < ChestSlots
    PROVE  /\ Chested(Append(ch, e))
           /\ \A j \in Item : Stored(Append(ch, e), j) = Stored(ch, j) + Part(e, j)
<1> DEFINE to == Append(ch, e)
           n == Len(ch)
           D == 1 .. n + 1
<1>0. ch \in Seq(Entries) /\ n \in Nat /\ DOMAIN ch = 1 .. n /\ ChestSlots \in Nat
      /\ e.amount \in Nat \ {0} /\ MaxChest \in Nat
    BY SizesAreNatural DEF Chested, Entries
<1>1. /\ to \in Seq(Entries) /\ Len(to) = n + 1 /\ DOMAIN to = D /\ to[n + 1] = e
      /\ \A j \in 1 .. n : to[j] = ch[j]
    BY <1>0
<1>2. D = 1 .. n \cup {n + 1} /\ n + 1 \in D /\ D \ {n + 1} = 1 .. n
    BY <1>0
<1> HIDE DEF to, n, D
<1>3. Chested(to)
    <2>1. \A j \in D : to[j].amount \in 1 .. MaxChest
        BY <1>0, <1>1, <1>2 DEF Chested
    <2>2. \A j, l \in D : to[j].slot # 0 /\ to[j].slot = to[l].slot => j = l
        <3>1. \A j \in D : to[j].slot # 0 => j \in 1 .. n /\ to[j].slot = ch[j].slot
            BY <1>1, <1>2
        <3> QED BY <1>0, <3>1 DEF Chested
    <2>3. n + 1 <= ChestSlots
        BY <1>0 DEF n
    <2> QED BY <1>1, <2>1, <2>2, <2>3 DEF Chested
<1>4. ASSUME NEW i \in Item PROVE Stored(to, i) = Stored(ch, i) + Part(e, i)
    <2> DEFINE a == [v \in DOMAIN ch |-> Part(ch[v], i)]
               b == [v \in DOMAIN to |-> Part(to[v], i)]
    <2>1. Stored(ch, i) = SumFunction(a) /\ Stored(to, i) = SumFunction(b)
          /\ a \in [DOMAIN ch -> Int] /\ b \in [DOMAIN to -> Int] /\ IsFiniteSet(DOMAIN to)
        BY <1>0, <1>1, StoredIs
    <2>2. \A v \in DOMAIN ch : b[v] = a[v]
        BY <1>0, <1>1, <1>2
    <2>3. b[n + 1] = Part(e, i)
        BY <1>1, <1>2
    <2> HIDE DEF a, b
    <2>4. SumFunction(b) = SumFunction(a) + b[n + 1]
        <3>1. /\ IsFiniteSet(D) /\ a \in [D \ {n + 1} -> Int] /\ b \in [D -> Int]
              /\ \A v \in D \ {n + 1} : b[v] = a[v]
            BY <1>0, <1>1, <1>2, <2>1, <2>2
        <3> QED BY ONLY <1>2, <3>1, SumMore
    <2> QED BY <2>1, <2>3, <2>4
<1> QED BY <1>3, <1>4 DEF to

LEMMA EntryPrepended ==
    ASSUME NEW ch, Chested(ch), NEW e \in Entries, e.amount <= MaxChest, Len(ch) < ChestSlots,
           \A k \in DOMAIN ch : ch[k].slot # e.slot
    PROVE  /\ Chested(<<e>> \o ch)
           /\ \A k \in DOMAIN (<<e>> \o ch) :
                  \/ (<<e>> \o ch)[k].slot = e.slot
                  \/ \E j \in DOMAIN ch : (<<e>> \o ch)[k].slot = ch[j].slot
<1> DEFINE to == <<e>> \o ch
           n == Len(ch)
           D == 1 .. n + 1
<1>0. ch \in Seq(Entries) /\ n \in Nat /\ DOMAIN ch = 1 .. n /\ ChestSlots \in Nat
      /\ e.amount \in Nat \ {0} /\ MaxChest \in Nat
    BY SizesAreNatural DEF Chested, Entries
<1>1. /\ to \in Seq(Entries) /\ Len(to) = n + 1 /\ DOMAIN to = D /\ to[1] = e
      /\ \A j \in 2 .. n + 1 : to[j] = ch[j - 1]
    <2> DEFINE a == <<e>>
    <2>1. a \in Seq(Entries) /\ Len(a) = 1 /\ a[1] = e
        OBVIOUS
    <2>2. to = a \o ch
        OBVIOUS
    <2> HIDE DEF a, n, to
    <2>8. ch \in Seq(Entries) /\ Len(ch) = n
        BY <1>0 DEF n
    <2>3. to \in Seq(Entries) /\ Len(to) = 1 + n
        BY ONLY <2>1, <2>2, <2>8, ConcatProperties
    <2>4. \A j \in 1 .. 1 + n : to[j] = IF j <= 1 THEN a[j] ELSE ch[j - 1]
        <3>1. \A j \in 1 .. Len(a) + Len(ch) :
                  (a \o ch)[j] = IF j <= Len(a) THEN a[j] ELSE ch[j - Len(a)]
            BY ONLY <2>1, <2>8, ConcatProperties
        <3> QED BY ONLY <2>1, <2>2, <2>8, <3>1
    <2>5. 1 + n = n + 1 /\ DOMAIN to = 1 .. n + 1
        BY <1>0, <2>3
    <2>6. \A j \in 2 .. n + 1 : j \in 1 .. 1 + n /\ ~(j <= 1)
        BY <1>0
    <2>7. 1 \in 1 .. 1 + n /\ 1 <= 1
        BY <1>0
    <2> QED BY <2>1, <2>3, <2>4, <2>5, <2>6, <2>7
<1>2. \A j \in D \ {1} : j \in 2 .. n + 1 /\ j - 1 \in 1 .. n
    BY <1>0
<1> HIDE DEF to, n, D
<1>3. \A j \in D \ {1} : to[j] = ch[j - 1] /\ j - 1 \in DOMAIN ch
    BY <1>0, <1>1, <1>2
<1>4. \A j \in D : to[j].amount \in 1 .. MaxChest
    <2>1. \A j \in D \ {1} : to[j].amount \in 1 .. MaxChest
        BY <1>3 DEF Chested
    <2> QED BY <1>0, <1>1, <2>1
<1>5. \A j, l \in D : to[j].slot # 0 /\ to[j].slot = to[l].slot => j = l
    <2> SUFFICES ASSUME NEW j \in D, NEW l \in D, to[j].slot # 0, to[j].slot = to[l].slot
                 PROVE  j = l
        OBVIOUS
    <2>1. j \in Int /\ l \in Int
        BY DEF D
    <2>2. CASE j # 1 /\ l # 1
        <3>1. j - 1 = l - 1
            BY <1>3, <2>2 DEF Chested
        <3> QED BY <2>1, <3>1
    <2>3. CASE j = 1 /\ l # 1
        BY <1>1, <1>3, <2>3
    <2>4. CASE j # 1 /\ l = 1
        BY <1>1, <1>3, <2>4
    <2> QED BY <2>2, <2>3, <2>4
<1>6. n + 1 <= ChestSlots
    BY <1>0 DEF n
<1> QED BY <1>1, <1>3, <1>4, <1>5, <1>6 DEF Chested, to

\* An entry is taken out.
LEMMA EntryRemoved ==
    ASSUME NEW ch, Chested(ch), NEW k \in DOMAIN ch
    PROVE  /\ Chested(RemoveAt(ch, k))
           /\ \A j \in Item : Stored(RemoveAt(ch, k), j) = Stored(ch, j) - Part(ch[k], j)
<1> DEFINE to == RemoveAt(ch, k)
           n == Len(ch)
           at(j) == IF j < k THEN j ELSE j + 1
           E == 1 .. n - 1
           D == DOMAIN ch
<1>0. ch \in Seq(Entries) /\ n \in Nat /\ D = 1 .. n /\ ChestSlots \in Nat /\ k \in 1 .. n
      /\ n <= ChestSlots
    BY SizesAreNatural DEF Chested
<1>1. to \in Seq(Entries) /\ Len(to) = n - 1 /\ \A j \in 1 .. n - 1 : to[j] = ch[at(j)]
    <2> DEFINE a == SubSeq(ch, 1, k - 1)
               b == SubSeq(ch, k + 1, n)
    <2>1. a \in Seq(Entries) /\ Len(a) = k - 1 /\ \A j \in 1 .. k - 1 : a[j] = ch[j]
        BY <1>0
    <2>2. b \in Seq(Entries) /\ Len(b) = n - k /\ \A j \in 1 .. n - k : b[j] = ch[k + j]
        BY <1>0
    <2>3. to = a \o b
        BY DEF RemoveAt
    <2> HIDE DEF a, b, n, to, D, E
    <2>4. to \in Seq(Entries) /\ Len(to) = (k - 1) + (n - k)
        <3>1. a \o b \in Seq(Entries) /\ Len(a \o b) = Len(a) + Len(b)
            BY ONLY <2>1, <2>2, ConcatProperties
        <3> QED BY ONLY <2>1, <2>2, <2>3, <3>1
    <2>5. \A j \in 1 .. (k - 1) + (n - k) : to[j] = IF j <= k - 1 THEN a[j] ELSE b[j - (k - 1)]
        <3>1. \A j \in 1 .. Len(a) + Len(b) :
                  (a \o b)[j] = IF j <= Len(a) THEN a[j] ELSE b[j - Len(a)]
            BY ONLY <2>1, <2>2, ConcatProperties
        <3> QED BY ONLY <2>1, <2>2, <2>3, <3>1
    <2>6. (k - 1) + (n - k) = n - 1
        BY <1>0
    <2>7. ASSUME NEW j \in 1 .. n - 1 PROVE to[j] = ch[at(j)]
        <3>1. to[j] = IF j <= k - 1 THEN a[j] ELSE b[j - (k - 1)]
            BY <2>5, <2>6
        <3>2. CASE j < k
            <4>1. j \in 1 .. k - 1 /\ j <= k - 1
                BY <1>0, <3>2
            <4> QED BY <2>1, <3>1, <3>2, <4>1
        <3>3. CASE ~(j < k)
            <4>1. j - (k - 1) \in 1 .. n - k /\ ~(j <= k - 1) /\ k + (j - (k - 1)) = j + 1
                BY <1>0, <3>3
            <4> QED BY <2>2, <3>1, <3>3, <4>1
        <3> QED BY <3>2, <3>3
    <2> QED BY <2>4, <2>6, <2>7
<1>2. DOMAIN to = E
    BY <1>0, <1>1
<1>3. /\ \A j \in E : at(j) \in D \ {k}
      /\ \A j, l \in E : at(j) = at(l) => j = l
      /\ \A d \in D \ {k} : \E j \in E : at(j) = d
    <2>1. \A j \in E : at(j) \in D \ {k}
        BY <1>0
    <2>2. \A j, l \in E : at(j) = at(l) => j = l
        BY <1>0
    <2>3. ASSUME NEW d \in D \ {k} PROVE \E j \in E : at(j) = d
        <3>1. CASE d < k
            <4>1. d \in E /\ at(d) = d
                BY <1>0, <3>1
            <4> QED BY <4>1
        <3>2. CASE ~(d < k)
            <4>1. d - 1 \in E /\ at(d - 1) = d
                BY <1>0, <3>2
            <4> QED BY <4>1
        <3> QED BY <3>1, <3>2
    <2> QED BY <2>1, <2>2, <2>3
<1> HIDE DEF to, at, n, E, D
<1>4. \A j \in E : to[j] = ch[at(j)] /\ at(j) \in D
    BY <1>1, <1>3 DEF E
<1>5. Chested(to)
    <2>1. \A j \in E : to[j].amount \in 1 .. MaxChest
        BY <1>4 DEF Chested, D
    <2>2. \A j, l \in E : to[j].slot # 0 /\ to[j].slot = to[l].slot => j = l
        <3> SUFFICES ASSUME NEW j \in E, NEW l \in E, to[j].slot # 0, to[j].slot = to[l].slot
                     PROVE  j = l
            OBVIOUS
        <3>1. at(j) = at(l)
            BY <1>4 DEF Chested, D
        <3> QED BY <1>3, <3>1
    <2>3. n - 1 <= ChestSlots
        BY <1>0
    <2> QED BY <1>1, <1>2, <2>1, <2>2, <2>3 DEF Chested
<1>6. ASSUME NEW i \in Item PROVE Stored(to, i) = Stored(ch, i) - Part(ch[k], i)
    <2> DEFINE a == [v \in D |-> Part(ch[v], i)]
               b == [v \in D \ {k} |-> Part(ch[v], i)]
               t == [v \in E |-> Part(to[v], i)]
               h == [v \in E |-> at(v)]
    <2>1. Stored(ch, i) = SumFunction(a) /\ Stored(to, i) = SumFunction(t)
          /\ a \in [D -> Int] /\ t \in [E -> Int] /\ IsFiniteSet(D) /\ IsFiniteSet(E)
        BY <1>0, <1>1, <1>2, StoredIs DEF D
    <2>2. k \in D /\ a[k] = Part(ch[k], i)
        BY DEF D
    <2>3. \A v \in D \ {k} : a[v] = b[v]
        OBVIOUS
    <2>4. b \in [D \ {k} -> Int]
        BY <2>1, <2>3
    <2>5. h \in [E -> D \ {k}] /\ (\A v, w \in E : h[v] = h[w] => v = w)
          /\ (\A d \in D \ {k} : \E v \in E : h[v] = d)
        BY <1>3
    <2>6. \A v \in E : t[v] = b[h[v]]
        BY <1>3, <1>4
    <2>7. IsFiniteSet(D \ {k})
        BY <2>1, FS_RemoveElement
    <2> HIDE DEF a, b, t, h
    <2>8. SumFunction(a) = SumFunction(b) + a[k]
        <3>1. IsFiniteSet(D) /\ a \in [D -> Int] /\ k \in D
            BY <2>1, <2>2
        <3> QED BY ONLY <2>3, <2>4, <3>1, SumMore
    <2>9. SumFunction(t) = SumFunction(b)
        <3>1. IsFiniteSet(E) /\ t \in [E -> Int]
            BY <2>1
        <3> QED BY ONLY <2>4, <2>5, <2>6, <2>7, <3>1, SumRenamed
    <2>10. SumFunction(b) \in Int /\ a[k] \in Int
        BY <2>1, <2>2, <2>4, <2>7, SumType
    <2> QED BY <2>1, <2>2, <2>8, <2>9, <2>10
<1> QED BY <1>5, <1>6 DEF to

\* What a character puts in, if it is put in.
LEMMA PutIs ==
    ASSUME NEW ch, Chested(ch), NEW i \in Item, NEW amount \in Nat \ {0}
    PROVE  /\ Chested(Put(ch, i, amount))
           /\ Put(ch, i, amount) # ch =>
                 \A j \in Item : Stored(Put(ch, i, amount), j)
                                     = Stored(ch, j) + (IF j = i THEN amount ELSE 0)
<1> DEFINE to == Put(ch, i, amount)
           k == FirstOf(ch, i)
<1>0. ch \in Seq(Entries) /\ MaxChest \in Nat /\ ChestSlots \in Nat /\ Len(Spawns) \in Nat
      /\ Len(ch) \in Nat
    BY SizesAreNatural DEF Chested
<1>1. CASE to = ch
    BY <1>1
<1>2. CASE to # ch /\ EntriesOf(ch, i) # {}
    <2>1. k \in DOMAIN ch /\ ch[k].id = i /\ InChest(ch, i) = ch[k].amount
          /\ InChest(ch, i) \in 1 .. MaxChest
        BY <1>2, FirstIs
    <2>2. InChest(ch, i) + amount <= MaxChest /\ to = [ch EXCEPT ![k].amount = @ + amount]
        BY <1>0, <1>2, <2>1 DEF Put
    <2>3. ch[k] \in Entries
        BY <1>0, <2>1
    <2>4. [ch[k] EXCEPT !.amount = ch[k].amount + amount]
              = Entry(ch[k].id, ch[k].amount + amount, ch[k].slot)
        BY <2>3 DEF Entries, Entry
    <2> DEFINE more == ch[k].amount + amount
    <2>5. to = [ch EXCEPT ![k] = Entry(ch[k].id, more, ch[k].slot)]
        BY <2>2, <2>4
    <2>6. more \in 1 .. MaxChest /\ more - ch[k].amount = amount
        BY <1>0, <2>1, <2>2
    <2> HIDE DEF more, k, to
    <2>7. /\ Chested(to)
          /\ \A j \in Item : Stored(to, j) =
                 Stored(ch, j) + (IF j = ch[k].id THEN more - ch[k].amount ELSE 0)
        <3>1. Chested(ch) /\ k \in DOMAIN ch
            BY <2>1
        <3>2. LET new == Changed(ch, k, more, ch[k].slot) IN
              /\ Chested(new)
              /\ \A j \in Item : Stored(new, j) =
                     Stored(ch, j) + (IF j = ch[k].id THEN more - ch[k].amount ELSE 0)
            BY ONLY <2>6, <3>1, EntryChanges
        <3> QED BY Zenon, <2>5, <3>2 DEF Changed
    <2> QED BY <2>1, <2>6, <2>7 DEF to
<1>3. CASE to # ch /\ EntriesOf(ch, i) = {}
    <2> DEFINE e == Entry(i, amount, 0)
    <2>1. to = Append(ch, e) /\ ~(Len(ch) >= ChestSlots) /\ ~(amount > MaxChest)
        BY <1>3 DEF Put
    <2>2. e \in Entries /\ e.slot = 0 /\ e.amount = amount /\ e.id = i
        BY <1>0 DEF Entry, Entries
    <2> HIDE DEF e, to
    <2>3. Len(ch) < ChestSlots /\ e.amount <= MaxChest
        BY <1>0, <2>1, <2>2
    <2>4. Chested(to) /\ \A j \in Item : Stored(to, j) = Stored(ch, j) + Part(e, j)
        BY <2>1, <2>2, <2>3, EntryAppended
    <2>5. \A j \in Item : Part(e, j) = IF j = i THEN amount ELSE 0
        BY <2>2 DEF Part
    <2> QED BY <2>4, <2>5 DEF to
<1> QED BY <1>1, <1>2, <1>3

\* What a character takes.
LEMMA LeftIs ==
    ASSUME NEW ch, Chested(ch), NEW i \in Item, NEW taken \in 1 .. InChest(ch, i)
    PROVE  /\ Chested(LeftOf(ch, i, taken))
           /\ \A j \in Item : Stored(LeftOf(ch, i, taken), j)
                                  = Stored(ch, j) - (IF j = i THEN taken ELSE 0)
<1> DEFINE to == LeftOf(ch, i, taken)
           k == FirstOf(ch, i)
<1>0. ch \in Seq(Entries) /\ MaxChest \in Nat
    BY SizesAreNatural DEF Chested
<1>1. EntriesOf(ch, i) # {}
    BY DEF InChest
<1>2. k \in DOMAIN ch /\ ch[k].id = i /\ InChest(ch, i) = ch[k].amount
      /\ InChest(ch, i) \in 1 .. MaxChest
    BY <1>1, FirstIs
<1>3. \A j \in Item : Stored(ch, j) \in Int
    BY <1>0, StoredIs
<1>4. CASE taken < ch[k].amount
    <2> DEFINE less == ch[k].amount - taken
    <2>1. to = [ch EXCEPT ![k] = Entry(ch[k].id, less, 0)]
        BY <1>2, <1>4 DEF LeftOf
    <2>2. less \in 1 .. MaxChest /\ less - ch[k].amount = 0 - taken
        BY <1>0, <1>2, <1>4
    <2> HIDE DEF less, k, to
    <2>3. /\ Chested(to)
          /\ \A j \in Item : Stored(to, j) =
                 Stored(ch, j) + (IF j = ch[k].id THEN less - ch[k].amount ELSE 0)
        <3>1. Chested(ch) /\ k \in DOMAIN ch
            BY <1>2
        <3>2. LET new == Changed(ch, k, less, 0) IN
              /\ Chested(new)
              /\ \A j \in Item : Stored(new, j) =
                     Stored(ch, j) + (IF j = ch[k].id THEN less - ch[k].amount ELSE 0)
            BY ONLY <2>2, <3>1, EntryChanges
        <3> QED BY Zenon, <2>1, <3>2 DEF Changed
    <2>4. \A j \in Item : Stored(to, j) = Stored(ch, j) - (IF j = i THEN taken ELSE 0)
        BY <1>2, <1>3, <2>2, <2>3
    <2> QED BY <2>3, <2>4 DEF to
<1>5. CASE ~(taken < ch[k].amount)
    <2>1. to = RemoveAt(ch, k) /\ taken = ch[k].amount
        BY <1>0, <1>2, <1>5 DEF LeftOf
    <2> HIDE DEF k, to
    <2>2. Chested(to) /\ \A j \in Item : Stored(to, j) = Stored(ch, j) - Part(ch[k], j)
        BY <1>2, <2>1, EntryRemoved
    <2>3. \A j \in Item : Part(ch[k], j) = IF j = i THEN taken ELSE 0
        BY <1>2, <2>1 DEF Part
    <2> QED BY <2>2, <2>3 DEF to
<1> QED BY <1>4, <1>5

\* What a spawn puts into a slot that nothing holds.
LEMMA SpawnedIs ==
    ASSUME NEW ch, Chested(ch), NEW i \in Item, NEW amount \in Int, NEW slot \in Slot,
           \A k \in DOMAIN ch : ch[k].slot # slot
    PROVE  /\ Chested(Spawned(ch, i, amount, slot))
           /\ \A k \in DOMAIN Spawned(ch, i, amount, slot) :
                  \/ Spawned(ch, i, amount, slot)[k].slot = slot
                  \/ \E j \in DOMAIN ch : Spawned(ch, i, amount, slot)[k].slot = ch[j].slot
<1> DEFINE to == Spawned(ch, i, amount, slot)
           e == Entry(i, amount, slot)
<1>0. MaxChest \in Nat /\ ChestSlots \in Nat /\ Len(Spawns) \in Nat /\ Len(ch) \in Nat
    BY SizesAreNatural DEF Chested
<1>1. CASE amount \notin 1 .. MaxChest \/ Len(ch) >= ChestSlots
    <2>1. to = ch
        BY <1>1 DEF Spawned
    <2> QED BY <2>1
<1>2. CASE amount \in 1 .. MaxChest /\ ~(Len(ch) >= ChestSlots)
    <2>1. to = <<e>> \o ch
        BY <1>2 DEF Spawned
    <2>2. e \in Entries /\ e.slot = slot /\ e.amount = amount
        BY <1>0, <1>2 DEF Entry, Entries, Slot
    <2> HIDE DEF e
    <2>3. Len(ch) < ChestSlots /\ e.amount <= MaxChest
        BY <1>0, <1>2, <2>2
    <2>4. \A k \in DOMAIN ch : ch[k].slot # e.slot
        BY <2>2
    <2>5. /\ Chested(<<e>> \o ch)
          /\ \A k \in DOMAIN (<<e>> \o ch) :
                 \/ (<<e>> \o ch)[k].slot = e.slot
                 \/ \E j \in DOMAIN ch : (<<e>> \o ch)[k].slot = ch[j].slot
        BY <2>2, <2>3, <2>4, EntryPrepended
    <2> DEFINE made == <<e>> \o ch
    <2>6. to = made /\ Chested(made)
          /\ \A k \in DOMAIN made : \/ made[k].slot = slot
                                    \/ \E j \in DOMAIN ch : made[k].slot = ch[j].slot
        BY <2>1, <2>2, <2>5
    <2> HIDE DEF made
    <2>7. Chested(to)
          /\ \A k \in DOMAIN to : \/ to[k].slot = slot
                                  \/ \E j \in DOMAIN ch : to[k].slot = ch[j].slot
        <3> HIDE DEF to
        <3> QED BY ONLY <2>6
    <2> QED BY <2>7 DEF to
<1> QED BY <1>1, <1>2

\* What all spawns do that are due.
AllSpawned(ch, due, pick) ==
    FoldLeft(LAMBDA contents, s : IF s \notin due THEN contents
                 ELSE Spawned(contents, pick[s].id, pick[s].amount, s),
             ch, [s \in Slot |-> s])

LEMMA SpawnsAre ==
    ASSUME NEW ch, Chested(ch), NEW due \in SUBSET Slot,
           due \cap {ch[k].slot : k \in DOMAIN ch} = {},
           NEW pick, \A s \in due : pick[s] \in [id : Item, amount : Int]
    PROVE  Chested(AllSpawned(ch, due, pick))
<1> DEFINE how == [fold |-> "spawns", due |-> due, pick |-> pick]
           list == [s \in Slot |-> s]
           n == Len(Spawns)
           at(k) == After(how, ch, list, k)
           Slots(x) == {x[j].slot : j \in DOMAIN x}
           T == {k \in Nat : k <= n => Chested(at(k)) /\ Slots(at(k)) \subseteq Slots(ch) \cup 1 .. k}
<1>0. n \in Nat /\ DOMAIN list = 1 .. n
    BY SizesAreNatural DEF Slot
<1>1. at(0) = ch /\ \A k \in 0 .. n - 1 : at(k + 1) = Does(how, at(k), list[k + 1])
    <2> HIDE DEF how, list, n
    <2>1. DOMAIN list = 1 .. n /\ n \in Nat
        BY <1>0
    <2>2. After(how, ch, list, 0) = ch
        BY ONLY <2>1, AfterNone
    <2>3. \A k \in 0 .. n - 1 : After(how, ch, list, k + 1) = Does(how, After(how, ch, list, k), list[k + 1])
        BY ONLY <2>1, AfterNext
    <2> QED BY ONLY <2>2, <2>3
<1> HIDE DEF at
<1>2. 0 \in T
    BY <1>1
<1>3. ASSUME NEW k \in Nat, k \in T PROVE k + 1 \in T
    <2> SUFFICES ASSUME k + 1 <= n
                 PROVE  /\ Chested(at(k + 1))
                        /\ Slots(at(k + 1)) \subseteq Slots(ch) \cup 1 .. k + 1
        <3> HIDE DEF Slots
        <3> QED OBVIOUS
    <2>1. k \in 0 .. n - 1 /\ k <= n /\ k + 1 \in 1 .. n
        BY <1>0
    <2>2. list[k + 1] = k + 1 /\ k + 1 \in Slot
        BY <2>1 DEF Slot
    <2>3. at(k + 1) = IF k + 1 \notin due THEN at(k)
                      ELSE Spawned(at(k), pick[k + 1].id, pick[k + 1].amount, k + 1)
        <3>1. at(k + 1) = Does(how, at(k), k + 1)
            BY <1>1, <2>1, <2>2
        <3> QED BY <3>1 DEF Does
    <2>4. Chested(at(k)) /\ Slots(at(k)) \subseteq Slots(ch) \cup 1 .. k
        BY <1>3, <2>1
    <2>5. 1 .. k \subseteq 1 .. k + 1 /\ k + 1 \in 1 .. k + 1 /\ k + 1 \notin 1 .. k
        BY <2>1
    <2> DEFINE x == at(k)
               y == at(k + 1)
    <2> HIDE DEF how, list, n, x, y
    <2>6. CASE k + 1 \notin due
        <3>1. y = x
            BY <2>3, <2>6 DEF x, y
        <3> QED BY <2>4, <2>5, <3>1 DEF x, y
    <2>7. CASE k + 1 \in due
        <3>1. y = Spawned(x, pick[k + 1].id, pick[k + 1].amount, k + 1)
            BY <2>3, <2>7 DEF x, y
        <3>2. pick[k + 1].id \in Item /\ pick[k + 1].amount \in Int
            BY <2>7
        <3>3. Chested(x) /\ \A j \in DOMAIN x : x[j].slot \in Slots(ch) \cup 1 .. k
            BY <2>4 DEF x
        <3>4. k + 1 \notin Slots(ch)
            BY <2>7
        <3>5. \A j \in DOMAIN x : x[j].slot # k + 1
            BY <2>5, <3>3, <3>4
        <3> DEFINE z == Spawned(x, pick[k + 1].id, pick[k + 1].amount, k + 1)
        <3>6. /\ Chested(z)
              /\ \A j \in DOMAIN z : z[j].slot = k + 1 \/ \E l \in DOMAIN x : z[j].slot = x[l].slot
            BY <2>2, <3>2, <3>3, <3>5, SpawnedIs
        <3> HIDE DEF z
        <3>7. Chested(z) /\ Slots(z) \subseteq Slots(ch) \cup 1 .. k + 1
            BY <2>5, <3>3, <3>6
        <3>8. y = z
            BY <3>1 DEF z
        <3> QED BY <3>7, <3>8 DEF y
    <2> QED BY <2>6, <2>7
<1>4. n \in T
    <2>1. Nat \subseteq T
        <3> HIDE DEF T
        <3> QED BY <1>2, <1>3, NumbersFollow
    <2> QED BY <1>0, <2>1
<1>5. Chested(at(n))
    BY <1>0, <1>4
<1>6. FoldLeft(LAMBDA contents, s : IF s \notin due THEN contents
                   ELSE Spawned(contents, pick[s].id, pick[s].amount, s),
               ch, [s \in Slot |-> s]) = at(n)
    <2> HIDE DEF n
    <2> QED BY ONLY <1>0, SpawnsFolded DEF at
<1> QED BY Zenon, <1>5, <1>6 DEF AllSpawned

-----------------------------------------------------------------------------
(***************************************************************************)
(* All that a character drops when it dies.                                *)
(***************************************************************************)

\* A finite set as a sequence: each element is in one place.
LEMMA InOrder ==
    ASSUME NEW S, IsFiniteSet(S)
    PROVE  /\ Cardinality(S) \in Nat
           /\ SetToSeq(S) \in [1 .. Cardinality(S) -> S]
           /\ \A j, k \in 1 .. Cardinality(S) : SetToSeq(S)[j] = SetToSeq(S)[k] => j = k
           /\ \A x \in S : \E k \in 1 .. Cardinality(S) : SetToSeq(S)[k] = x
<1> DEFINE n == Cardinality(S)
           f == SetToSeq(S)
<1>1. n \in Nat /\ ExistsBijection(1 .. n, S)
    BY FS_CardinalityType
<1>2. \E g \in [1 .. n -> S] : IsInjective(g)
    BY <1>1 DEF ExistsBijection, Bijection, Injection
<1>3. f \in [1 .. n -> S] /\ IsInjective(f)
    BY <1>2 DEF SetToSeq
<1> HIDE DEF f, n
<1>4. f \in Injection(1 .. n, S)
    BY <1>3 DEF Injection
<1>5. Cardinality(1 .. n) = n
    <2>1. 1 \in Int /\ n \in Int
        BY <1>1
    <2>2. Cardinality(1 .. n) = IF 1 > n THEN 0 ELSE n - 1 + 1
        BY <2>1, FS_Interval
    <2> QED BY <1>1, <2>2
<1>6. f \in Surjection(1 .. n, S)
    BY <1>4, <1>5, FS_Injection DEF n
<1>7. \A x \in S : \E k \in 1 .. n : f[k] = x
    BY <1>6 DEF Surjection
<1>8. \A j, k \in 1 .. n : f[j] = f[k] => j = k
    BY <1>3 DEF IsInjective
<1> QED BY <1>1, <1>3, <1>7, <1>8 DEF f, n

\* What a pile of stacks does, stack by stack.
LEMMA Piled ==
    ASSUME NEW f, Floored(f), NEW n \in Nat, NEW list, DOMAIN list = 1 .. n,
           \A k \in 1 .. n : list[k] \in Lying, NEW k \in 0 .. n
    PROVE  Floored(After([fold |-> "stacks"], f, list, k))
<1> DEFINE how == [fold |-> "stacks"]
           at(m) == After(how, f, list, m)
           T == {m \in Nat : m <= n => Floored(at(m))}
<1>1. \A x, e : Does(how, x, e) = Placed(x, e)
    BY DEF Does
<1> HIDE DEF how
<1>2. at(0) = f
    BY AfterNone
<1>3. \A m \in 0 .. n - 1 : at(m + 1) = Placed(at(m), list[m + 1])
    BY <1>1, AfterNext
<1> HIDE DEF at
<1>4. 0 \in T
    BY <1>2
<1>5. ASSUME NEW m \in Nat, m \in T PROVE m + 1 \in T
    <2> SUFFICES ASSUME m + 1 <= n PROVE Floored(at(m + 1))
        OBVIOUS
    <2>1. m \in 0 .. n - 1 /\ m + 1 \in 1 .. n /\ m <= n
        OBVIOUS
    <2>2. Floored(at(m)) /\ list[m + 1] \in Lying
        BY <1>5, <2>1
    <2>3. Floored(Placed(at(m), list[m + 1]))
        BY <2>2, PlacedIs
    <2> QED BY <1>3, <2>1, <2>3
<1>6. k \in T
    <2>1. Nat \subseteq T
        <3> HIDE DEF T
        <3> QED BY <1>4, <1>5, NumbersFollow
    <2> QED BY <2>1
<1>7. Floored(at(k))
    BY <1>6
<1> QED BY <1>7 DEF at, how

LEMMA PiledNext ==
    ASSUME NEW f, Floored(f), NEW n \in Nat, NEW list, DOMAIN list = 1 .. n,
           \A k \in 1 .. n : list[k] \in Lying, NEW k \in 0 .. n - 1, NEW i \in Item
    PROVE  OnFloor(After([fold |-> "stacks"], f, list, k + 1), i)
               = OnFloor(After([fold |-> "stacks"], f, list, k), i) + Part(list[k + 1], i)
<1> DEFINE how == [fold |-> "stacks"]
           at(m) == After(how, f, list, m)
<1>1. \A x, e : Does(how, x, e) = Placed(x, e)
    BY DEF Does
<1>2. k \in 0 .. n /\ list[k + 1] \in Lying
    OBVIOUS
<1>3. Floored(at(k))
    BY <1>2, Piled
<1> HIDE DEF how
<1>4. at(k + 1) = Placed(at(k), list[k + 1])
    BY <1>1, AfterNext
<1>5. OnFloor(Placed(at(k), list[k + 1]), i) = OnFloor(at(k), i) + Part(list[k + 1], i)
    BY <1>2, <1>3, PlacedIs
<1> QED BY <1>4, <1>5 DEF how

\* The stacks of one who carries inv and wears doll.
StacksOf(c, inv, doll) ==
    LET carried == SetToSeq({i \in Item : inv[i] > 0})
        worn == SetToSeq({p \in Place : doll[p] # Nothing})
    IN  [k \in DOMAIN carried |-> Stack(carried[k], inv[carried[k]], c)]
        \o [k \in DOMAIN worn |-> Stack(doll[worn[k]], 1, c)]

LEMMA StacksAre ==
    ASSUME NEW c \in Char, NEW inv \in Carried, NEW doll \in [Place -> Wearable \cup {Nothing}],
           NEW f, Floored(f)
    PROVE  /\ Floored(FoldLeft(Placed, f, StacksOf(c, inv, doll)))
           /\ \A i \in Item : OnFloor(FoldLeft(Placed, f, StacksOf(c, inv, doll)), i)
                  = OnFloor(f, i) + inv[i] + Cardinality({p \in Place : doll[p] = i})
<1> DEFINE C == {i \in Item : inv[i] > 0}
           W == {p \in Place : doll[p] # Nothing}
           nc == Cardinality(C)
           nw == Cardinality(W)
           carried == SetToSeq(C)
           worn == SetToSeq(W)
           a == [k \in DOMAIN carried |-> Stack(carried[k], inv[carried[k]], c)]
           b == [k \in DOMAIN worn |-> Stack(doll[worn[k]], 1, c)]
           list == StacksOf(c, inv, doll)
           n == nc + nw
<1>1. IsFiniteSet(Place) /\ IsFiniteSet(C) /\ IsFiniteSet(W)
    <2>1. IsFiniteSet({"place1"} \cup {"place2"})
        BY FS_Singleton, FS_Union
    <2>2. Place = {"place1"} \cup {"place2"}
        BY DEF Place
    <2>3. IsFiniteSet(Place)
        BY <2>1, <2>2
    <2>4. C \in SUBSET Item /\ W \in SUBSET Place
        OBVIOUS
    <2> QED BY <2>3, <2>4, ItemIsFinite, FS_Subset
<1>2. /\ nc \in Nat /\ carried \in [1 .. nc -> C]
      /\ \A j, k \in 1 .. nc : carried[j] = carried[k] => j = k
      /\ \A x \in C : \E k \in 1 .. nc : carried[k] = x
    <2> HIDE DEF C
    <2> QED BY <1>1, InOrder
<1>3. /\ nw \in Nat /\ worn \in [1 .. nw -> W]
      /\ \A j, k \in 1 .. nw : worn[j] = worn[k] => j = k
      /\ \A x \in W : \E k \in 1 .. nw : worn[k] = x
    <2> HIDE DEF W
    <2> QED BY <1>1, InOrder
<1>4. list = a \o b
    BY DEF StacksOf
<1> HIDE DEF nc, nw, carried, worn
<1>5. /\ DOMAIN a = 1 .. nc
      /\ \A k \in 1 .. nc : /\ a[k] \in Lying /\ a[k].id = carried[k]
                            /\ a[k].amount = inv[carried[k]]
    <2>1. ASSUME NEW k \in 1 .. nc
          PROVE  carried[k] \in Item /\ inv[carried[k]] \in Nat \ {0}
        <3>1. carried[k] \in C
            BY <1>2
        <3> QED BY <3>1 DEF Carried
    <2> QED BY <1>2, <2>1 DEF Stack, Lying
<1>6. /\ DOMAIN b = 1 .. nw
      /\ \A k \in 1 .. nw : b[k] \in Lying /\ b[k].id = doll[worn[k]] /\ b[k].amount = 1
    <2>1. ASSUME NEW k \in 1 .. nw PROVE doll[worn[k]] \in Item
        <3>1. worn[k] \in W
            BY <1>3
        <3> QED BY <3>1, SetsAreParts
    <2> QED BY <1>3, <2>1 DEF Stack, Lying
<1> HIDE DEF a, b, C, W, list
<1>7. a \in Seq(Lying) /\ Len(a) = nc /\ b \in Seq(Lying) /\ Len(b) = nw
    <2>1. a \in [1 .. nc -> Lying] /\ b \in [1 .. nw -> Lying]
        <3>1. a = [k \in 1 .. nc |-> a[k]] /\ b = [k \in 1 .. nw |-> b[k]]
            BY <1>5, <1>6 DEF a, b
        <3> QED BY <1>5, <1>6, <3>1
    <2> QED BY <1>2, <1>3, <2>1
<1>8. /\ DOMAIN list = 1 .. n
      /\ \A k \in 1 .. n : list[k] = IF k <= nc THEN a[k] ELSE b[k - nc]
    <2>1. list \in Seq(Lying) /\ Len(list) = nc + nw
        <3>1. a \o b \in Seq(Lying) /\ Len(a \o b) = Len(a) + Len(b)
            BY ONLY <1>7, ConcatProperties
        <3> QED BY ONLY <1>4, <1>7, <3>1
    <2>2. \A j \in 1 .. Len(a) + Len(b) :
              (a \o b)[j] = IF j <= Len(a) THEN a[j] ELSE b[j - Len(a)]
        BY ONLY <1>7, ConcatProperties
    <2>3. DOMAIN list = 1 .. nc + nw
        BY ONLY <2>1
    <2> QED BY ONLY <1>4, <1>7, <2>2, <2>3
<1>9. n \in Nat /\ \A k \in 1 .. nw : nc + k \in 1 .. n
    BY <1>2, <1>3
<1>10. \A k \in nc + 1 .. n : k - nc \in 1 .. nw /\ ~(k <= nc)
    BY <1>2, <1>3
<1>11. \A k \in 1 .. n : list[k] \in Lying
    <2> SUFFICES ASSUME NEW k \in 1 .. n PROVE list[k] \in Lying
        OBVIOUS
    <2>1. CASE k <= nc
        BY <1>2, <1>5, <1>8, <2>1
    <2>2. CASE ~(k <= nc)
        <3>1. k \in nc + 1 .. n
            BY <1>2, <1>9, <2>2
        <3> QED BY <1>6, <1>8, <1>10, <3>1
    <2> QED BY <2>1, <2>2
<1> DEFINE how == [fold |-> "stacks"]
           at(k) == After(how, f, list, k)
<1>12. FoldLeft(Placed, f, list) = at(n)
    BY <1>8, <1>9, StacksFolded
<1>13. Floored(at(n))
    <2>1. n \in 0 .. n
        BY <1>9
    <2> QED BY <1>8, <1>9, <1>11, <2>1, Piled
<1>14. ASSUME NEW i \in Item
       PROVE  OnFloor(at(n), i) = OnFloor(f, i) + inv[i] + Cardinality({p \in Place : doll[p] = i})
    <2> DEFINE Of(k) == IF \E j \in 1 .. k : j <= nc /\ carried[j] = i THEN inv[i] ELSE 0
               On(k) == {p \in Place : doll[p] = i /\ \E j \in 1 .. k : j > nc /\ worn[j - nc] = p}
               T == {k \in Nat : k <= n =>
                        OnFloor(at(k), i) = OnFloor(f, i) + Of(k) + Cardinality(On(k))}
    <2>0. inv[i] \in Nat /\ OnFloor(f, i) \in Int /\ \A k : Of(k) \in Nat
        BY OnFloorIs DEF Carried
    <2>1. \A k : IsFiniteSet(On(k)) /\ Cardinality(On(k)) \in Nat
        <3> SUFFICES ASSUME NEW k PROVE IsFiniteSet(On(k)) /\ Cardinality(On(k)) \in Nat
            OBVIOUS
        <3>1. On(k) \in SUBSET Place
            OBVIOUS
        <3> HIDE DEF On
        <3> QED BY <1>1, <3>1, FS_Subset, FS_CardinalityType
    <2>2. 0 \in T
        <3>1. at(0) = f
            BY <1>8, <1>9, AfterNone
        <3>2. Of(0) = 0 /\ On(0) = {}
            OBVIOUS
        <3>3. Cardinality(On(0)) = 0
            BY <3>2, FS_EmptySet
        <3> HIDE DEF at, Of, On
        <3> QED BY <2>0, <3>1, <3>2, <3>3
    <2>3. ASSUME NEW k \in Nat, k \in T PROVE k + 1 \in T
        <3> SUFFICES ASSUME k + 1 <= n
                     PROVE  OnFloor(at(k + 1), i) = OnFloor(f, i) + Of(k + 1) + Cardinality(On(k + 1))
            <4> HIDE DEF at, Of, On
            <4> QED BY DEF T
        <3>1. k \in 0 .. n - 1 /\ k + 1 \in 1 .. n /\ k <= n
            BY <1>9
        <3>2. OnFloor(at(k + 1), i) = OnFloor(at(k), i) + Part(list[k + 1], i)
            BY <1>8, <1>9, <1>11, <3>1, PiledNext
        <3>3. OnFloor(at(k), i) = OnFloor(f, i) + Of(k) + Cardinality(On(k))
            BY <2>3, <3>1 DEF T
        <3> HIDE DEF at, T
        <3>4. CASE k + 1 <= nc
            <4>1. Part(list[k + 1], i) = IF carried[k + 1] = i THEN inv[i] ELSE 0
                <5>1. k + 1 \in 1 .. nc
                    BY <1>2, <3>4
                <5>2. list[k + 1] = a[k + 1]
                    BY <1>8, <3>1, <3>4
                <5> QED BY <1>5, <5>1, <5>2 DEF Part
            <4>2. On(k + 1) = On(k)
                <5>1. \A j \in 1 .. k + 1 : ~(j > nc)
                    BY <1>2, <3>4
                <5> QED BY <5>1
            <4>3. Of(k + 1) = Of(k) + (IF carried[k + 1] = i THEN inv[i] ELSE 0)
                <5>1. CASE carried[k + 1] = i
                    <6>1. \A j \in 1 .. k : j <= nc => carried[j] # i
                        <7> SUFFICES ASSUME NEW j \in 1 .. k, j <= nc, carried[j] = i PROVE FALSE
                            OBVIOUS
                        <7>1. j \in 1 .. nc /\ k + 1 \in 1 .. nc /\ j # k + 1
                            BY <1>2, <3>4
                        <7> QED BY <1>2, <5>1, <7>1
                    <6>2. Of(k) = 0
                        BY <6>1
                    <6>3. k + 1 \in 1 .. k + 1
                        OBVIOUS
                    <6>4. Of(k + 1) = inv[i]
                        BY <3>4, <5>1, <6>3
                    <6> HIDE DEF Of
                    <6> QED BY <2>0, <5>1, <6>2, <6>4
                <5>2. CASE carried[k + 1] # i
                    <6>1. \A j \in 1 .. k + 1 : j = k + 1 \/ j \in 1 .. k
                        OBVIOUS
                    <6>2. \A j \in 1 .. k : j \in 1 .. k + 1
                        OBVIOUS
                    <6>3. (\E j \in 1 .. k + 1 : j <= nc /\ carried[j] = i)
                              <=> (\E j \in 1 .. k : j <= nc /\ carried[j] = i)
                        BY <5>2, <6>1, <6>2
                    <6>4. Of(k + 1) = Of(k)
                        BY Zenon, <6>3
                    <6> HIDE DEF Of
                    <6> QED BY <2>0, <5>2, <6>4
                <5> QED BY <5>1, <5>2
            <4>4. inv[i] \in Nat /\ Of(k) \in Nat /\ Cardinality(On(k)) \in Nat
                BY <2>0, <2>1
            <4> HIDE DEF Of, On
            <4> QED BY <2>0, <3>2, <3>3, <4>1, <4>2, <4>3, <4>4
        <3>5. CASE ~(k + 1 <= nc)
            <4> DEFINE q == worn[(k + 1) - nc]
            <4>0. k + 1 \in nc + 1 .. n
                BY <1>2, <3>1, <3>5
            <4>1. (k + 1) - nc \in 1 .. nw
                BY <1>2, <1>3, <3>1, <3>5
            <4>2. Part(list[k + 1], i) = IF doll[q] = i THEN 1 ELSE 0
                <5>1. list[k + 1] = b[(k + 1) - nc]
                    BY Zenon, <1>8, <3>1, <3>5
                <5> QED BY <1>6, <4>1, <5>1 DEF Part
            <4>3. Of(k + 1) = Of(k)
                <5>1. \A j \in 1 .. k + 1 : j <= nc => j \in 1 .. k
                    BY <1>2, <3>5
                <5>2. \A j \in 1 .. k : j \in 1 .. k + 1
                    OBVIOUS
                <5>3. (\E j \in 1 .. k + 1 : j <= nc /\ carried[j] = i)
                          <=> (\E j \in 1 .. k : j <= nc /\ carried[j] = i)
                    BY <5>1, <5>2
                <5> QED BY Zenon, <5>3
            <4>4. q \in Place
                BY <1>3, <4>1 DEF W
            <4>5. q \notin On(k)
                <5> SUFFICES ASSUME NEW j \in 1 .. k, j > nc, worn[j - nc] = q PROVE FALSE
                    OBVIOUS
                <5>1. j - nc \in 1 .. nw /\ j - nc # (k + 1) - nc
                    BY <1>2, <1>3, <3>1
                <5> QED BY <1>3, <4>1, <5>1
            <4>6. On(k + 1) = IF doll[q] = i THEN On(k) \cup {q} ELSE On(k)
                <5>1. \A j \in 1 .. k + 1 : j = k + 1 \/ j \in 1 .. k
                    OBVIOUS
                <5>2. k + 1 \in 1 .. k + 1 /\ k + 1 > nc /\ \A j \in 1 .. k : j \in 1 .. k + 1
                    BY <1>2, <3>5
                <5>3. \A p \in Place : p # q =>
                          ((\E j \in 1 .. k + 1 : j > nc /\ worn[j - nc] = p)
                              <=> (\E j \in 1 .. k : j > nc /\ worn[j - nc] = p))
                    BY <5>1, <5>2
                <5>4. \E j \in 1 .. k + 1 : j > nc /\ worn[j - nc] = q
                    BY <5>2
                <5> HIDE DEF q
                <5> QED BY <4>4, <5>2, <5>3, <5>4
            <4>7. Cardinality(On(k + 1)) = Cardinality(On(k)) + (IF doll[q] = i THEN 1 ELSE 0)
                <5> HIDE DEF On, q
                <5>1. IsFiniteSet(On(k)) /\ Cardinality(On(k)) \in Nat
                    BY <2>1
                <5>2. Cardinality(On(k) \cup {q}) = Cardinality(On(k)) + 1
                    BY <4>5, <5>1, FS_AddElement
                <5> QED BY <4>6, <5>1, <5>2
            <4>8. Of(k) \in Nat /\ Cardinality(On(k)) \in Nat
                BY <2>0, <2>1
            <4> HIDE DEF Of, On, q
            <4> QED BY <2>0, <3>2, <3>3, <4>2, <4>3, <4>7, <4>8
        <3> QED BY <3>4, <3>5
    <2>4. n \in T
        <3>1. Nat \subseteq T
            <4> HIDE DEF T
            <4> QED BY <2>2, <2>3, NumbersFollow
        <3> QED BY <1>9, <3>1
    <2>5. OnFloor(at(n), i) = OnFloor(f, i) + Of(n) + Cardinality(On(n))
        <3> HIDE DEF at, Of, On
        <3> QED BY <1>9, <2>4
    <2>6. Of(n) = inv[i]
        <3>1. CASE inv[i] > 0
            <4>1. PICK j \in 1 .. nc : carried[j] = i
                BY <1>2, <3>1 DEF C
            <4>2. j \in 1 .. n /\ j <= nc
                BY <1>2, <1>3
            <4> QED BY <4>1, <4>2
        <3>2. CASE ~(inv[i] > 0)
            BY <2>0, <3>2
        <3> QED BY <3>1, <3>2
    <2>7. On(n) = {p \in Place : doll[p] = i}
        <3> SUFFICES ASSUME NEW p \in Place, doll[p] = i
                     PROVE  \E j \in 1 .. n : j > nc /\ worn[j - nc] = p
            OBVIOUS
        <3>1. p \in W
            BY ItemIsFinite DEF W
        <3>2. PICK k \in 1 .. nw : worn[k] = p
            BY <1>3, <3>1
        <3>3. nc + k \in 1 .. n /\ nc + k > nc /\ (nc + k) - nc = k
            BY <1>2, <1>3
        <3>4. worn[(nc + k) - nc] = p
            BY <3>2, <3>3
        <3> QED BY <3>3, <3>4
    <2> HIDE DEF at, Of, On
    <2> QED BY <2>5, <2>6, <2>7
<1> HIDE DEF at
<1>15. Floored(FoldLeft(Placed, f, list))
    BY <1>12, <1>13
<1>16. \A i \in Item : OnFloor(FoldLeft(Placed, f, list), i)
           = OnFloor(f, i) + inv[i] + Cardinality({p \in Place : doll[p] = i})
    BY <1>12, <1>14
<1> QED BY <1>15, <1>16 DEF list

-----------------------------------------------------------------------------
(***************************************************************************)
(* What shops make.                                                        *)
(***************************************************************************)
Needs == [id : Item, amount : Nat]
MadeOf == [id : Item, needs : Seq(Needs)]
Works == [carried : Carried, net : [Item -> Int]]

\* What the game has brought in and the character does not have.
Gone(s, i) == s.net[i] - s.carried[i]

LEMMA UsedIs ==
    ASSUME NEW s \in Works, NEW need \in Needs
    PROVE  /\ Used(s, need) \in Works
           /\ \A i \in Item : /\ Gone(Used(s, need), i) = Gone(s, i)
                              /\ Used(s, need).carried[i] <= s.carried[i]
<1> DEFINE j == need.id
           amount == need.amount
           has == s.carried[j]
           t == Used(s, need)
<1>1. /\ s.carried \in Carried /\ s.net \in [Item -> Int]
      /\ j \in Item /\ amount \in Nat /\ has \in Nat /\ s.net[j] \in Int
    BY DEF Works, Needs, Carried
<1>2. /\ t = [carried |-> [s.carried EXCEPT ![j] = Removed(has, amount)],
              net |-> [s.net EXCEPT ![j] = s.net[j] - Least(amount, has)]]
    BY DEF Used
<1> HIDE DEF t
<1>3. Removed(has, amount) \in Nat /\ Least(amount, has) \in Nat
      /\ Removed(has, amount) = has - Least(amount, has)
    BY <1>1 DEF Removed, Least, Most
<1>4. t.carried \in Carried /\ t.net \in [Item -> Int] /\ t \in Works
    BY <1>1, <1>2, <1>3 DEF Works, Carried
<1>5. /\ t.carried[j] = Removed(has, amount) /\ t.net[j] = s.net[j] - Least(amount, has)
      /\ \A i \in Item : i # j => t.carried[i] = s.carried[i] /\ t.net[i] = s.net[i]
    BY <1>1, <1>2 DEF Carried
<1> HIDE DEF has, amount, j
<1>6. ASSUME NEW i \in Item PROVE Gone(t, i) = Gone(s, i) /\ t.carried[i] <= s.carried[i]
    <2>1. s.carried[i] \in Nat /\ s.net[i] \in Int
        BY <1>1 DEF Carried
    <2>2. CASE i = j
        BY <1>1, <1>3, <1>5, <2>1, <2>2 DEF Gone, has
    <2>3. CASE i # j
        BY <1>5, <2>1, <2>3 DEF Gone
    <2> QED BY <2>2, <2>3
<1> QED BY <1>4, <1>6 DEF t

LEMMA NeedsUsed ==
    ASSUME NEW s \in Works, NEW needs \in Seq(Needs)
    PROVE  LET t == FoldLeft(Used, s, needs) IN
           /\ t \in Works
           /\ \A i \in Item : Gone(t, i) = Gone(s, i) /\ t.carried[i] <= s.carried[i]
<1> DEFINE how == [fold |-> "needs"]
           n == Len(needs)
           at(k) == After(how, s, needs, k)
           Fits(t) == /\ t \in Works
                      /\ \A i \in Item : Gone(t, i) = Gone(s, i) /\ t.carried[i] <= s.carried[i]
           T == {k \in Nat : k <= n => Fits(at(k))}
<1>0. n \in Nat /\ DOMAIN needs = 1 .. n /\ \A k \in 1 .. n : needs[k] \in Needs
    OBVIOUS
<1>1. \A x, e : Does(how, x, e) = Used(x, e)
    BY DEF Does
<1> HIDE DEF how, n
<1>2. at(0) = s
    BY <1>0, AfterNone
<1>3. \A k \in 0 .. n - 1 : at(k + 1) = Used(at(k), needs[k + 1])
    BY <1>0, <1>1, AfterNext
<1> HIDE DEF at
<1>4. 0 \in T
    <2>1. \A i \in Item : s.carried[i] \in Nat
        BY DEF Works, Carried
    <2>2. Fits(s)
        BY <2>1
    <2> HIDE DEF Fits
    <2> QED BY <1>2, <2>2
<1>5. ASSUME NEW k \in Nat, k \in T PROVE k + 1 \in T
    <2> SUFFICES ASSUME k + 1 <= n PROVE Fits(at(k + 1))
        <3> HIDE DEF Fits
        <3> QED OBVIOUS
    <2>1. k \in 0 .. n - 1 /\ k + 1 \in 1 .. n /\ k <= n
        BY <1>0
    <2>2. Fits(at(k))
        BY <1>5, <2>1
    <2> DEFINE x == at(k)
               y == Used(x, needs[k + 1])
    <2>3. at(k + 1) = y
        BY <1>3, <2>1
    <2>4. x \in Works /\ needs[k + 1] \in Needs
        BY <1>0, <2>1, <2>2
    <2> HIDE DEF x
    <2>5. y \in Works /\ \A i \in Item : Gone(y, i) = Gone(x, i) /\ y.carried[i] <= x.carried[i]
        BY <2>4, UsedIs
    <2> HIDE DEF y
    <2>6. \A i \in Item : s.carried[i] \in Nat /\ x.carried[i] \in Nat /\ y.carried[i] \in Nat
        BY <2>4, <2>5 DEF Works, Carried
    <2>7. \A i \in Item : Gone(x, i) = Gone(s, i) /\ x.carried[i] <= s.carried[i]
        BY <2>2 DEF x
    <2>8. \A i \in Item : Gone(y, i) = Gone(s, i) /\ y.carried[i] <= s.carried[i]
        BY <2>5, <2>6, <2>7
    <2> QED BY <2>3, <2>5, <2>8
<1>6. Fits(at(n))
    <2>1. Nat \subseteq T
        <3> HIDE DEF T
        <3> QED BY <1>4, <1>5, NumbersFollow
    <2> HIDE DEF Fits
    <2> QED BY <1>0, <2>1
<1>7. FoldLeft(Used, s, needs) = at(n)
    BY <1>0, NeedsFolded DEF at, how
<1> QED BY <1>6, <1>7

\* One recipe.
LEMMA CraftedIs ==
    ASSUME NEW s \in Works, NEW i \in Item, NEW recipe \in MadeOf
    PROVE  LET t == Crafted(i, s, recipe)
               lost == Gone(t, i) - Gone(s, i)
           IN  /\ t \in Works
               /\ recipe.id # i => t = s
               /\ \A j \in Item : j # i => Gone(t, j) = Gone(s, j)
               /\ t.carried[i] <= s.carried[i] + 1
               /\ lost >= 0
               /\ lost > 0 => /\ s.carried[i] > 0 /\ s.carried[i] + 1 > MaxItem
                              /\ t.carried[i] = MaxItem \/ s.carried[i] + lost > MaxInt
<1> DEFINE t == Crafted(i, s, recipe)
           lost == Gone(t, i) - Gone(s, i)
<1>0. recipe.needs \in Seq(Needs) /\ s.carried[i] \in Nat /\ Gone(s, i) \in Int
      /\ MaxItem \in Nat \ {0} /\ MaxInt \in Nat /\ MaxItem <= MaxInt
    BY LimitsArePositive DEF MadeOf, Works, Carried, Gone
<1>1. CASE t = s
    BY <1>0, <1>1
<1>2. CASE t # s
    <2> DEFINE used == FoldLeft(Used, s, recipe.needs)
               has == used.carried[i]
               more == Added(has, 1, MaxItem)
    <2>1. t = [carried |-> [used.carried EXCEPT ![i] = more],
               net |-> [used.net EXCEPT ![i] = used.net[i] + 1]]
          /\ recipe.id = i
        BY <1>2 DEF Crafted
    <2>2. used \in Works
          /\ \A j \in Item : Gone(used, j) = Gone(s, j) /\ used.carried[j] <= s.carried[j]
        BY <1>0, NeedsUsed
    <2> HIDE DEF t, used
    <2>3. used.carried \in Carried /\ used.net \in [Item -> Int] /\ has \in Nat /\ used.net[i] \in Int
          /\ has <= s.carried[i]
        BY <2>2 DEF Works, Carried
    <2>4. /\ more \in Nat /\ more <= has + 1
          /\ \/ more = has + 1
             \/ has > 0 /\ has + 1 > MaxInt /\ more = has
             \/ has > 0 /\ has + 1 > MaxItem /\ more = MaxItem
        <3>1. 1 \in Int /\ 1 > 0 /\ MaxItem \in Nat /\ MaxInt \in Nat
            BY <1>0
        <3> HIDE DEF has
        <3> DEFINE new == Added(has, 1, MaxItem)
        <3>2. /\ new \in Nat
              /\ 1 > 0 =>
                    /\ new <= has + 1
                    /\ \/ new = has + 1
                       \/ has > 0 /\ has + 1 > MaxInt /\ new = has
                       \/ has > 0 /\ has + 1 > MaxItem /\ new = MaxItem
            BY ONLY <2>3, <3>1, AddedIs
        <3> HIDE DEF new
        <3>3. more = new
            BY DEF new
        <3> QED BY <3>1, <3>2, <3>3
    <2> HIDE DEF more
    <2>5. t.carried \in Carried /\ t.net \in [Item -> Int] /\ t \in Works
        BY <2>1, <2>3, <2>4 DEF Works, Carried
    <2>6. /\ t.carried[i] = more /\ t.net[i] = used.net[i] + 1
          /\ \A j \in Item : j # i => t.carried[j] = used.carried[j] /\ t.net[j] = used.net[j]
        BY <2>1, <2>3 DEF Carried
    <2>7. \A j \in Item : j # i => Gone(t, j) = Gone(s, j)
        BY <2>2, <2>6 DEF Gone
    <2>8. Gone(s, i) = used.net[i] - has /\ Gone(t, i) = (used.net[i] + 1) - more
        <3>1. Gone(used, i) = used.net[i] - has
            BY DEF Gone
        <3>2. Gone(t, i) = (used.net[i] + 1) - more
            BY <2>6 DEF Gone
        <3> QED BY <2>2, <3>1, <3>2
    <2> HIDE DEF has
    <2>9. lost = (has + 1) - more
        BY <2>3, <2>4, <2>8
    <2>10. t.carried[i] <= s.carried[i] + 1 /\ lost >= 0
        BY <1>0, <2>3, <2>4, <2>6, <2>9
    <2>11. ASSUME lost > 0
           PROVE  /\ s.carried[i] > 0 /\ s.carried[i] + 1 > MaxItem
                  /\ t.carried[i] = MaxItem \/ s.carried[i] + lost > MaxInt
        <3> HIDE DEF lost
        <3>1. CASE has > 0 /\ has + 1 > MaxInt /\ more = has
            BY <1>0, <2>3, <2>9, <3>1
        <3>2. CASE has > 0 /\ has + 1 > MaxItem /\ more = MaxItem
            BY <1>0, <2>3, <2>6, <3>2
        <3>3. more # has + 1
            BY <2>3, <2>4, <2>9, <2>11
        <3> QED BY <2>4, <3>1, <3>2, <3>3
    <2> HIDE DEF lost
    <2>12. /\ t \in Works
           /\ recipe.id # i => t = s
           /\ \A j \in Item : j # i => Gone(t, j) = Gone(s, j)
           /\ t.carried[i] <= s.carried[i] + 1
           /\ lost >= 0
           /\ lost > 0 => /\ s.carried[i] > 0 /\ s.carried[i] + 1 > MaxItem
                          /\ t.carried[i] = MaxItem \/ s.carried[i] + lost > MaxInt
        BY <2>1, <2>5, <2>7, <2>10, <2>11
    <2> QED BY Zenon, <2>12 DEF t, lost
<1> QED BY <1>1, <1>2

\* All recipes for an item.
LEMMA AllCrafted ==
    ASSUME NEW s \in Works, NEW i \in Item
    PROVE  LET t == FoldLeft(LAMBDA x, recipe : Crafted(i, x, recipe), s, ShopCraft)
               lost == Gone(t, i) - Gone(s, i)
           IN  /\ t \in Works
               /\ \A j \in Item : j # i => Gone(t, j) = Gone(s, j)
               /\ lost >= 0
               /\ lost > 0 =>
                     \/ /\ s.carried[i] > 0
                        /\ t.carried[i] = MaxItem \/ s.carried[i] + lost > MaxInt
                     \/ Recipes(i) > 1 /\ s.carried[i] + Recipes(i) > MaxItem
<1> DEFINE how == [fold |-> "recipes", id |-> i]
           n == Len(ShopCraft)
           at(k) == After(how, s, ShopCraft, k)
           had == s.carried[i]
           lost(t) == Gone(t, i) - Gone(s, i)
           upto(k) == {j \in 1 .. k : ShopCraft[j].id = i}
           m(k) == Cardinality(upto(k))
           Fits(t, c) ==
               /\ t \in Works
               /\ \A j \in Item : j # i => Gone(t, j) = Gone(s, j)
               /\ t.carried[i] <= had + c
               /\ lost(t) >= 0
               /\ c = 0 => t = s
               /\ lost(t) > 0 => had + c > MaxItem
               /\ c = 1 /\ lost(t) > 0 =>
                     had > 0 /\ (t.carried[i] = MaxItem \/ had + lost(t) > MaxInt)
           T == {k \in Nat : k <= n => Fits(at(k), m(k))}
<1>0. n \in Nat /\ DOMAIN ShopCraft = 1 .. n /\ (\A k \in 1 .. n : ShopCraft[k] \in MadeOf)
    <2>1. ShopCraft \in Seq(MadeOf)
        BY DataIsTyped DEF MadeOf, Needs
    <2> QED BY <2>1
<1>1. \A x, e : Does(how, x, e) = Crafted(i, x, e)
    BY DEF Does
<1> HIDE DEF how, n
<1>2. at(0) = s
    BY <1>0, AfterNone
<1>3. \A k \in 0 .. n - 1 : at(k + 1) = Crafted(i, at(k), ShopCraft[k + 1])
    BY <1>0, <1>1, AfterNext
<1> HIDE DEF at
<1>4. had \in Nat /\ Gone(s, i) \in Int /\ MaxItem \in Nat \ {0} /\ MaxInt \in Nat
    BY LimitsArePositive DEF Works, Carried, Gone
<1>5. \A k \in Nat : m(k) \in Nat /\ IsFiniteSet(upto(k))
    <2> SUFFICES ASSUME NEW k \in Nat PROVE m(k) \in Nat /\ IsFiniteSet(upto(k))
        OBVIOUS
    <2>1. IsFiniteSet(1 .. k)
        <3>1. 1 \in Int /\ k \in Int
            OBVIOUS
        <3> QED BY <3>1, FS_Interval
    <2>2. upto(k) \in SUBSET (1 .. k)
        OBVIOUS
    <2> HIDE DEF upto
    <2> QED BY <2>1, <2>2, FS_Subset, FS_CardinalityType
<1>6. 0 \in T
    <2>1. upto(0) = {}
        OBVIOUS
    <2>2. m(0) = 0
        BY <2>1, FS_EmptySet
    <2> HIDE DEF m, upto
    <2>3. Fits(s, 0)
        BY <1>4
    <2> HIDE DEF Fits
    <2> QED BY <1>2, <2>2, <2>3
<1>7. ASSUME NEW k \in Nat, k \in T PROVE k + 1 \in T
    <2> SUFFICES ASSUME k + 1 <= n PROVE Fits(at(k + 1), m(k + 1))
        <3> HIDE DEF Fits, m
        <3> QED OBVIOUS
    <2>1. k \in 0 .. n - 1 /\ k + 1 \in 1 .. n /\ k <= n
        BY <1>0
    <2> DEFINE x == at(k)
               r == ShopCraft[k + 1]
               y == Crafted(i, x, r)
               c == m(k)
               less == Gone(y, i) - Gone(x, i)
    <2>2. Fits(x, c)
        <3> HIDE DEF Fits, m
        <3> QED BY <1>7, <2>1
    <2>3. at(k + 1) = y
        BY <1>3, <2>1
    <2>4. c \in Nat /\ IsFiniteSet(upto(k))
        BY <1>5
    <2>5. m(k + 1) = IF r.id = i THEN c + 1 ELSE c
        <3>1. \A j \in 1 .. k + 1 : j = k + 1 \/ j \in 1 .. k
            OBVIOUS
        <3>2. k + 1 \in 1 .. k + 1 /\ k + 1 \notin 1 .. k /\ \A j \in 1 .. k : j \in 1 .. k + 1
            OBVIOUS
        <3>3. upto(k + 1) = IF r.id = i THEN upto(k) \cup {k + 1} ELSE upto(k)
            <4>1. CASE r.id = i
                BY <3>1, <3>2, <4>1
            <4>2. CASE r.id # i
                BY <3>1, <3>2, <4>2
            <4> QED BY <4>1, <4>2
        <3>4. k + 1 \notin upto(k)
            BY <3>2
        <3> HIDE DEF upto, r
        <3>5. Cardinality(upto(k) \cup {k + 1}) = Cardinality(upto(k)) + 1
            BY <2>4, <3>4, FS_AddElement
        <3> QED BY <3>3, <3>5
    <2>6. x \in Works /\ r \in MadeOf
        BY <1>0, <2>1, <2>2
    <2> HIDE DEF x, r
    <2>7. /\ y \in Works
          /\ r.id # i => y = x
          /\ \A j \in Item : j # i => Gone(y, j) = Gone(x, j)
          /\ y.carried[i] <= x.carried[i] + 1
          /\ less >= 0
          /\ less > 0 => /\ x.carried[i] > 0 /\ x.carried[i] + 1 > MaxItem
                         /\ y.carried[i] = MaxItem \/ x.carried[i] + less > MaxInt
        BY <2>6, CraftedIs
    <2>8. /\ x.carried[i] \in Nat /\ y.carried[i] \in Nat
          /\ Gone(x, i) \in Int /\ Gone(y, i) \in Int
        BY <2>6, <2>7 DEF Works, Carried, Gone
    <2>9. lost(y) = lost(x) + less
        BY <1>4, <2>8
    <2> HIDE DEF y, c, m, less
    <2>10. CASE r.id # i
        <3>1. y = x /\ m(k + 1) = c
            BY <2>5, <2>7, <2>10
        <3> HIDE DEF Fits
        <3> QED BY <2>2, <2>3, <3>1
    <2>11. CASE r.id = i
        <3>1. m(k + 1) = c + 1
            BY <2>5, <2>11
        <3>2. \A j \in Item : j # i => Gone(y, j) = Gone(s, j)
            BY <2>2, <2>7
        <3>3. lost(x) >= 0 /\ lost(x) \in Int /\ lost(y) \in Int /\ less \in Int
            BY <1>4, <2>2, <2>8 DEF less
        <3>4. x.carried[i] <= had + c /\ (lost(x) > 0 => had + c > MaxItem) /\ (c = 0 => x = s)
            BY <2>2
        <3>5. c = 0 => lost(x) = 0 /\ x.carried[i] = had
            BY <1>4, <3>4
        <3> HIDE DEF lost, had
        <3>6. y.carried[i] <= had + (c + 1) /\ lost(y) >= 0 /\ c + 1 # 0
            BY <1>4, <2>4, <2>7, <2>8, <2>9, <3>3, <3>4
        <3>7. lost(y) > 0 => had + (c + 1) > MaxItem
            BY <1>4, <2>4, <2>7, <2>8, <2>9, <3>3, <3>4
        <3>8. ASSUME c + 1 = 1, lost(y) > 0
              PROVE  had > 0 /\ (y.carried[i] = MaxItem \/ had + lost(y) > MaxInt)
            <4>1. c = 0
                BY <2>4, <3>8
            <4>2. lost(x) = 0 /\ x.carried[i] = had /\ lost(y) = less
                BY <2>9, <3>3, <3>5, <4>1
            <4> QED BY <2>7, <3>8, <4>2
        <3>9. Fits(y, c + 1)
            BY <2>7, <3>2, <3>6, <3>7, <3>8
        <3> HIDE DEF Fits
        <3> QED BY <2>3, <3>1, <3>9
    <2> QED BY <2>10, <2>11
<1>8. Fits(at(n), m(n))
    <2>1. Nat \subseteq T
        <3> HIDE DEF T
        <3> QED BY <1>6, <1>7, NumbersFollow
    <2> HIDE DEF Fits, m
    <2> QED BY <1>0, <2>1
<1>9. FoldLeft(LAMBDA x, recipe : Crafted(i, x, recipe), s, ShopCraft) = at(n)
    BY <1>0, RecipesFolded DEF at, how
<1>10. m(n) = Recipes(i) /\ m(n) \in Nat
    BY <1>0, <1>5 DEF Recipes
<1> DEFINE t == at(n)
<1>11. Fits(t, Recipes(i)) /\ Recipes(i) \in Nat
    <2> HIDE DEF Fits, m
    <2> QED BY <1>8, <1>10
<1>12. lost(t) > 0 =>
          \/ had > 0 /\ (t.carried[i] = MaxItem \/ had + lost(t) > MaxInt)
          \/ Recipes(i) > 1 /\ had + Recipes(i) > MaxItem
    <2> SUFFICES ASSUME lost(t) > 0
                 PROVE  \/ had > 0 /\ (t.carried[i] = MaxItem \/ had + lost(t) > MaxInt)
                        \/ Recipes(i) > 1 /\ had + Recipes(i) > MaxItem
        OBVIOUS
    <2>1. CASE Recipes(i) = 0
        <3>1. t = s
            BY <1>11, <2>1
        <3>2. lost(s) = 0
            BY <1>4
        <3> QED BY <3>1, <3>2
    <2>2. CASE Recipes(i) = 1
        BY <1>11, <2>2
    <2>3. CASE Recipes(i) > 1
        BY <1>11, <2>3
    <2> QED BY <1>11, <2>1, <2>2, <2>3
<1>13. t \in Works /\ lost(t) >= 0 /\ \A j \in Item : j # i => Gone(t, j) = Gone(s, j)
    BY <1>11
<1> HIDE DEF t
<1>14. FoldLeft(LAMBDA x, recipe : Crafted(i, x, recipe), s, ShopCraft) = t
    BY Zenon, <1>9 DEF t
<1> QED BY Zenon, <1>12, <1>13, <1>14

-----------------------------------------------------------------------------
(***************************************************************************)
(* The invariant: the types, and that every store keeps to its size.  It   *)
(* is inductive as it stands.                                              *)
(***************************************************************************)
Inv == TypeOK /\ LimitsKept

Dolls == [Char -> [Place -> Wearable \cup {Nothing}]]
Lockers == [Char -> [Box -> Carried]]

LEMMA InvIs ==
    ASSUME Inv
    PROVE  /\ inventory \in Inventories /\ paperdoll \in Dolls /\ locker \in Lockers
           /\ goldbank \in [Char -> Nat] /\ bankmax \in [Char -> Nat]
           /\ petinv_open \in [Char -> BOOLEAN] /\ net \in [Item -> Int]
           /\ Chested(chest) /\ Floored(floor)
           /\ \A c \in Char : Kept(c)
<1>1. Chested(chest)
    BY DEF Inv, TypeOK, LimitsKept, Chested, Entries
<1>2. Floored(floor)
    BY DEF Inv, TypeOK, Floored, Lying
<1> QED BY <1>1, <1>2 DEF Inv, TypeOK, LimitsKept, Inventories, Carried, Dolls, Lockers

LEMMA InvNext ==
    ASSUME inventory' \in Inventories, paperdoll' \in Dolls, locker' \in Lockers,
           goldbank' \in [Char -> Nat], bankmax' \in [Char -> Nat],
           petinv_open' \in [Char -> BOOLEAN], net' \in [Item -> Int],
           Chested(chest'), Floored(floor'), \A c \in Char : Kept(c)'
    PROVE  Inv'
<1>1. TypeOK'
    <2>1. chest' \in Seq([id : Item, amount : Nat \ {0}, slot : 0 .. Len(Spawns)])
        BY DEF Chested, Entries
    <2>2. /\ IsFiniteSet(DOMAIN floor')
          /\ floor' \in [DOMAIN floor' -> [id : Item, amount : Nat \ {0}, owner : Char,
                                           protected : BOOLEAN]]
        BY DEF Floored, Lying
    <2> QED BY <2>1, <2>2 DEF TypeOK, Inventories, Carried, Dolls, Lockers
<1>2. LimitsKept'
    BY DEF Chested, LimitsKept
<1> QED BY <1>1, <1>2 DEF Inv

\* Initially nobody has anything.
LEMMA InvInit == Init => Inv
<1> SUFFICES ASSUME Init PROVE Inv
    OBVIOUS
<1>1. TypeOK
    <2>1. DOMAIN floor = {} /\ floor \in [DOMAIN floor -> Lying]
        BY DEF Init
    <2>2. IsFiniteSet(DOMAIN floor)
        BY <2>1, FS_EmptySet
    <2>3. chest \in Seq([id : Item, amount : Nat \ {0}, slot : 0 .. Len(Spawns)])
        BY DEF Init
    <2> QED BY <2>1, <2>2, <2>3 DEF Init, TypeOK, Empty, Lying
<1>2. ASSUME NEW c \in Char PROVE Kept(c)
    <2>1. \A b \in Box : locker[c][b] = Empty
        BY DEF Init
    <2>2. {i \in Item : Empty[i] > 0} = {}
        BY DEF Empty
    <2>3. Kinds(Empty) = 0
        BY <2>2, FS_EmptySet DEF Kinds
    <2>4. LockerMax(c) = BaseBankSize + 0 * BankSizeStep /\ goldbank[c] = 0
        BY DEF Init, LockerMax
    <2>5. LockerMax(c) \in Nat /\ PetSlots \in Nat /\ MaxBank \in Nat /\ MaxPetItem \in Nat
          /\ MaxBankGold \in Nat
        BY <2>4, SizesAreNumbers, LimitsArePositive
    <2>6. \A i \in Item : Empty[i] = 0
        BY DEF Empty
    <2>7. Gold \in Item /\ "vault" \in Box /\ "pet" \in Box
        BY ItemIsFinite DEF Box
    <2> HIDE DEF LockerMax, Empty, Kinds
    <2> QED BY <2>1, <2>3, <2>4, <2>5, <2>6, <2>7 DEF Kept, Most
<1>3. LimitsKept
    BY <1>2, SizesAreNatural DEF Init, LimitsKept
<1> QED BY <1>1, <1>3 DEF Inv

-----------------------------------------------------------------------------
(***************************************************************************)
(* What there is of an item, and how it changes when one character, the    *)
(* floor and the chest do.                                                 *)
(***************************************************************************)
Worn(doll, i) == Cardinality({p \in Place : doll[p] = i})
Held(c, i) ==
    inventory[c][i] + locker[c]["vault"][i] + locker[c]["pet"][i]
    + (IF i = Gold THEN goldbank[c] ELSE 0) + Worn(paperdoll[c], i)

LEMMA WornIs ==
    ASSUME NEW doll \in [Place -> Wearable \cup {Nothing}], NEW i \in Item
    PROVE  /\ Worn(doll, i) \in Nat
           /\ \A p \in Place, j \in Wearable \cup {Nothing} : doll[p] # j =>
                 Worn([doll EXCEPT ![p] = j], i)
                     = Worn(doll, i) + (IF j = i THEN 1 ELSE IF doll[p] = i THEN -1 ELSE 0)
<1> DEFINE S == {p \in Place : doll[p] = i}
<1>1. IsFiniteSet(Place)
    <2>1. IsFiniteSet({} \cup {"place1"})
        BY FS_AddElement, FS_EmptySet
    <2>2. IsFiniteSet(({} \cup {"place1"}) \cup {"place2"})
        BY <2>1, FS_AddElement
    <2>3. Place = ({} \cup {"place1"}) \cup {"place2"}
        BY DEF Place
    <2> QED BY <2>2, <2>3
<1>2. IsFiniteSet(S) /\ Cardinality(S) \in Nat
    <2>1. S \in SUBSET Place
        OBVIOUS
    <2> HIDE DEF S
    <2> QED BY <1>1, <2>1, FS_Subset, FS_CardinalityType
<1>3. Worn(doll, i) = Cardinality(S)
    BY DEF Worn
<1>4. ASSUME NEW p \in Place, NEW j \in Wearable \cup {Nothing}, doll[p] # j
      PROVE  Worn([doll EXCEPT ![p] = j], i)
                 = Worn(doll, i) + (IF j = i THEN 1 ELSE IF doll[p] = i THEN -1 ELSE 0)
    <2> DEFINE to == [doll EXCEPT ![p] = j]
               R == {q \in Place : to[q] = i}
    <2>1. Worn(to, i) = Cardinality(R)
        BY DEF Worn
    <2>2. to[p] = j /\ \A q \in Place : q # p => to[q] = doll[q]
        OBVIOUS
    <2> HIDE DEF to
    <2>3. CASE j = i
        <3>1. R = S \cup {p} /\ p \notin S
            BY <1>4, <2>2, <2>3
        <3> HIDE DEF R, S
        <3>2. Cardinality(R) = Cardinality(S) + 1
            BY <1>2, <3>1, FS_AddElement
        <3> QED BY <1>3, <2>1, <2>3, <3>2 DEF to
    <2>4. CASE j # i /\ doll[p] = i
        <3>1. R = S \ {p} /\ p \in S
            BY <1>4, <2>2, <2>4
        <3> HIDE DEF R, S
        <3>2. Cardinality(R) = Cardinality(S) - 1
            BY <1>2, <3>1, FS_RemoveElement
        <3> QED BY <1>2, <1>3, <2>1, <2>4, <3>2 DEF to
    <2>5. CASE j # i /\ doll[p] # i
        <3>1. R = S
            BY <1>4, <2>2, <2>5
        <3> HIDE DEF R, S
        <3> QED BY <1>2, <1>3, <2>1, <2>5, <3>1 DEF to
    <2> QED BY <2>3, <2>4, <2>5
<1> QED BY <1>2, <1>3, <1>4

HoldingsAre(i) ==
    /\ \A c \in Char : /\ inventory[c][i] \in Nat
                       /\ locker[c]["vault"][i] \in Nat
                       /\ locker[c]["pet"][i] \in Nat
                       /\ goldbank[c] \in Nat
                       /\ Worn(paperdoll[c], i) \in Nat
                       /\ Held(c, i) \in Int
    /\ net[i] \in Int /\ OnFloor(floor, i) \in Int /\ Stored(chest, i) \in Int

LEMMA HeldIs ==
    ASSUME NEW i \in Item
    PROVE  Inv => HoldingsAre(i)
<1> SUFFICES ASSUME Inv PROVE HoldingsAre(i)
    OBVIOUS
<1>1. ASSUME NEW c \in Char
      PROVE  /\ inventory[c][i] \in Nat
             /\ locker[c]["vault"][i] \in Nat
             /\ locker[c]["pet"][i] \in Nat
             /\ goldbank[c] \in Nat
             /\ paperdoll[c] \in [Place -> Wearable \cup {Nothing}]
    BY InvIs DEF Inventories, Carried, Lockers, Box, Dolls
<1>2. ASSUME NEW c \in Char PROVE Worn(paperdoll[c], i) \in Nat /\ Held(c, i) \in Int
    <2>1. Worn(paperdoll[c], i) \in Nat
        BY <1>1, WornIs
    <2> QED BY <1>1, <2>1 DEF Held
<1>3. net[i] \in Int /\ OnFloor(floor, i) \in Int
    BY InvIs, OnFloorIs
<1>4. Stored(chest, i) \in Int
    <2>1. chest \in Seq(Entries)
        BY InvIs DEF Chested
    <2> QED BY <2>1, StoredIs
<1> QED BY <1>1, <1>2, <1>3, <1>4 DEF HoldingsAre

Everyone(i) == SumFunction([c \in Char |-> Held(c, i)])

\* The two parts of what has been lost that a step changes.
LostAre(i) ==
    /\ [c \in Char |-> Held(c, i)] \in [Char -> Int]
    /\ Everyone(i) \in Int
    /\ Lost(i) = net[i] - ((Everyone(i) + OnFloor(floor, i)) + Stored(chest, i))

LEMMA LostIs ==
    ASSUME NEW i \in Item
    PROVE  Inv => LostAre(i)
<1> SUFFICES ASSUME Inv PROVE LostAre(i)
    OBVIOUS
<1>0. HoldingsAre(i)
    BY HeldIs
<1>1. [c \in Char |-> Held(c, i)] \in [Char -> Int]
    BY <1>0 DEF HoldingsAre
<1>2. Everyone(i) \in Int
    BY <1>1, CharIsFinite, SumType DEF Everyone
<1>3. Total(i) = (Everyone(i) + OnFloor(floor, i)) + Stored(chest, i)
    BY DEF Total, Everyone, Held, Worn
<1> QED BY <1>1, <1>2, <1>3 DEF Lost, LostAre

LEMMA HeldNext ==
    ASSUME NEW i \in Item
    PROVE  Inv' => HoldingsAre(i)' /\ LostAre(i)'
<1>1. Inv => HoldingsAre(i) /\ LostAre(i)
    BY HeldIs, LostIs
<1> QED BY <1>1, PTL

\* What a character has, in whatever place, stays as it is.
Same(d) ==
    /\ inventory'[d] = inventory[d] /\ paperdoll'[d] = paperdoll[d]
    /\ goldbank'[d] = goldbank[d] /\ locker'[d] = locker[d]

FloorMore(i) == OnFloor(floor', i) - OnFloor(floor, i)
ChestMore(i) == Stored(chest', i) - Stored(chest, i)
BroughtMore(i) == net'[i] - net[i]
LostMore(i) == Lost(i)' - Lost(i)

LEMMA OneMoves ==
    ASSUME Inv, Inv', NEW c \in Char, \A d \in Char \ {c} : Same(d), NEW i \in Item
    PROVE  LostMore(i) = BroughtMore(i) - ((Held(c, i)' - Held(c, i)) + (FloorMore(i) + ChestMore(i)))
<1>1. HoldingsAre(i) /\ LostAre(i) /\ HoldingsAre(i)' /\ LostAre(i)'
    BY HeldIs, LostIs, HeldNext
<1> DEFINE f == [d \in Char |-> Held(d, i)]
           g == [d \in Char |-> Held(d, i)']
<1>2. f \in [Char -> Int] /\ g \in [Char -> Int]
    BY <1>1 DEF HoldingsAre
<1>3. Everyone(i) = SumFunction(f) /\ Everyone(i)' = SumFunction(g)
    BY DEF Everyone
<1>4. \A d \in Char \ {c} : g[d] = f[d]
    BY DEF Same, Held
<1>5. f[c] = Held(c, i) /\ g[c] = Held(c, i)'
    OBVIOUS
<1> HIDE DEF f, g
<1>6. SumFunction(g) = SumFunction(f) + (g[c] - f[c])
    BY ONLY CharIsFinite, <1>2, <1>4, c \in Char, SumChange
<1>7. /\ Lost(i) = net[i] - ((Everyone(i) + OnFloor(floor, i)) + Stored(chest, i))
      /\ Lost(i)' = net'[i] - ((Everyone(i)' + OnFloor(floor', i)) + Stored(chest', i))
    BY <1>1 DEF LostAre
<1>8. /\ net[i] \in Int /\ OnFloor(floor, i) \in Int /\ Stored(chest, i) \in Int
      /\ net'[i] \in Int /\ OnFloor(floor', i) \in Int /\ Stored(chest', i) \in Int
      /\ Everyone(i) \in Int /\ Everyone(i)' \in Int
      /\ Held(c, i) \in Int /\ Held(c, i)' \in Int
    BY <1>1 DEF HoldingsAre, LostAre
<1> QED BY <1>3, <1>5, <1>6, <1>7, <1>8 DEF FloorMore, ChestMore, BroughtMore, LostMore

LEMMA NoneMoves ==
    ASSUME Inv, Inv', \A d \in Char : Same(d), NEW i \in Item
    PROVE  LostMore(i) = BroughtMore(i) - (FloorMore(i) + ChestMore(i))
<1>1. HoldingsAre(i) /\ LostAre(i) /\ HoldingsAre(i)' /\ LostAre(i)'
    BY HeldIs, LostIs, HeldNext
<1> DEFINE f == [d \in Char |-> Held(d, i)]
           g == [d \in Char |-> Held(d, i)']
<1>2. Everyone(i) = SumFunction(f) /\ Everyone(i)' = SumFunction(g)
    BY DEF Everyone
<1>3. \A d \in Char : Held(d, i)' = Held(d, i)
    BY DEF Same, Held
<1>4. f = g
    BY <1>3
<1> HIDE DEF f, g
<1>5. Everyone(i)' = Everyone(i)
    BY <1>2, <1>4
<1>6. /\ Lost(i) = net[i] - ((Everyone(i) + OnFloor(floor, i)) + Stored(chest, i))
      /\ Lost(i)' = net'[i] - ((Everyone(i)' + OnFloor(floor', i)) + Stored(chest', i))
    BY <1>1 DEF LostAre
<1>7. /\ net[i] \in Int /\ OnFloor(floor, i) \in Int /\ Stored(chest, i) \in Int
      /\ net'[i] \in Int /\ OnFloor(floor', i) \in Int /\ Stored(chest', i) \in Int
      /\ Everyone(i) \in Int
    BY <1>1 DEF HoldingsAre, LostAre
<1> QED BY <1>5, <1>6, <1>7 DEF FloorMore, ChestMore, BroughtMore, LostMore

\* Limits are kept when no bank, locker or pet changes.
LEMMA LimitsStay ==
    ASSUME Inv, goldbank' = goldbank, bankmax' = bankmax, locker' = locker
    PROVE  \A c \in Char : Kept(c)'
<1>1. \A c \in Char : Kept(c)
    BY InvIs
<1> QED BY <1>1 DEF Kept, LockerMax

\* Steps in which a character has more or less in its inventory, and nothing else moves.
LEMMA PocketsOnly ==
    ASSUME Inv, inventory' \in Inventories, net' \in [Item -> Int], NEW c \in Char,
           \A d \in Char : d # c => inventory'[d] = inventory[d],
           UNCHANGED <<paperdoll, goldbank, bankmax, locker, petinv_open, chest, floor>>
    PROVE  /\ Inv'
           /\ \A i \in Item : LostMore(i) = BroughtMore(i) - (inventory'[c][i] - inventory[c][i])
<1>1. Inv'
    <2>1. \A d \in Char : Kept(d)'
        BY LimitsStay
    <2> QED BY <2>1, InvIs, InvNext
<1>2. ASSUME NEW i \in Item
      PROVE  LostMore(i) = BroughtMore(i) - (inventory'[c][i] - inventory[c][i])
    <2>1. \A d \in Char \ {c} : Same(d)
        BY DEF Same
    <2>2. LostMore(i) = BroughtMore(i) - ((Held(c, i)' - Held(c, i)) + (FloorMore(i) + ChestMore(i)))
        BY <1>1, <2>1, OneMoves
    <2>3. HoldingsAre(i) /\ HoldingsAre(i)'
        BY <1>1, HeldIs, HeldNext
    <2>4. Held(c, i)' - Held(c, i) = inventory'[c][i] - inventory[c][i]
        BY <2>3 DEF HoldingsAre, Held
    <2>5. FloorMore(i) = 0 /\ ChestMore(i) = 0 /\ BroughtMore(i) \in Int
          /\ inventory'[c][i] \in Int /\ inventory[c][i] \in Int
        BY <2>3 DEF HoldingsAre, FloorMore, ChestMore, BroughtMore
    <2> QED BY <2>2, <2>4, <2>5
<1> QED BY <1>1, <1>2

-----------------------------------------------------------------------------
(***************************************************************************)
(* What may be lost, and the two ways in which nothing is or a limit cuts. *)
(***************************************************************************)
Excused(i, lost) ==
    \/ \E c \in Char :
          /\ inventory[c][i] > 0
          /\ inventory'[c][i] = MaxItem \/ inventory[c][i] + lost > MaxInt
    \/ lost > MaxInt
    \/ Recipes(i) > 1 /\ \E c \in Char : inventory[c][i] + Recipes(i) > MaxItem
    \/ /\ Cardinality(DOMAIN floor) >= MaxTile
       /\ \E c \in Char : inventory[c][i] - inventory'[c][i] = lost
    \/ \E c \in Char :
          \/ locker'[c]["pet"][i] = MaxPetItem
          \/ locker[c]["pet"][i] > 0 /\ locker[c]["pet"][i] + lost > MaxInt
          \/ locker'[c]["pet"][i] = MaxBank /\ locker[c]["pet"][i] > MaxBank
Conserves(i) == LostMore(i) >= 0 /\ (LostMore(i) > 0 => Excused(i, LostMore(i)))

LEMMA NothingLost ==
    ASSUME NEW i, LostMore(i) = 0
    PROVE  Conserves(i)
BY DEF Conserves

\* An amount is added to what c has, or to what is left of it.
LEMMA AddedToPocket ==
    ASSUME Inv, NEW c \in Char, NEW i \in Item, NEW has \in Nat, has <= inventory[c][i],
           NEW amount \in Nat \ {0}, inventory'[c][i] = Added(has, amount, MaxItem),
           LostMore(i) = amount - (inventory'[c][i] - has)
    PROVE  Conserves(i)
<1> DEFINE new == Added(has, amount, MaxItem)
           lost == LostMore(i)
<1>1. MaxItem \in Nat /\ MaxInt \in Nat /\ inventory[c][i] \in Nat
    BY LimitsArePositive, HeldIs DEF HoldingsAre
<1>2. /\ new \in Nat /\ new <= has + amount
      /\ \/ new = has + amount
         \/ has > 0 /\ has + amount > MaxInt /\ new = has
         \/ has > 0 /\ has + amount > MaxItem /\ new = MaxItem
    <2>1. amount \in Int /\ amount > 0
        OBVIOUS
    <2> QED BY ONLY <1>1, <2>1, has \in Nat, AddedIs
<1>3. inventory'[c][i] = new
    OBVIOUS
<1> HIDE DEF new
<1>4. lost = amount - (new - has)
    BY <1>3
<1> HIDE DEF lost
<1>5. lost \in Int /\ lost >= 0
    BY <1>2, <1>4
<1>6. CASE new = has + amount
    <2>1. lost = 0
        BY <1>4, <1>6
    <2> QED BY <2>1, NothingLost DEF lost
<1>7. CASE has > 0 /\ has + amount > MaxInt /\ new = has
    <2>1. inventory[c][i] > 0 /\ inventory[c][i] + lost > MaxInt
        BY <1>1, <1>4, <1>7
    <2> QED BY <1>5, <2>1 DEF Conserves, Excused, lost
<1>8. CASE has > 0 /\ has + amount > MaxItem /\ new = MaxItem
    <2>1. inventory[c][i] > 0 /\ inventory'[c][i] = MaxItem
        BY <1>1, <1>3, <1>8
    <2> QED BY <1>5, <2>1 DEF Conserves, Excused, lost
<1> QED BY <1>2, <1>6, <1>7, <1>8

Guarantee == Inv' /\ \A i \in Item : Conserves(i)

-----------------------------------------------------------------------------
(***************************************************************************)
(* What is carried: each step keeps the invariant and loses nothing but    *)
(* what a limit cuts.                                                      *)
(***************************************************************************)
Elsewhere == <<paperdoll, goldbank, bankmax, locker, petinv_open, chest, floor>>

LEMMA ItemsSpent ==
    ASSUME Inv, NEW c \in Char, NEW i \in Item, NEW amount \in Nat,
           inventory' = Without(inventory, c, i, amount),
           TakenOut(i, Least(amount, inventory[c][i])), UNCHANGED Elsewhere
    PROVE  Guarantee
<1> DEFINE has == inventory[c][i]
           less == Least(amount, has)
<1>0. inventory \in Inventories /\ has \in Nat /\ net \in [Item -> Int]
    BY InvIs, HeldIs DEF HoldingsAre
<1>1. less \in Nat /\ Removed(has, amount) = has - less
    BY <1>0 DEF Least, Removed, Most
<1>2. /\ inventory' \in Inventories
      /\ \A d \in Char : d # c => inventory'[d] = inventory[d]
      /\ \A j \in Item : inventory'[c][j]
             = IF j = i THEN Removed(inventory[c][i], amount) ELSE inventory[c][j]
    <2>1. inventory' = Without(inventory, c, i, amount) /\ inventory \in Inventories
          /\ amount \in Int /\ i \in Item
        BY <1>0
    <2> QED BY ONLY <2>1, c \in Char, WithoutIs
<1>3. net' = [net EXCEPT ![i] = @ - less]
    BY DEF TakenOut
<1> HIDE DEF less
<1>4. net' \in [Item -> Int]
    BY <1>0, <1>1, <1>3
<1>5. Inv' /\ \A j \in Item : LostMore(j) = BroughtMore(j) - (inventory'[c][j] - inventory[c][j])
    BY <1>2, <1>4, PocketsOnly DEF Elsewhere
<1>6. ASSUME NEW j \in Item PROVE LostMore(j) = 0
    <2>1. inventory[c][j] \in Nat /\ net[j] \in Int
        BY HeldIs DEF HoldingsAre
    <2>2. CASE j = i
        <3>1. BroughtMore(j) = 0 - less
            BY <1>0, <1>1, <1>3, <2>2 DEF BroughtMore
        <3>2. inventory'[c][j] = has - less
            BY <1>1, <1>2, <2>2
        <3> QED BY <1>0, <1>1, <1>5, <2>2, <3>1, <3>2
    <2>3. CASE j # i
        <3>1. BroughtMore(j) = 0 /\ inventory'[c][j] = inventory[c][j]
            BY <1>0, <1>2, <1>3, <2>1, <2>3 DEF BroughtMore
        <3> QED BY <1>5, <2>1, <3>1
    <2> QED BY <2>2, <2>3
<1> QED BY <1>5, <1>6, NothingLost DEF Guarantee

LEMMA GiveItem_Guarantees ==
    ASSUME Inv, NEW c \in Char, NEW i \in Item, NEW amount \in Amounts, GiveItem(c, i, amount)
    PROVE  Guarantee
<1>0. inventory \in Inventories /\ inventory[c][i] \in Nat /\ net \in [Item -> Int]
      /\ amount \in Nat \ {0}
    BY InvIs, HeldIs, AmountsArePositive DEF HoldingsAre
<1>1. /\ inventory' \in Inventories
      /\ \A d \in Char : d # c => inventory'[d] = inventory[d]
      /\ \A j \in Item : inventory'[c][j]
             = IF j = i THEN Added(inventory[c][i], amount, MaxItem) ELSE inventory[c][j]
    <2>1. inventory' = With(inventory, c, i, amount) /\ inventory \in Inventories
          /\ amount \in Int
        BY <1>0 DEF GiveItem
    <2> QED BY ONLY <2>1, c \in Char, i \in Item, WithIs
<1>2. net' = [net EXCEPT ![i] = @ + amount]
    BY DEF GiveItem, BroughtIn
<1>3. net' \in [Item -> Int]
    BY <1>0, <1>2
<1>4. Inv' /\ \A j \in Item : LostMore(j) = BroughtMore(j) - (inventory'[c][j] - inventory[c][j])
    BY <1>1, <1>3, PocketsOnly DEF GiveItem
<1>5. ASSUME NEW j \in Item PROVE Conserves(j)
    <2>1. inventory[c][j] \in Nat /\ net[j] \in Int
        BY HeldIs DEF HoldingsAre
    <2>2. CASE j = i
        <3>1. BroughtMore(j) = amount
            BY <1>0, <1>2, <2>2 DEF BroughtMore
        <3>2. inventory'[c][j] = Added(inventory[c][j], amount, MaxItem)
            BY <1>1, <2>2
        <3>3. LostMore(j) = amount - (inventory'[c][j] - inventory[c][j])
            BY <1>4, <3>1
        <3>4. inventory[c][j] <= inventory[c][j]
            BY <2>1
        <3> QED BY <1>0, <2>1, <3>2, <3>3, <3>4, AddedToPocket
    <2>3. CASE j # i
        <3>1. BroughtMore(j) = 0 /\ inventory'[c][j] = inventory[c][j]
            BY <1>0, <1>1, <1>2, <2>1, <2>3 DEF BroughtMore
        <3>2. LostMore(j) = 0
            BY <1>4, <2>1, <3>1
        <3> QED BY <3>2, NothingLost
    <2> QED BY <2>2, <2>3
<1> QED BY <1>4, <1>5 DEF Guarantee

LEMMA RemoveItem_Guarantees ==
    ASSUME Inv, NEW c \in Char, NEW i \in Item, NEW amount \in Amounts, RemoveItem(c, i, amount)
    PROVE  Guarantee
<1>1. amount \in Nat
    BY AmountsArePositive
<1> QED BY <1>1, ItemsSpent DEF RemoveItem, Elsewhere

LEMMA Item_Use_Guarantees ==
    ASSUME Inv, NEW c \in Char, NEW i \in Item, Item_Use(c, i)
    PROVE  Guarantee
<1>1. inventory[c][i] \in Nat /\ inventory[c][i] > 0
    BY HeldIs DEF HoldingsAre, Item_Use
<1>2. Least(1, inventory[c][i]) = 1
    BY <1>1 DEF Least
<1> QED BY <1>2, ItemsSpent DEF Item_Use, Elsewhere

LEMMA Item_Junk_Guarantees ==
    ASSUME Inv, NEW c \in Char, NEW i \in Item, NEW amount \in Amounts, Item_Junk(c, i, amount)
    PROVE  Guarantee
<1>1. amount \in Nat /\ inventory[c][i] \in Nat /\ inventory[c][i] >= amount
    BY AmountsArePositive, HeldIs DEF HoldingsAre, Item_Junk
<1>2. Least(amount, inventory[c][i]) = amount
    BY <1>1 DEF Least
<1> QED BY <1>1, <1>2, ItemsSpent DEF Item_Junk, Elsewhere

LEMMA Barber_Buy_Guarantees ==
    ASSUME Inv, NEW c \in Char, Barber_Buy(c, Price)
    PROVE  Guarantee
<1>0. Gold \in Item
    BY ItemIsFinite
<1>1. Price \in Nat /\ inventory[c][Gold] \in Nat /\ inventory[c][Gold] >= Price
    BY <1>0, SizesAreNumbers, HeldIs DEF HoldingsAre, Barber_Buy
<1>2. Least(Price, inventory[c][Gold]) = Price
    BY <1>1 DEF Least
<1> QED BY <1>0, <1>1, <1>2, ItemsSpent DEF Barber_Buy, Elsewhere

\* The int that a number becomes.
Mod(n, a) == a % n

LEMMA ModIs ==
    ASSUME NEW n \in Nat \ {0}, NEW a \in Nat
    PROVE  /\ Mod(n, a) \in 0 .. n - 1
           /\ a < n => Mod(n, a) = a
           /\ a >= n => Mod(n, a) <= a - n
<1> DEFINE q == a \div n
           r == a % n
<1>1. q \in Int /\ r \in 0 .. n - 1 /\ a = n * q + r
    OBVIOUS
<1> HIDE DEF q, r
<1>2. Mod(n, a) = r
    BY DEF Mod, r
<1>3. q >= 0
    BY <1>1
<1>4. q = 0 \/ n * q >= n
    BY <1>1, <1>3
<1>5. a < n => q = 0
    BY <1>1, <1>3, <1>4
<1>6. a >= n => n * q >= n
    BY <1>1, <1>3, <1>4
<1>7. n * q \in Int /\ n * 0 = 0
    BY <1>1
<1> QED BY <1>1, <1>2, <1>5, <1>6, <1>7

LEMMA Int32Is ==
    ASSUME NEW a \in Nat
    PROVE  /\ Int32(a) \in Int /\ Int32(a) <= MaxInt
           /\ a <= MaxInt => Int32(a) = a
           /\ a > MaxInt => a - Int32(a) > MaxInt
<1> DEFINE n == 2 * (MaxInt + 1)
           b == a + MaxInt + 1
           m == Mod(n, b)
<1>1. MaxInt \in Nat /\ n \in Nat \ {0} /\ b \in Nat
    BY LimitsArePositive
<1>2. Int32(a) = (m - MaxInt) - 1
    <2>1. Int32(a) = m - MaxInt - 1
        BY Zenon DEF Int32, Mod
    <2>2. m \in Int
        BY <1>1, ModIs
    <2> QED BY <1>1, <2>1, <2>2
<1> HIDE DEF m
<1>3. /\ m \in 0 .. n - 1
      /\ b < n => m = b
      /\ b >= n => m <= b - n
    BY <1>1, ModIs DEF m
<1>4. m \in Int /\ 0 <= m /\ m <= (MaxInt + MaxInt) + 1
    BY <1>1, <1>3
<1>5. (a <= MaxInt => m = (a + MaxInt) + 1) /\ (a > MaxInt => m <= (a - MaxInt) - 1)
    BY <1>1, <1>3, <1>4
<1> QED BY <1>1, <1>2, <1>4, <1>5

\* One thing is given for another.
Left(c, g, a, i) == IF g = i THEN inventory[c][i] - a ELSE inventory[c][i]
Counted(g, a, i, n) == [net EXCEPT ![g] = @ - a, ![i] = @ + n]

LEMMA Exchanged ==
    ASSUME Inv, NEW c \in Char, NEW g \in Item, NEW i \in Item, NEW a \in Nat, a <= inventory[c][g],
           NEW b \in Int, NEW counted \in Nat,
           inventory' = With(Without(inventory, c, g, a), c, i, b),
           net' = Counted(g, a, i, counted), UNCHANGED Elsewhere
    PROVE  /\ Inv'
           /\ \A j \in Item : j # i => Conserves(j)
           /\ Left(c, g, a, i) \in Nat /\ Left(c, g, a, i) <= inventory[c][i]
           /\ inventory'[c][i] = Added(Left(c, g, a, i), b, MaxItem)
           /\ LostMore(i) = counted - (inventory'[c][i] - Left(c, g, a, i))
<1> DEFINE inv == Without(inventory, c, g, a)
           has == Left(c, g, a, i)
<1>0. inventory \in Inventories /\ net \in [Item -> Int]
      /\ \A j \in Item : inventory[c][j] \in Nat /\ net[j] \in Int
    BY InvIs, HeldIs DEF HoldingsAre
<1>1. /\ inv \in Inventories
      /\ \A d \in Char : d # c => inv[d] = inventory[d]
      /\ \A j \in Item : inv[c][j]
             = IF j = g THEN Removed(inventory[c][g], a) ELSE inventory[c][j]
    <2>1. a \in Int
        OBVIOUS
    <2> QED BY ONLY <1>0, <2>1, c \in Char, g \in Item, WithoutIs
<1>2. Removed(inventory[c][g], a) = inventory[c][g] - a
    <2>1. inventory[c][g] \in Nat /\ a \in Int /\ a \in 0 .. inventory[c][g]
        BY <1>0
    <2> QED BY ONLY <2>1, RemovedIs
<1>3. inv[c][i] = has
    BY <1>1, <1>2 DEF Left
<1>4. has \in Nat /\ has <= inventory[c][i]
    BY <1>0 DEF Left
<1> HIDE DEF inv
<1>5. /\ inventory' \in Inventories
      /\ \A d \in Char : d # c => inventory'[d] = inv[d]
      /\ \A j \in Item : inventory'[c][j]
             = IF j = i THEN Added(inv[c][i], b, MaxItem) ELSE inv[c][j]
    <2>1. inventory' = With(inv, c, i, b) /\ inv \in Inventories /\ b \in Int
        BY <1>1 DEF inv
    <2> HIDE DEF inv
    <2> QED BY ONLY <2>1, c \in Char, i \in Item, WithIs
<1>6. net' = [net EXCEPT ![g] = @ - a, ![i] = @ + counted] /\ net' \in [Item -> Int]
    BY <1>0 DEF Counted
<1>7. Inv' /\ \A j \in Item : LostMore(j) = BroughtMore(j) - (inventory'[c][j] - inventory[c][j])
    <2>1. \A d \in Char : d # c => inventory'[d] = inventory[d]
        BY <1>1, <1>5
    <2> QED BY <1>5, <1>6, <2>1, PocketsOnly DEF Elsewhere
<1>8. inventory'[c][i] = Added(has, b, MaxItem)
    BY <1>3, <1>5
<1>9. Added(has, b, MaxItem) \in Nat
    BY <1>4, AddedIs, LimitsArePositive
<1>10. LostMore(i) = counted - (inventory'[c][i] - has)
    <2>1. CASE g = i
        <3>1. BroughtMore(i) = counted - a
            BY <1>0, <1>6, <2>1 DEF BroughtMore
        <3>2. has = inventory[c][i] - a
            BY <2>1 DEF Left
        <3> HIDE DEF has
        <3> QED BY <1>0, <1>4, <1>7, <1>8, <1>9, <3>1, <3>2
    <2>2. CASE g # i
        <3>1. BroughtMore(i) = counted
            BY <1>0, <1>6, <2>2 DEF BroughtMore
        <3>2. has = inventory[c][i]
            BY <2>2 DEF Left
        <3> QED BY <1>7, <3>1, <3>2
    <2> QED BY <2>1, <2>2
<1>11. ASSUME NEW j \in Item, j # i PROVE Conserves(j)
    <2>1. inventory'[c][j] = inv[c][j]
        BY <1>5, <1>11
    <2>2. CASE j = g
        <3>1. BroughtMore(j) = 0 - a
            BY <1>0, <1>6, <1>11, <2>2 DEF BroughtMore
        <3>2. inventory'[c][j] = inventory[c][j] - a
            BY <1>1, <1>2, <2>1, <2>2
        <3>3. LostMore(j) = 0
            BY <1>0, <1>7, <3>1, <3>2
        <3> QED BY <3>3, NothingLost
    <2>3. CASE j # g
        <3>1. BroughtMore(j) = 0
            BY <1>0, <1>6, <1>11, <2>3 DEF BroughtMore
        <3>2. inventory'[c][j] = inventory[c][j]
            BY <1>1, <2>1, <2>3
        <3>3. LostMore(j) = 0
            BY <1>0, <1>7, <3>1, <3>2
        <3> QED BY <3>3, NothingLost
    <2> QED BY <2>2, <2>3
<1> QED BY <1>4, <1>7, <1>8, <1>10, <1>11

\* What is added to what is left may be cut.
LEMMA ExchangeGuarantees ==
    ASSUME Inv, NEW c \in Char, NEW g \in Item, NEW i \in Item, NEW a \in Nat, a <= inventory[c][g],
           NEW b \in Nat \ {0},
           inventory' = With(Without(inventory, c, g, a), c, i, b),
           net' = Counted(g, a, i, b), UNCHANGED Elsewhere
    PROVE  Guarantee
<1> DEFINE has == Left(c, g, a, i)
<1>1. b \in Int /\ b \in Nat
    OBVIOUS
<1>2. /\ Inv'
      /\ \A j \in Item : j # i => Conserves(j)
      /\ has \in Nat /\ has <= inventory[c][i]
      /\ inventory'[c][i] = Added(has, b, MaxItem)
      /\ LostMore(i) = b - (inventory'[c][i] - has)
    BY <1>1, Exchanged
<1> HIDE DEF has
<1>3. Conserves(i)
    BY <1>2, AddedToPocket
<1> QED BY <1>2, <1>3 DEF Guarantee

LEMMA EntryOfShop ==
    ASSUME NEW k \in DOMAIN ShopTrade
    PROVE  /\ ShopTrade[k].id \in Item /\ ShopTrade[k].buy \in Nat /\ ShopTrade[k].sell \in Nat
           /\ k \in 1 .. k
<1> DEFINE S == [id : Item, buy : Nat, sell : Nat]
<1>1. ShopTrade \in Seq(S)
    BY Zenon, DataIsTyped
<1> HIDE DEF S
<1>2. ShopTrade[k] \in S
    BY <1>1
<1>3. k \in 1 .. Len(ShopTrade)
    BY <1>1
<1>4. k \in 1 .. k
    BY <1>3
<1> QED BY <1>2, <1>4 DEF S

LEMMA Shop_Buy_Guarantees ==
    ASSUME Inv, NEW c \in Char, NEW i \in Item, NEW amount \in Amounts, Shop_Buy(c, i, amount)
    PROVE  Guarantee
<1>1. PICK k \in DOMAIN ShopTrade :
          LET cost == Cost(ShopTrade[k], amount) IN
          /\ Bought(c, i, amount, k)
          /\ inventory' = With(Without(inventory, c, Gold, cost), c, i, amount)
          /\ net' = [net EXCEPT ![Gold] = @ - cost, ![i] = @ + amount]
    BY DEF Shop_Buy
<1> DEFINE cost == Cost(ShopTrade[k], amount)
<1>2. amount \in Nat \ {0} /\ Gold \in Item
    BY AmountsArePositive, ItemIsFinite
<1>3. amount * ShopTrade[k].buy \in Nat
    <2>1. ShopTrade[k].buy \in Nat /\ amount \in Nat
        BY <1>2, EntryOfShop
    <2> QED BY <2>1
<1>4. cost \in Int
    BY <1>3, Int32Is DEF Cost
<1>5. cost > 0 /\ inventory[c][Gold] >= cost
    <2>1. k \in 1 .. k
        BY EntryOfShop
    <2> QED BY <1>1, <2>1 DEF Bought
<1> HIDE DEF cost
<1>6. cost \in Nat /\ cost <= inventory[c][Gold]
    <2>1. inventory[c][Gold] \in Nat
        BY <1>2, HeldIs DEF HoldingsAre
    <2> QED BY <1>4, <1>5, <2>1
<1>7. /\ inventory' = With(Without(inventory, c, Gold, cost), c, i, amount)
      /\ net' = Counted(Gold, cost, i, amount)
    BY <1>1 DEF cost, Counted
<1>8. UNCHANGED Elsewhere
    BY DEF Shop_Buy, Elsewhere
<1> QED BY <1>2, <1>6, <1>7, <1>8, ExchangeGuarantees

LEMMA Shop_Sell_Guarantees ==
    ASSUME Inv, NEW c \in Char, NEW i \in Item, NEW amount \in Amounts, Shop_Sell(c, i, amount)
    PROVE  Guarantee
<1>1. PICK k \in DOMAIN ShopTrade :
          LET price == amount * ShopTrade[k].sell IN
          /\ ShopTrade[k].sell # 0
          /\ inventory[c][i] >= amount
          /\ inventory' = With(Without(inventory, c, i, amount), c, Gold, Int32(price))
          /\ net' = [net EXCEPT ![i] = @ - amount, ![Gold] = @ + price]
          /\ UNCHANGED Elsewhere
    BY DEF Shop_Sell, Elsewhere
<1> DEFINE price == amount * ShopTrade[k].sell
<1>2. amount \in Nat \ {0} /\ Gold \in Item
    BY AmountsArePositive, ItemIsFinite
<1>3. price \in Nat \ {0}
    <2>1. ShopTrade[k].sell \in Nat \ {0} /\ amount \in Nat \ {0}
        BY <1>1, <1>2, EntryOfShop
    <2> HIDE DEF price
    <2>2. \A m, n \in Nat \ {0} : m * n \in Nat \ {0}
        OBVIOUS
    <2> QED BY <2>1, <2>2 DEF price
<1> DEFINE paid == Int32(price)
<1>4. /\ inventory[c][i] >= amount
      /\ inventory' = With(Without(inventory, c, i, amount), c, Gold, paid)
      /\ net' = Counted(i, amount, Gold, price)
      /\ UNCHANGED Elsewhere
    BY <1>1 DEF Counted
<1> HIDE DEF price
<1>5. paid \in Int /\ paid <= MaxInt
      /\ (price <= MaxInt => paid = price) /\ (price > MaxInt => price - paid > MaxInt)
    BY <1>3, Int32Is
<1>6. amount \in Nat /\ amount <= inventory[c][i]
    <2>1. inventory[c][i] \in Nat
        BY HeldIs DEF HoldingsAre
    <2> QED BY <1>2, <1>4, <2>1
<1>7. MaxInt \in Nat /\ MaxItem \in Nat
    BY LimitsArePositive
<1> HIDE DEF paid
<1>8. CASE price <= MaxInt
    <2>1. /\ inventory' = With(Without(inventory, c, i, amount), c, Gold, price)
        BY <1>4, <1>5, <1>8
    <2> QED BY <1>2, <1>3, <1>4, <1>6, <2>1, ExchangeGuarantees
<1>9. CASE price > MaxInt
    <2> DEFINE has == Left(c, i, amount, Gold)
    <2>1. /\ Inv'
          /\ \A j \in Item : j # Gold => Conserves(j)
          /\ has \in Nat
          /\ inventory'[c][Gold] = Added(has, paid, MaxItem)
          /\ LostMore(Gold) = price - (inventory'[c][Gold] - has)
        BY <1>2, <1>3, <1>4, <1>5, <1>6, Exchanged
    <2> HIDE DEF has
    <2> DEFINE new == Added(has, paid, MaxItem)
    <2>2. new \in Nat /\ (new = has \/ new <= has + paid)
        BY <1>5, <1>7, <2>1, AddedIs
    <2>3. LostMore(Gold) = price - (new - has)
        BY <2>1
    <2> HIDE DEF new
    <2>4. LostMore(Gold) > MaxInt
        BY <1>3, <1>5, <1>7, <1>9, <2>1, <2>2, <2>3
    <2>5. LostMore(Gold) >= 0
        BY <1>3, <1>7, <2>1, <2>2, <2>3, <2>4
    <2>6. Conserves(Gold)
        BY <2>4, <2>5 DEF Conserves, Excused
    <2> QED BY <2>1, <2>6 DEF Guarantee
<1> QED BY <1>3, <1>7, <1>8, <1>9

LEMMA Shop_Create_Guarantees ==
    ASSUME Inv, NEW c \in Char, NEW i \in Item, Shop_Create(c, i)
    PROVE  Guarantee
<1> DEFINE s == [carried |-> inventory[c], net |-> net]
           t == FoldLeft(LAMBDA x, recipe : Crafted(i, x, recipe), s, ShopCraft)
           lost == Gone(t, i) - Gone(s, i)
<1>0. inventory \in Inventories /\ net \in [Item -> Int]
    BY InvIs
<1>1. s \in Works /\ s.carried = inventory[c] /\ s.net = net
    BY <1>0 DEF Works, Inventories
<1>2. /\ inventory' = [inventory EXCEPT ![c] = t.carried]
      /\ net' = t.net
      /\ UNCHANGED Elsewhere
    BY DEF Shop_Create, Elsewhere
<1> HIDE DEF s
<1>3. /\ t \in Works
      /\ \A j \in Item : j # i => Gone(t, j) = Gone(s, j)
      /\ lost >= 0
      /\ lost > 0 =>
            \/ /\ s.carried[i] > 0
               /\ t.carried[i] = MaxItem \/ s.carried[i] + lost > MaxInt
            \/ Recipes(i) > 1 /\ s.carried[i] + Recipes(i) > MaxItem
    BY <1>1, AllCrafted
<1> HIDE DEF t
<1>4. /\ inventory' \in Inventories /\ net' \in [Item -> Int]
      /\ inventory'[c] = t.carried
      /\ \A d \in Char : d # c => inventory'[d] = inventory[d]
    BY <1>0, <1>2, <1>3 DEF Works, Inventories
<1>5. Inv' /\ \A j \in Item : LostMore(j) = BroughtMore(j) - (inventory'[c][j] - inventory[c][j])
    BY <1>2, <1>4, PocketsOnly DEF Elsewhere
<1>6. ASSUME NEW j \in Item PROVE LostMore(j) = Gone(t, j) - Gone(s, j)
    <2>1. net[j] \in Int /\ net'[j] \in Int /\ inventory[c][j] \in Int /\ inventory'[c][j] \in Int
        BY <1>5, HeldIs, HeldNext DEF HoldingsAre
    <2>2. Gone(t, j) = net'[j] - inventory'[c][j] /\ Gone(s, j) = net[j] - inventory[c][j]
        BY <1>1, <1>2, <1>4 DEF Gone
    <2> QED BY <1>5, <2>1, <2>2 DEF BroughtMore
<1>7. ASSUME NEW j \in Item, j # i PROVE Conserves(j)
    <2>1. Gone(s, j) \in Int
        <3>1. s.net[j] \in Int /\ s.carried[j] \in Int
            BY <1>1 DEF Works, Carried
        <3> QED BY <3>1 DEF Gone
    <2>2. LostMore(j) = 0
        BY <1>3, <1>6, <1>7, <2>1
    <2> QED BY <2>2, NothingLost
<1>8. LostMore(i) = lost
    BY <1>6
<1> HIDE DEF lost
<1>9. Conserves(i)
    BY <1>1, <1>3, <1>4, <1>8 DEF Conserves, Excused
<1> QED BY <1>5, <1>7, <1>9 DEF Guarantee

-----------------------------------------------------------------------------
(***************************************************************************)
(* What is worn, and the floor.                                            *)
(***************************************************************************)

\* Steps that change what one character carries and wears, and the floor.
LEMMA FloorAndBody ==
    ASSUME Inv, inventory' \in Inventories, paperdoll' \in Dolls, net' \in [Item -> Int],
           Floored(floor'), NEW c \in Char,
           \A d \in Char : d # c => inventory'[d] = inventory[d] /\ paperdoll'[d] = paperdoll[d],
           UNCHANGED <<goldbank, bankmax, locker, petinv_open, chest>>
    PROVE  /\ Inv'
           /\ \A i \in Item : LostMore(i) =
                  BroughtMore(i) - (((inventory'[c][i] - inventory[c][i])
                                     + (Worn(paperdoll'[c], i) - Worn(paperdoll[c], i)))
                                    + FloorMore(i))
<1>1. Inv'
    <2>1. \A d \in Char : Kept(d)'
        BY LimitsStay
    <2> QED BY <2>1, InvIs, InvNext
<1>2. ASSUME NEW i \in Item
      PROVE  LostMore(i) =
                 BroughtMore(i) - (((inventory'[c][i] - inventory[c][i])
                                    + (Worn(paperdoll'[c], i) - Worn(paperdoll[c], i)))
                                   + FloorMore(i))
    <2>1. \A d \in Char \ {c} : Same(d)
        BY DEF Same
    <2>2. LostMore(i) = BroughtMore(i) - ((Held(c, i)' - Held(c, i)) + (FloorMore(i) + ChestMore(i)))
        BY <1>1, <2>1, OneMoves
    <2>3. HoldingsAre(i) /\ HoldingsAre(i)'
        BY <1>1, HeldIs, HeldNext
    <2>4. Held(c, i)' - Held(c, i) = (inventory'[c][i] - inventory[c][i])
                                     + (Worn(paperdoll'[c], i) - Worn(paperdoll[c], i))
        BY <2>3 DEF HoldingsAre, Held
    <2>5. /\ FloorMore(i) \in Int /\ ChestMore(i) = 0 /\ BroughtMore(i) \in Int
          /\ inventory'[c][i] \in Int /\ inventory[c][i] \in Int
          /\ Worn(paperdoll'[c], i) \in Int /\ Worn(paperdoll[c], i) \in Int
        BY <2>3 DEF HoldingsAre, FloorMore, ChestMore, BroughtMore
    <2> QED BY <2>2, <2>4, <2>5
<1> QED BY <1>1, <1>2

LEMMA Paperdoll_Add_Guarantees ==
    ASSUME Inv, NEW c \in Char, NEW i \in Item, NEW p \in Place, Paperdoll_Add(c, i, p)
    PROVE  Guarantee
<1> DEFINE doll == paperdoll[c]
           to == [doll EXCEPT ![p] = i]
<1>0. /\ inventory \in Inventories /\ net \in [Item -> Int] /\ Floored(floor)
      /\ paperdoll \in Dolls /\ doll \in [Place -> Wearable \cup {Nothing}]
      /\ inventory[c][i] \in Nat /\ inventory[c][i] > 0
      /\ i \in Wearable /\ i # Nothing /\ doll[p] = Nothing
    BY InvIs, HeldIs, ItemIsFinite DEF HoldingsAre, Dolls, Paperdoll_Add
<1>1. paperdoll' = [paperdoll EXCEPT ![c] = to]
    BY DEF Paperdoll_Add
<1>2. to \in [Place -> Wearable \cup {Nothing}]
    BY <1>0
<1>3. \A j \in Item : Worn(to, j) = Worn(doll, j) + (IF j = i THEN 1 ELSE 0)
    <2> SUFFICES ASSUME NEW j \in Item
                 PROVE  Worn(to, j) = Worn(doll, j) + (IF j = i THEN 1 ELSE 0)
        OBVIOUS
    <2>1. doll[p] # i /\ doll[p] # j
        BY <1>0, ItemIsFinite
    <2>2. Worn(to, j) = Worn(doll, j) + (IF i = j THEN 1 ELSE IF doll[p] = j THEN -1 ELSE 0)
        BY <1>0, <2>1, WornIs
    <2> QED BY <2>1, <2>2
<1>4. paperdoll' \in Dolls /\ paperdoll'[c] = to
      /\ \A d \in Char : d # c => paperdoll'[d] = paperdoll[d]
    BY <1>0, <1>1, <1>2 DEF Dolls
<1>5. /\ inventory' \in Inventories
      /\ \A d \in Char : d # c => inventory'[d] = inventory[d]
      /\ \A j \in Item : inventory'[c][j]
             = IF j = i THEN Removed(inventory[c][i], 1) ELSE inventory[c][j]
    <2>1. inventory' = Without(inventory, c, i, 1) /\ 1 \in Int
          /\ inventory \in Inventories /\ i \in Item
        BY <1>0 DEF Paperdoll_Add
    <2> QED BY ONLY <2>1, c \in Char, WithoutIs
<1>6. Removed(inventory[c][i], 1) = inventory[c][i] - 1
    BY <1>0 DEF Removed, Most
<1>7. net' = net /\ floor' = floor
      /\ UNCHANGED <<goldbank, bankmax, locker, petinv_open, chest>>
    BY DEF Paperdoll_Add
<1> HIDE DEF to
<1>8. /\ Inv'
      /\ \A j \in Item : LostMore(j) =
             BroughtMore(j) - (((inventory'[c][j] - inventory[c][j])
                                + (Worn(paperdoll'[c], j) - Worn(paperdoll[c], j)))
                               + FloorMore(j))
    BY <1>0, <1>4, <1>5, <1>7, FloorAndBody
<1>9. ASSUME NEW j \in Item PROVE LostMore(j) = 0
    <2>1. HoldingsAre(j)
        BY HeldIs
    <2>2. /\ BroughtMore(j) = 0 /\ FloorMore(j) = 0
          /\ inventory[c][j] \in Nat /\ Worn(doll, j) \in Nat
        BY <1>7, <2>1 DEF BroughtMore, FloorMore, HoldingsAre
    <2>3. Worn(paperdoll'[c], j) - Worn(paperdoll[c], j) = IF j = i THEN 1 ELSE 0
        BY <1>3, <1>4, <2>2
    <2>4. inventory'[c][j] - inventory[c][j] = IF j = i THEN -1 ELSE 0
        BY <1>0, <1>5, <1>6, <2>2
    <2> QED BY <1>8, <2>2, <2>3, <2>4
<1> QED BY <1>8, <1>9, NothingLost DEF Guarantee

LEMMA Paperdoll_Remove_Guarantees ==
    ASSUME Inv, NEW c \in Char, NEW p \in Place, Paperdoll_Remove(c, p)
    PROVE  Guarantee
<1> DEFINE doll == paperdoll[c]
           i == doll[p]
           to == [doll EXCEPT ![p] = Nothing]
<1>0. /\ inventory \in Inventories /\ net \in [Item -> Int] /\ Floored(floor)
      /\ paperdoll \in Dolls /\ doll \in [Place -> Wearable \cup {Nothing}]
      /\ i # Nothing /\ i \in Item
    <2>1. i \in Wearable \cup {Nothing}
        BY InvIs DEF Dolls
    <2> QED BY <2>1, InvIs, SetsAreParts DEF Dolls, Paperdoll_Remove
<1>1. paperdoll' = [paperdoll EXCEPT ![c] = to]
    BY DEF Paperdoll_Remove
<1>2. to \in [Place -> Wearable \cup {Nothing}]
    BY <1>0
<1>3. \A j \in Item : Worn(to, j) = Worn(doll, j) + (IF j = i THEN -1 ELSE 0)
    <2> SUFFICES ASSUME NEW j \in Item
                 PROVE  Worn(to, j) = Worn(doll, j) + (IF j = i THEN -1 ELSE 0)
        OBVIOUS
    <2>1. Nothing # j
        BY ItemIsFinite
    <2>2. Worn(to, j) = Worn(doll, j) + (IF Nothing = j THEN 1 ELSE IF doll[p] = j THEN -1 ELSE 0)
        BY <1>0, WornIs
    <2> QED BY <2>1, <2>2
<1>4. paperdoll' \in Dolls /\ paperdoll'[c] = to
      /\ \A d \in Char : d # c => paperdoll'[d] = paperdoll[d]
    BY <1>0, <1>1, <1>2 DEF Dolls
<1> HIDE DEF to
<1>5. inventory' = With(inventory, c, i, 1) /\ 1 \in Int
    BY DEF Paperdoll_Remove
<1> HIDE DEF i
<1>6. /\ inventory' \in Inventories
      /\ \A d \in Char : d # c => inventory'[d] = inventory[d]
      /\ \A j \in Item : inventory'[c][j]
             = IF j = i THEN Added(inventory[c][i], 1, MaxItem) ELSE inventory[c][j]
    <2>1. inventory' = With(inventory, c, i, 1) /\ inventory \in Inventories
          /\ 1 \in Int /\ i \in Item
        BY <1>0, <1>5
    <2> QED BY ONLY <2>1, c \in Char, WithIs
<1>7. net' = net /\ floor' = floor
      /\ UNCHANGED <<goldbank, bankmax, locker, petinv_open, chest>>
    BY DEF Paperdoll_Remove
<1>8. /\ Inv'
      /\ \A j \in Item : LostMore(j) =
             BroughtMore(j) - (((inventory'[c][j] - inventory[c][j])
                                + (Worn(paperdoll'[c], j) - Worn(paperdoll[c], j)))
                               + FloorMore(j))
    BY <1>0, <1>4, <1>6, <1>7, FloorAndBody
<1>9. ASSUME NEW j \in Item PROVE Conserves(j)
    <2>1. HoldingsAre(j) /\ HoldingsAre(j)'
        BY <1>8, HeldIs, HeldNext
    <2>2. /\ BroughtMore(j) = 0 /\ FloorMore(j) = 0
          /\ inventory[c][j] \in Nat /\ inventory'[c][j] \in Nat /\ Worn(doll, j) \in Nat
        BY <1>7, <2>1 DEF BroughtMore, FloorMore, HoldingsAre
    <2>3. Worn(paperdoll'[c], j) - Worn(paperdoll[c], j) = IF j = i THEN -1 ELSE 0
        BY <1>3, <1>4, <2>2
    <2>4. CASE j = i
        <3>1. LostMore(j) = 1 - (inventory'[c][j] - inventory[c][j])
            BY <1>8, <2>2, <2>3, <2>4
        <3>2. inventory'[c][j] = Added(inventory[c][j], 1, MaxItem)
            BY <1>6, <2>4
        <3>3. 1 \in Nat \ {0} /\ inventory[c][j] <= inventory[c][j]
            BY <2>2
        <3> QED BY <2>2, <3>1, <3>2, <3>3, AddedToPocket
    <2>5. CASE j # i
        <3>1. inventory'[c][j] = inventory[c][j]
            BY <1>6, <2>5
        <3>2. LostMore(j) = 0
            BY <1>8, <2>2, <2>3, <2>5, <3>1
        <3> QED BY <3>2, NothingLost
    <2> QED BY <2>4, <2>5
<1> QED BY <1>8, <1>9 DEF Guarantee

LEMMA Item_Drop_Guarantees ==
    ASSUME Inv, NEW c \in Char, NEW i \in Item, NEW amount \in Amounts, Item_Drop(c, i, amount)
    PROVE  Guarantee
<1> DEFINE s == Stack(i, amount, c)
           full == Cardinality(DOMAIN floor) >= MaxTile
<1>0. /\ inventory \in Inventories /\ net \in [Item -> Int] /\ Floored(floor)
      /\ paperdoll \in Dolls
      /\ amount \in Nat \ {0} /\ amount \in Int
      /\ inventory[c][i] \in Nat /\ inventory[c][i] >= amount
    BY InvIs, HeldIs, AmountsArePositive DEF HoldingsAre, Item_Drop
<1>1. s \in Lying /\ s.id = i /\ s.amount = amount
    BY <1>0 DEF Stack, Lying
<1>2. \A j \in Item : Part(s, j) = IF j = i THEN amount ELSE 0
    BY <1>1 DEF Part
<1>3. /\ inventory' = Without(inventory, c, i, amount)
      /\ floor' = IF full THEN floor ELSE Placed(floor, s)
      /\ net' = net /\ paperdoll' = paperdoll
      /\ UNCHANGED <<goldbank, bankmax, locker, petinv_open, chest>>
    BY DEF Item_Drop
<1> HIDE DEF s
<1>4. /\ inventory' \in Inventories
      /\ \A d \in Char : d # c => inventory'[d] = inventory[d]
      /\ \A j \in Item : inventory'[c][j]
             = IF j = i THEN Removed(inventory[c][i], amount) ELSE inventory[c][j]
    <2>1. inventory' = Without(inventory, c, i, amount) /\ inventory \in Inventories
          /\ amount \in Int /\ i \in Item
        BY <1>0, <1>3
    <2> QED BY ONLY <2>1, c \in Char, WithoutIs
<1>5. Removed(inventory[c][i], amount) = inventory[c][i] - amount
    BY <1>0 DEF Removed, Most
<1>6. Floored(Placed(floor, s))
      /\ \A j \in Item : OnFloor(Placed(floor, s), j) = OnFloor(floor, j) + Part(s, j)
    BY <1>0, <1>1, PlacedIs
<1>7. Floored(floor')
    BY <1>0, <1>3, <1>6
<1>8. /\ Inv'
      /\ \A j \in Item : LostMore(j) =
             BroughtMore(j) - (((inventory'[c][j] - inventory[c][j])
                                + (Worn(paperdoll'[c], j) - Worn(paperdoll[c], j)))
                               + FloorMore(j))
    BY <1>0, <1>3, <1>4, <1>7, FloorAndBody
<1>9. ASSUME NEW j \in Item PROVE Conserves(j)
    <2>1. HoldingsAre(j)
        BY HeldIs
    <2>2. /\ BroughtMore(j) = 0 /\ Worn(paperdoll'[c], j) - Worn(paperdoll[c], j) = 0
          /\ inventory[c][j] \in Nat /\ OnFloor(floor, j) \in Int
        BY <1>3, <2>1 DEF BroughtMore, HoldingsAre
    <2>3. inventory'[c][j] - inventory[c][j] = IF j = i THEN 0 - amount ELSE 0
        BY <1>0, <1>4, <1>5, <2>2
    <2>4. FloorMore(j) = IF full THEN 0 ELSE Part(s, j)
        BY <1>0, <1>2, <1>3, <1>6, <2>2 DEF FloorMore
    <2>5. CASE j = i /\ full
        <3>1. LostMore(j) = amount
            BY <1>0, <1>8, <2>2, <2>3, <2>4, <2>5
        <3>2. inventory[c][j] - inventory'[c][j] = amount
            BY <1>0, <1>4, <1>5, <2>5
        <3>3. LostMore(j) >= 0
            BY <1>0, <3>1
        <3> QED BY <2>5, <3>1, <3>2, <3>3 DEF Conserves, Excused
    <2>6. CASE j = i /\ ~full
        <3>1. LostMore(j) = 0
            BY <1>0, <1>2, <1>8, <2>2, <2>3, <2>4, <2>6
        <3> QED BY <3>1, NothingLost
    <2>7. CASE j # i
        <3>1. LostMore(j) = 0
            BY <1>0, <1>2, <1>8, <2>2, <2>3, <2>4, <2>7
        <3> QED BY <3>1, NothingLost
    <2> QED BY <2>5, <2>6, <2>7
<1> QED BY <1>8, <1>9 DEF Guarantee

LEMMA Item_Get_Guarantees ==
    ASSUME Inv, NEW c \in Char, NEW u \in DOMAIN floor, NEW taken, Item_Get(c, u, taken)
    PROVE  Guarantee
<1> DEFINE i == floor[u].id
<1>0. /\ inventory \in Inventories /\ net \in [Item -> Int] /\ Floored(floor)
      /\ paperdoll \in Dolls /\ MaxItem \in Nat
    BY InvIs, LimitsArePositive
<1>1. i \in Item /\ floor[u].amount \in Nat \ {0}
    BY <1>0 DEF Floored, Lying
<1>2. taken \in Nat \ {0} /\ taken \in 1 .. floor[u].amount /\ taken \in Int
    BY <1>0, <1>1 DEF Item_Get, Least
<1>3. /\ inventory' = With(inventory, c, i, taken)
      /\ floor' = Lifted(floor, u, taken)
      /\ net' = net /\ paperdoll' = paperdoll
      /\ UNCHANGED <<goldbank, bankmax, locker, petinv_open, chest>>
    BY DEF Item_Get
<1>4. Floored(floor') /\ \A j \in Item : OnFloor(floor', j)
          = OnFloor(floor, j) - (IF j = i THEN taken ELSE 0)
    BY <1>0, <1>2, <1>3, LiftedIs
<1> HIDE DEF i
<1>5. /\ inventory' \in Inventories
      /\ \A d \in Char : d # c => inventory'[d] = inventory[d]
      /\ \A j \in Item : inventory'[c][j]
             = IF j = i THEN Added(inventory[c][i], taken, MaxItem) ELSE inventory[c][j]
    <2>1. inventory' = With(inventory, c, i, taken) /\ inventory \in Inventories
          /\ taken \in Int /\ i \in Item
        BY <1>0, <1>1, <1>2, <1>3
    <2> QED BY ONLY <2>1, c \in Char, WithIs
<1>6. /\ Inv'
      /\ \A j \in Item : LostMore(j) =
             BroughtMore(j) - (((inventory'[c][j] - inventory[c][j])
                                + (Worn(paperdoll'[c], j) - Worn(paperdoll[c], j)))
                               + FloorMore(j))
    BY <1>0, <1>3, <1>4, <1>5, FloorAndBody
<1>7. ASSUME NEW j \in Item PROVE Conserves(j)
    <2>1. HoldingsAre(j) /\ HoldingsAre(j)'
        BY <1>6, HeldIs, HeldNext
    <2>2. /\ BroughtMore(j) = 0 /\ Worn(paperdoll'[c], j) - Worn(paperdoll[c], j) = 0
          /\ inventory[c][j] \in Nat /\ inventory'[c][j] \in Nat /\ OnFloor(floor, j) \in Int
        BY <1>3, <2>1 DEF BroughtMore, HoldingsAre
    <2>3. FloorMore(j) = IF j = i THEN 0 - taken ELSE 0
        BY <1>2, <1>4, <2>2 DEF FloorMore
    <2>4. CASE j = i
        <3>1. LostMore(j) = taken - (inventory'[c][j] - inventory[c][j])
            BY <1>2, <1>6, <2>2, <2>3, <2>4
        <3>2. inventory'[c][j] = Added(inventory[c][j], taken, MaxItem)
            BY <1>5, <2>4
        <3>3. inventory[c][j] <= inventory[c][j]
            BY <2>2
        <3> QED BY <1>2, <2>2, <3>1, <3>2, <3>3, AddedToPocket
    <2>5. CASE j # i
        <3>1. inventory'[c][j] = inventory[c][j]
            BY <1>5, <2>5
        <3>2. LostMore(j) = 0
            BY <1>6, <2>2, <2>3, <2>5, <3>1
        <3> QED BY <3>2, NothingLost
    <2> QED BY <2>4, <2>5
<1> QED BY <1>6, <1>7 DEF Guarantee

LEMMA NPC_Drop_Guarantees ==
    ASSUME Inv, NEW c \in Char, NEW i \in Item, NEW amount \in Amounts, NPC_Drop(c, i, amount)
    PROVE  Guarantee
<1> DEFINE s == Stack(i, amount, c)
<1>0. /\ inventory \in Inventories /\ net \in [Item -> Int] /\ Floored(floor)
      /\ paperdoll \in Dolls /\ amount \in Nat \ {0}
    BY InvIs, AmountsArePositive
<1>1. s \in Lying /\ s.id = i /\ s.amount = amount
    BY <1>0 DEF Stack, Lying
<1>2. \A j \in Item : Part(s, j) = IF j = i THEN amount ELSE 0
    BY <1>1 DEF Part
<1>3. /\ floor' = Placed(floor, s)
      /\ net' = [net EXCEPT ![i] = @ + amount]
      /\ inventory' = inventory /\ paperdoll' = paperdoll
      /\ UNCHANGED <<goldbank, bankmax, locker, petinv_open, chest>>
    BY DEF NPC_Drop, BroughtIn
<1> HIDE DEF s
<1>4. Floored(floor') /\ \A j \in Item : OnFloor(floor', j) = OnFloor(floor, j) + Part(s, j)
    BY <1>0, <1>1, <1>3, PlacedIs
<1>5. net' \in [Item -> Int]
    BY <1>0, <1>3
<1>6. /\ Inv'
      /\ \A j \in Item : LostMore(j) =
             BroughtMore(j) - (((inventory'[c][j] - inventory[c][j])
                                + (Worn(paperdoll'[c], j) - Worn(paperdoll[c], j)))
                               + FloorMore(j))
    BY <1>0, <1>3, <1>4, <1>5, FloorAndBody
<1>7. ASSUME NEW j \in Item PROVE LostMore(j) = 0
    <2>1. HoldingsAre(j)
        BY HeldIs
    <2>2. /\ inventory'[c][j] - inventory[c][j] = 0
          /\ Worn(paperdoll'[c], j) - Worn(paperdoll[c], j) = 0
          /\ OnFloor(floor, j) \in Int /\ net[j] \in Int
        BY <1>3, <2>1 DEF HoldingsAre
    <2>3. BroughtMore(j) = IF j = i THEN amount ELSE 0
        BY <1>0, <1>3, <2>2 DEF BroughtMore
    <2>4. FloorMore(j) = IF j = i THEN amount ELSE 0
        BY <1>0, <1>2, <1>4, <2>2 DEF FloorMore
    <2> QED BY <1>0, <1>6, <2>2, <2>3, <2>4
<1> QED BY <1>6, <1>7, NothingLost DEF Guarantee

LEMMA DropAll_Guarantees ==
    ASSUME Inv, NEW c \in Char, DropAll(c)
    PROVE  Guarantee
<1> DEFINE bare == [p \in Place |-> Nothing]
           stacks == StacksOf(c, inventory[c], paperdoll[c])
<1>0. /\ inventory \in Inventories /\ net \in [Item -> Int] /\ Floored(floor)
      /\ paperdoll \in Dolls
      /\ inventory[c] \in Carried /\ paperdoll[c] \in [Place -> Wearable \cup {Nothing}]
    BY InvIs DEF Inventories, Dolls
<1>1. /\ floor' = FoldLeft(Placed, floor, stacks)
      /\ inventory' = [inventory EXCEPT ![c] = Empty]
      /\ paperdoll' = [paperdoll EXCEPT ![c] = bare]
      /\ net' = net
      /\ UNCHANGED <<goldbank, bankmax, locker, petinv_open, chest>>
    BY DEF DropAll, StacksOf
<1>2. Floored(floor') /\ \A j \in Item : OnFloor(floor', j)
          = OnFloor(floor, j) + inventory[c][j] + Worn(paperdoll[c], j)
    <2>1. Floored(FoldLeft(Placed, floor, stacks))
        BY <1>0, StacksAre
    <2>2. \A j \in Item : OnFloor(FoldLeft(Placed, floor, stacks), j)
              = OnFloor(floor, j) + inventory[c][j] + Worn(paperdoll[c], j)
        BY <1>0, StacksAre DEF Worn
    <2> HIDE DEF stacks
    <2> QED BY <1>1, <2>1, <2>2
<1> HIDE DEF stacks
<1>3. Empty \in Carried /\ \A j \in Item : Empty[j] = 0
    BY DEF Empty, Carried
<1>4. bare \in [Place -> Wearable \cup {Nothing}]
    OBVIOUS
<1>5. \A j \in Item : Worn(bare, j) = 0
    <2> SUFFICES ASSUME NEW j \in Item PROVE Worn(bare, j) = 0
        OBVIOUS
    <2>1. {p \in Place : bare[p] = j} = {}
        BY ItemIsFinite
    <2> QED BY <2>1, FS_EmptySet DEF Worn
<1> HIDE DEF bare
<1>6. /\ inventory' \in Inventories /\ paperdoll' \in Dolls
      /\ inventory'[c] = Empty /\ paperdoll'[c] = bare
      /\ \A d \in Char : d # c => inventory'[d] = inventory[d] /\ paperdoll'[d] = paperdoll[d]
    BY <1>0, <1>1, <1>3, <1>4 DEF Inventories, Dolls
<1>7. /\ Inv'
      /\ \A j \in Item : LostMore(j) =
             BroughtMore(j) - (((inventory'[c][j] - inventory[c][j])
                                + (Worn(paperdoll'[c], j) - Worn(paperdoll[c], j)))
                               + FloorMore(j))
    BY <1>0, <1>1, <1>2, <1>6, FloorAndBody
<1>8. ASSUME NEW j \in Item PROVE LostMore(j) = 0
    <2>1. HoldingsAre(j)
        BY HeldIs
    <2>2. /\ BroughtMore(j) = 0 /\ inventory'[c][j] = 0 /\ Worn(paperdoll'[c], j) = 0
          /\ inventory[c][j] \in Nat /\ Worn(paperdoll[c], j) \in Nat /\ OnFloor(floor, j) \in Int
        BY <1>1, <1>3, <1>5, <1>6, <2>1 DEF BroughtMore, HoldingsAre
    <2>3. FloorMore(j) = inventory[c][j] + Worn(paperdoll[c], j)
        BY <1>2, <2>2 DEF FloorMore
    <2> QED BY <1>7, <2>2, <2>3
<1> QED BY <1>7, <1>8, NothingLost DEF Guarantee

\* Steps of the world itself, which change the floor and the chest.
LEMMA WorldOnly ==
    ASSUME Inv, net' \in [Item -> Int], Floored(floor'), Chested(chest'),
           UNCHANGED <<inventory, paperdoll, goldbank, bankmax, locker, petinv_open>>
    PROVE  /\ Inv'
           /\ \A i \in Item : LostMore(i) = BroughtMore(i) - (FloorMore(i) + ChestMore(i))
<1>1. Inv'
    <2>1. \A d \in Char : Kept(d)'
        BY LimitsStay
    <2> QED BY <2>1, InvIs, InvNext
<1>2. \A d \in Char : Same(d)
    BY DEF Same
<1> QED BY <1>1, <1>2, NoneMoves

LEMMA Unprotect_Guarantees ==
    ASSUME Inv, NEW u \in DOMAIN floor, Unprotect(u)
    PROVE  Guarantee
<1>0. Floored(floor) /\ Chested(chest) /\ net \in [Item -> Int]
    BY InvIs
<1>1. /\ DOMAIN floor' = DOMAIN floor
      /\ \A v \in DOMAIN floor : /\ floor'[v].id = floor[v].id
                                 /\ floor'[v].amount = floor[v].amount
                                 /\ floor'[v] \in Lying
      /\ floor' \in [DOMAIN floor -> Lying]
    BY <1>0 DEF Unprotect, Floored, Lying
<1>2. Floored(floor')
    BY <1>0, <1>1 DEF Floored
<1>3. ASSUME NEW i \in Item PROVE OnFloor(floor', i) = OnFloor(floor, i)
    <2> DEFINE a == [v \in DOMAIN floor |-> Part(floor[v], i)]
               b == [v \in DOMAIN floor' |-> Part(floor'[v], i)]
    <2>1. OnFloor(floor, i) = SumFunction(a) /\ OnFloor(floor', i) = SumFunction(b)
        BY <1>0, <1>2, OnFloorIs
    <2>2. \A v \in DOMAIN floor : Part(floor'[v], i) = Part(floor[v], i)
        BY <1>1 DEF Part
    <2>3. a = b
        BY <1>1, <2>2
    <2> HIDE DEF a, b
    <2> QED BY <2>1, <2>3
<1>4. net' = net /\ chest' = chest
      /\ UNCHANGED <<inventory, paperdoll, goldbank, bankmax, locker, petinv_open>>
    BY DEF Unprotect
<1>5. Inv' /\ \A i \in Item : LostMore(i) = BroughtMore(i) - (FloorMore(i) + ChestMore(i))
    BY <1>0, <1>2, <1>4, WorldOnly
<1>6. ASSUME NEW i \in Item PROVE LostMore(i) = 0
    <2>1. HoldingsAre(i)
        BY HeldIs
    <2>2. BroughtMore(i) = 0 /\ FloorMore(i) = 0 /\ ChestMore(i) = 0
        BY <1>3, <1>4, <2>1 DEF HoldingsAre, BroughtMore, FloorMore, ChestMore
    <2> QED BY <1>5, <2>2
<1> QED BY <1>5, <1>6, NothingLost DEF Guarantee

LEMMA Despawn_Guarantees ==
    ASSUME Inv, NEW gone \in SUBSET DOMAIN floor, Despawn(gone)
    PROVE  Guarantee
<1>0. Floored(floor) /\ Chested(chest)
    BY InvIs
<1>1. /\ floor' = [u \in DOMAIN floor \ gone |-> floor[u]]
      /\ net' = [i \in Item |-> net[i] - (OnFloor(floor, i) - OnFloor(floor', i))]
      /\ chest' = chest
      /\ UNCHANGED <<inventory, paperdoll, goldbank, bankmax, locker, petinv_open>>
    BY DEF Despawn
<1>2. Floored(floor')
    <2>1. DOMAIN floor' = DOMAIN floor \ gone /\ floor' \in [DOMAIN floor' -> Lying]
        BY <1>0, <1>1 DEF Floored
    <2>2. DOMAIN floor \ gone \in SUBSET DOMAIN floor
        OBVIOUS
    <2>3. IsFiniteSet(DOMAIN floor \ gone)
        BY <1>0, <2>2, FS_Subset DEF Floored
    <2> QED BY <2>1, <2>3 DEF Floored
<1>3. ASSUME NEW i \in Item
      PROVE  net[i] \in Int /\ OnFloor(floor, i) \in Int /\ OnFloor(floor', i) \in Int
             /\ Stored(chest, i) \in Int
    BY <1>2, HeldIs, OnFloorIs DEF HoldingsAre
<1>4. net' \in [Item -> Int]
    BY <1>1, <1>3
<1>5. Inv' /\ \A i \in Item : LostMore(i) = BroughtMore(i) - (FloorMore(i) + ChestMore(i))
    BY <1>0, <1>1, <1>2, <1>4, WorldOnly
<1>6. ASSUME NEW i \in Item PROVE LostMore(i) = 0
    <2>1. ChestMore(i) = 0
        BY <1>1, <1>3 DEF ChestMore
    <2>2. BroughtMore(i) = FloorMore(i) /\ FloorMore(i) \in Int
        <3>1. net'[i] = net[i] - (OnFloor(floor, i) - OnFloor(floor', i))
            BY <1>1
        <3> QED BY <1>3, <3>1 DEF BroughtMore, FloorMore
    <2> QED BY <1>5, <2>1, <2>2
<1> QED BY <1>5, <1>6, NothingLost DEF Guarantee

-----------------------------------------------------------------------------
(***************************************************************************)
(* Banks, lockers, pets and the chest.                                     *)
(***************************************************************************)

\* How the number of kinds in a locker changes with one of its entries.
LEMMA KindsAre ==
    ASSUME NEW box \in Carried, NEW to \in Carried, NEW i \in Item,
           \A j \in Item : j # i => to[j] = box[j]
    PROVE  /\ Kinds(box) \in Nat /\ Kinds(to) \in Nat
           /\ Kinds(to) <= Kinds(box) + 1
           /\ box[i] > 0 \/ to[i] = 0 => Kinds(to) <= Kinds(box)
<1> DEFINE S == {j \in Item : box[j] > 0}
           R == {j \in Item : to[j] > 0}
           U == S \cup {i}
<1>1. IsFiniteSet(Item) /\ S \in SUBSET Item /\ R \in SUBSET Item
    BY ItemIsFinite
<1>2. R \in SUBSET U /\ (i \in S => U = S) /\ (box[i] > 0 => i \in S)
      /\ (to[i] = 0 => R \in SUBSET S)
    <2>1. \A j \in R : j \in S \/ j = i
        OBVIOUS
    <2>2. to[i] = 0 => i \notin R
        OBVIOUS
    <2>3. R \in SUBSET U /\ (i \in S => U = S) /\ (to[i] = 0 => R \in SUBSET S)
        BY <2>1, <2>2
    <2>4. box[i] > 0 => i \in S
        OBVIOUS
    <2> QED BY <2>3, <2>4
<1>3. Kinds(box) = Cardinality(S) /\ Kinds(to) = Cardinality(R)
    BY DEF Kinds
<1> HIDE DEF S, R
<1>4. IsFiniteSet(S) /\ IsFiniteSet(R) /\ Cardinality(S) \in Nat /\ Cardinality(R) \in Nat
    BY <1>1, FS_Subset, FS_CardinalityType
<1>5. IsFiniteSet(U) /\ Cardinality(U) \in Nat /\ Cardinality(U) <= Cardinality(S) + 1
    <2>1. i \in S => Cardinality(U) = Cardinality(S)
        BY <1>2
    <2>2. i \notin S => Cardinality(U) = Cardinality(S) + 1
        BY <1>4, FS_AddElement
    <2>3. IsFiniteSet(U)
        BY <1>4, FS_AddElement
    <2> QED BY <1>4, <2>1, <2>2, <2>3
<1>6. Cardinality(R) <= Cardinality(U) /\ (R \in SUBSET S => Cardinality(R) <= Cardinality(S))
    <2> HIDE DEF U
    <2> QED BY <1>2, <1>4, <1>5, FS_Subset
<1>7. box[i] > 0 => Cardinality(R) <= Cardinality(S)
    BY <1>2, <1>6
<1> QED BY <1>2, <1>3, <1>4, <1>5, <1>6, <1>7

\* The limits of one character, in what it has in the bank, in its locker and its pet.
KeptIn(gold, max, boxes) ==
    /\ gold <= MaxBankGold
    /\ Kinds(boxes["vault"]) <= BaseBankSize + max * BankSizeStep
    /\ Kinds(boxes["pet"]) <= Most(BaseBankSize + max * BankSizeStep, PetSlots)
    /\ \A i \in Item : /\ boxes["vault"][i] <= MaxBank
                       /\ boxes["pet"][i] <= Most(MaxBank, MaxPetItem)
    /\ \A b \in Box : boxes[b][Gold] = 0

LEMMA KeptIs ==
    ASSUME Inv, NEW c \in Char,
           \A d \in Char : d # c => /\ goldbank'[d] = goldbank[d] /\ bankmax'[d] = bankmax[d]
                                    /\ locker'[d] = locker[d]
    PROVE  /\ KeptIn(goldbank[c], bankmax[c], locker[c])
           /\ KeptIn(goldbank'[c], bankmax'[c], locker'[c]) => \A d \in Char : Kept(d)'
<1>1. \A d \in Char : Kept(d)
    BY InvIs
<1>2. KeptIn(goldbank[c], bankmax[c], locker[c])
    BY <1>1 DEF Kept, LockerMax, KeptIn
<1>3. ASSUME KeptIn(goldbank'[c], bankmax'[c], locker'[c]), NEW d \in Char PROVE Kept(d)'
    <2>1. CASE d = c
        BY <1>3, <2>1 DEF Kept, LockerMax, KeptIn
    <2>2. CASE d # c
        BY <1>1, <2>2 DEF Kept, LockerMax
    <2> QED BY <2>1, <2>2
<1> QED BY <1>2, <1>3

\* Steps that change what one character carries and has in its bank or locker, and the
\* floor and the chest.
LEMMA StoresOnly ==
    ASSUME Inv, inventory' \in Inventories, goldbank' \in [Char -> Nat],
           bankmax' \in [Char -> Nat], locker' \in Lockers, net' \in [Item -> Int],
           Floored(floor'), Chested(chest'), NEW c \in Char,
           \A d \in Char : d # c => inventory'[d] = inventory[d],
           \A d \in Char : d # c => /\ goldbank'[d] = goldbank[d] /\ bankmax'[d] = bankmax[d]
                                    /\ locker'[d] = locker[d],
           KeptIn(goldbank'[c], bankmax'[c], locker'[c]),
           UNCHANGED <<paperdoll, petinv_open>>
    PROVE  /\ Inv'
           /\ \A i \in Item : LostMore(i) = BroughtMore(i)
                  - ((((inventory'[c][i] - inventory[c][i])
                       + (locker'[c]["vault"][i] - locker[c]["vault"][i]))
                      + ((locker'[c]["pet"][i] - locker[c]["pet"][i])
                         + (IF i = Gold THEN goldbank'[c] - goldbank[c] ELSE 0)))
                     + (FloorMore(i) + ChestMore(i)))
<1>1. Inv'
    <2>1. \A d \in Char : Kept(d)'
        BY KeptIs
    <2> QED BY <2>1, InvIs, InvNext
<1>2. ASSUME NEW i \in Item
      PROVE  LostMore(i) = BroughtMore(i)
                 - ((((inventory'[c][i] - inventory[c][i])
                      + (locker'[c]["vault"][i] - locker[c]["vault"][i]))
                     + ((locker'[c]["pet"][i] - locker[c]["pet"][i])
                        + (IF i = Gold THEN goldbank'[c] - goldbank[c] ELSE 0)))
                    + (FloorMore(i) + ChestMore(i)))
    <2>1. \A d \in Char \ {c} : Same(d)
        BY DEF Same
    <2>2. LostMore(i) = BroughtMore(i) - ((Held(c, i)' - Held(c, i)) + (FloorMore(i) + ChestMore(i)))
        BY <1>1, <2>1, OneMoves
    <2>3. HoldingsAre(i) /\ HoldingsAre(i)'
        BY <1>1, HeldIs, HeldNext
    <2>4. Held(c, i)' - Held(c, i)
              = ((inventory'[c][i] - inventory[c][i])
                 + (locker'[c]["vault"][i] - locker[c]["vault"][i]))
                + ((locker'[c]["pet"][i] - locker[c]["pet"][i])
                   + (IF i = Gold THEN goldbank'[c] - goldbank[c] ELSE 0))
        BY <2>3 DEF HoldingsAre, Held
    <2> QED BY <2>2, <2>4
<1> QED BY <1>1, <1>2

\* What the lemmas on each of these steps begin with.
LEMMA StoresAre ==
    ASSUME Inv, NEW c \in Char
    PROVE  /\ inventory \in Inventories /\ net \in [Item -> Int] /\ Floored(floor)
           /\ Chested(chest) /\ locker \in Lockers /\ locker[c] \in [Box -> Carried]
           /\ goldbank \in [Char -> Nat] /\ bankmax \in [Char -> Nat]
           /\ KeptIn(goldbank[c], bankmax[c], locker[c])
           /\ Gold \in Item /\ "vault" \in Box /\ "pet" \in Box
           /\ MaxItem \in Nat /\ MaxInt \in Nat /\ MaxBank \in Nat /\ MaxPetItem \in Nat
           /\ BaseBankSize \in Nat /\ BankSizeStep \in Nat /\ PetSlots \in Nat
<1>1. Kept(c)
    BY InvIs
<1>2. KeptIn(goldbank[c], bankmax[c], locker[c])
    BY <1>1 DEF Kept, LockerMax, KeptIn
<1> QED BY <1>2, InvIs, ItemIsFinite, LimitsArePositive, SizesAreNumbers DEF Lockers, Box

LEMMA AmountsAre ==
    ASSUME Inv, NEW c \in Char, NEW i \in Item
    PROVE  /\ inventory[c][i] \in Nat /\ net[i] \in Int /\ goldbank[c] \in Nat /\ bankmax[c] \in Nat
           /\ locker[c]["vault"][i] \in Nat /\ locker[c]["pet"][i] \in Nat
           /\ OnFloor(floor, i) \in Int /\ Stored(chest, i) \in Int
BY HeldIs, InvIs DEF HoldingsAre

LEMMA Bank_Add_Guarantees ==
    ASSUME Inv, NEW c \in Char, NEW asked \in Amounts, Bank_Add(c, asked)
    PROVE  Guarantee
<1> DEFINE amount == Least(asked, inventory[c][Gold])
<1>0. /\ inventory \in Inventories /\ net \in [Item -> Int] /\ Floored(floor)
      /\ Chested(chest) /\ locker \in Lockers
      /\ goldbank \in [Char -> Nat] /\ bankmax \in [Char -> Nat]
      /\ KeptIn(goldbank[c], bankmax[c], locker[c]) /\ Gold \in Item
    BY StoresAre
<1>1. inventory[c][Gold] \in Nat /\ goldbank[c] \in Nat /\ asked \in Nat
    BY <1>0, AmountsAre, AmountsArePositive
<1>2. amount \in Nat /\ amount \in Int /\ amount <= inventory[c][Gold]
    BY <1>1 DEF Least
<1>3. /\ goldbank[c] + amount <= Least(MaxBankGold, MaxInt)
      /\ inventory' = Without(inventory, c, Gold, amount)
      /\ goldbank' = [goldbank EXCEPT ![c] = @ + amount]
      /\ bankmax' = bankmax /\ locker' = locker /\ net' = net /\ floor' = floor
      /\ chest' = chest /\ UNCHANGED <<paperdoll, petinv_open>>
    BY DEF Bank_Add
<1> HIDE DEF amount
<1>4. goldbank[c] + amount <= MaxBankGold
    <2>1. MaxBankGold \in Nat /\ MaxInt \in Nat
        BY LimitsArePositive
    <2> QED BY <1>1, <1>2, <1>3, <2>1 DEF Least
<1>5. /\ inventory' \in Inventories
      /\ \A d \in Char : d # c => inventory'[d] = inventory[d]
      /\ \A j \in Item : inventory'[c][j]
             = IF j = Gold THEN Removed(inventory[c][Gold], amount) ELSE inventory[c][j]
    <2>1. inventory' = Without(inventory, c, Gold, amount) /\ inventory \in Inventories
          /\ amount \in Int /\ Gold \in Item
        BY <1>0, <1>2, <1>3
    <2> QED BY ONLY <2>1, c \in Char, WithoutIs
<1>6. Removed(inventory[c][Gold], amount) = inventory[c][Gold] - amount
    BY <1>1, <1>2 DEF Removed, Most
<1>7. /\ goldbank' \in [Char -> Nat] /\ goldbank'[c] = goldbank[c] + amount
      /\ \A d \in Char : d # c => goldbank'[d] = goldbank[d]
    BY <1>0, <1>1, <1>2, <1>3
<1>8. KeptIn(goldbank'[c], bankmax'[c], locker'[c])
    BY <1>0, <1>3, <1>4, <1>7 DEF KeptIn
<1>9. /\ Inv'
      /\ \A i \in Item : LostMore(i) = BroughtMore(i)
             - ((((inventory'[c][i] - inventory[c][i])
                  + (locker'[c]["vault"][i] - locker[c]["vault"][i]))
                 + ((locker'[c]["pet"][i] - locker[c]["pet"][i])
                    + (IF i = Gold THEN goldbank'[c] - goldbank[c] ELSE 0)))
                + (FloorMore(i) + ChestMore(i)))
    BY <1>0, <1>3, <1>5, <1>7, <1>8, StoresOnly
<1>10. ASSUME NEW i \in Item PROVE LostMore(i) = 0
    <2>1. /\ inventory[c][i] \in Nat /\ net[i] \in Int
          /\ locker[c]["vault"][i] \in Nat /\ locker[c]["pet"][i] \in Nat
          /\ OnFloor(floor, i) \in Int /\ Stored(chest, i) \in Int
        BY AmountsAre
    <2>2. /\ BroughtMore(i) = 0 /\ FloorMore(i) = 0 /\ ChestMore(i) = 0
          /\ locker'[c]["vault"][i] - locker[c]["vault"][i] = 0
          /\ locker'[c]["pet"][i] - locker[c]["pet"][i] = 0
        BY <1>3, <2>1 DEF BroughtMore, FloorMore, ChestMore
    <2>3. inventory'[c][i] - inventory[c][i] = IF i = Gold THEN 0 - amount ELSE 0
        BY <1>1, <1>2, <1>5, <1>6, <2>1
    <2>4. goldbank'[c] - goldbank[c] = amount
        BY <1>1, <1>2, <1>7
    <2> QED BY <1>2, <1>9, <2>2, <2>3, <2>4
<1> QED BY <1>9, <1>10, NothingLost DEF Guarantee

LEMMA Bank_Take_Guarantees ==
    ASSUME Inv, NEW c \in Char, NEW amount \in Amounts, Bank_Take(c, amount)
    PROVE  Guarantee
<1>0. /\ inventory \in Inventories /\ net \in [Item -> Int] /\ Floored(floor)
      /\ Chested(chest) /\ locker \in Lockers
      /\ goldbank \in [Char -> Nat] /\ bankmax \in [Char -> Nat]
      /\ KeptIn(goldbank[c], bankmax[c], locker[c]) /\ Gold \in Item
    BY StoresAre
<1>1. inventory[c][Gold] \in Nat /\ goldbank[c] \in Nat /\ amount \in Nat \ {0} /\ amount \in Int
    BY <1>0, AmountsAre, AmountsArePositive
<1>2. /\ goldbank[c] - amount >= 0
      /\ inventory' = With(inventory, c, Gold, amount)
      /\ goldbank' = [goldbank EXCEPT ![c] = @ - amount]
      /\ bankmax' = bankmax /\ locker' = locker /\ net' = net /\ floor' = floor
      /\ chest' = chest /\ UNCHANGED <<paperdoll, petinv_open>>
    BY DEF Bank_Take
<1>3. /\ inventory' \in Inventories
      /\ \A d \in Char : d # c => inventory'[d] = inventory[d]
      /\ \A j \in Item : inventory'[c][j]
             = IF j = Gold THEN Added(inventory[c][Gold], amount, MaxItem) ELSE inventory[c][j]
    <2>1. inventory' = With(inventory, c, Gold, amount) /\ inventory \in Inventories
          /\ Gold \in Item /\ amount \in Int
        BY <1>0, <1>1, <1>2
    <2> QED BY ONLY <2>1, c \in Char, WithIs
<1>4. /\ goldbank' \in [Char -> Nat] /\ goldbank'[c] = goldbank[c] - amount
      /\ \A d \in Char : d # c => goldbank'[d] = goldbank[d]
    BY <1>0, <1>1, <1>2
<1>5. KeptIn(goldbank'[c], bankmax'[c], locker'[c])
    <2>1. MaxBankGold \in Nat
        BY LimitsArePositive
    <2>2. goldbank'[c] <= MaxBankGold
        BY <1>0, <1>1, <1>4, <2>1 DEF KeptIn
    <2> QED BY <1>0, <1>2, <2>2 DEF KeptIn
<1>6. /\ Inv'
      /\ \A i \in Item : LostMore(i) = BroughtMore(i)
             - ((((inventory'[c][i] - inventory[c][i])
                  + (locker'[c]["vault"][i] - locker[c]["vault"][i]))
                 + ((locker'[c]["pet"][i] - locker[c]["pet"][i])
                    + (IF i = Gold THEN goldbank'[c] - goldbank[c] ELSE 0)))
                + (FloorMore(i) + ChestMore(i)))
    BY <1>0, <1>2, <1>3, <1>4, <1>5, StoresOnly
<1>7. ASSUME NEW i \in Item PROVE Conserves(i)
    <2>1. /\ inventory[c][i] \in Nat /\ net[i] \in Int
          /\ locker[c]["vault"][i] \in Nat /\ locker[c]["pet"][i] \in Nat
          /\ OnFloor(floor, i) \in Int /\ Stored(chest, i) \in Int
        BY AmountsAre
    <2>2. /\ BroughtMore(i) = 0 /\ FloorMore(i) = 0 /\ ChestMore(i) = 0
          /\ locker'[c]["vault"][i] - locker[c]["vault"][i] = 0
          /\ locker'[c]["pet"][i] - locker[c]["pet"][i] = 0
        BY <1>2, <2>1 DEF BroughtMore, FloorMore, ChestMore
    <2>3. goldbank'[c] - goldbank[c] = 0 - amount
        BY <1>1, <1>4
    <2>4. inventory'[c][i] \in Nat
        BY <1>6, HeldNext DEF HoldingsAre
    <2>5. CASE i = Gold
        <3>1. LostMore(i) = amount - (inventory'[c][i] - inventory[c][i])
            BY <1>1, <1>6, <2>1, <2>2, <2>3, <2>4, <2>5
        <3>2. inventory'[c][i] = Added(inventory[c][i], amount, MaxItem)
            BY <1>3, <2>5
        <3>3. inventory[c][i] <= inventory[c][i]
            BY <2>1
        <3> QED BY <1>1, <2>1, <3>1, <3>2, <3>3, AddedToPocket
    <2>6. CASE i # Gold
        <3>1. inventory'[c][i] - inventory[c][i] = 0
            BY <1>3, <2>1, <2>6
        <3>2. LostMore(i) = 0
            BY <1>6, <2>2, <2>6, <3>1
        <3> QED BY <3>2, NothingLost
    <2> QED BY <2>5, <2>6
<1> QED BY <1>6, <1>7 DEF Guarantee

LEMMA Locker_Buy_Guarantees ==
    ASSUME Inv, NEW c \in Char, Locker_Buy(c)
    PROVE  Guarantee
<1> DEFINE cost == BankUpgradeBase + bankmax[c] * BankUpgradeStep
<1>0. /\ inventory \in Inventories /\ net \in [Item -> Int] /\ Floored(floor)
      /\ Chested(chest) /\ locker \in Lockers /\ locker[c] \in [Box -> Carried]
      /\ goldbank \in [Char -> Nat] /\ bankmax \in [Char -> Nat]
      /\ KeptIn(goldbank[c], bankmax[c], locker[c]) /\ Gold \in Item
      /\ "vault" \in Box /\ "pet" \in Box
      /\ BaseBankSize \in Nat /\ BankSizeStep \in Nat /\ PetSlots \in Nat
    BY StoresAre
<1>1. inventory[c][Gold] \in Nat /\ bankmax[c] \in Nat
    BY <1>0, AmountsAre
<1>2. cost \in Nat /\ cost \in Int
    <2>1. BankUpgradeBase \in Nat /\ BankUpgradeStep \in Nat
        BY SizesAreNumbers
    <2> QED BY <1>1, <2>1
<1>3. /\ inventory[c][Gold] >= cost
      /\ bankmax' = [bankmax EXCEPT ![c] = @ + 1]
      /\ inventory' = Without(inventory, c, Gold, cost)
      /\ net' = [net EXCEPT ![Gold] = @ - cost]
      /\ goldbank' = goldbank /\ locker' = locker /\ floor' = floor
      /\ chest' = chest /\ UNCHANGED <<paperdoll, petinv_open>>
    BY DEF Locker_Buy, TakenOut
<1> HIDE DEF cost
<1>4. /\ inventory' \in Inventories
      /\ \A d \in Char : d # c => inventory'[d] = inventory[d]
      /\ \A j \in Item : inventory'[c][j]
             = IF j = Gold THEN Removed(inventory[c][Gold], cost) ELSE inventory[c][j]
    <2>1. inventory' = Without(inventory, c, Gold, cost) /\ inventory \in Inventories
          /\ Gold \in Item /\ cost \in Int
        BY <1>0, <1>2, <1>3
    <2> QED BY ONLY <2>1, c \in Char, WithoutIs
<1>5. Removed(inventory[c][Gold], cost) = inventory[c][Gold] - cost
    BY <1>1, <1>2, <1>3 DEF Removed, Most
<1>6. /\ bankmax' \in [Char -> Nat] /\ bankmax'[c] = bankmax[c] + 1
      /\ \A d \in Char : d # c => bankmax'[d] = bankmax[d]
    BY <1>0, <1>1, <1>3
<1>7. KeptIn(goldbank'[c], bankmax'[c], locker'[c])
    <2> DEFINE old == BaseBankSize + bankmax[c] * BankSizeStep
               new == BaseBankSize + bankmax'[c] * BankSizeStep
               k == Kinds(locker[c]["vault"])
               l == Kinds(locker[c]["pet"])
    <2>1. old \in Nat /\ new \in Nat /\ old <= new
        <3>1. (bankmax[c] + 1) * BankSizeStep = bankmax[c] * BankSizeStep + BankSizeStep
            BY <1>0, <1>1
        <3>2. bankmax[c] * BankSizeStep \in Nat
            BY <1>0, <1>1
        <3> QED BY <1>0, <1>6, <3>1, <3>2
    <2>2. locker[c]["vault"] \in Carried /\ locker[c]["pet"] \in Carried
        BY <1>0
    <2>3. k \in Nat /\ l \in Nat
        BY <1>0, <2>2, KindsAre
    <2>4. k <= old /\ l <= Most(old, PetSlots)
        BY <1>0 DEF KeptIn
    <2> HIDE DEF old, new, k, l
    <2>5. k <= new /\ l <= Most(new, PetSlots)
        BY <1>0, <2>1, <2>3, <2>4 DEF Most
    <2>6. goldbank'[c] = goldbank[c] /\ locker'[c] = locker[c]
        BY <1>3
    <2> QED BY <1>0, <2>5, <2>6 DEF KeptIn, new, k, l
<1>8. net' \in [Item -> Int]
    BY <1>0, <1>2, <1>3
<1>9. /\ Inv'
      /\ \A i \in Item : LostMore(i) = BroughtMore(i)
             - ((((inventory'[c][i] - inventory[c][i])
                  + (locker'[c]["vault"][i] - locker[c]["vault"][i]))
                 + ((locker'[c]["pet"][i] - locker[c]["pet"][i])
                    + (IF i = Gold THEN goldbank'[c] - goldbank[c] ELSE 0)))
                + (FloorMore(i) + ChestMore(i)))
    BY <1>0, <1>3, <1>4, <1>6, <1>7, <1>8, StoresOnly
<1>10. ASSUME NEW i \in Item PROVE LostMore(i) = 0
    <2>1. /\ inventory[c][i] \in Nat /\ net[i] \in Int /\ goldbank[c] \in Nat
          /\ locker[c]["vault"][i] \in Nat /\ locker[c]["pet"][i] \in Nat
          /\ OnFloor(floor, i) \in Int /\ Stored(chest, i) \in Int
        BY AmountsAre
    <2>2. /\ FloorMore(i) = 0 /\ ChestMore(i) = 0
          /\ locker'[c]["vault"][i] - locker[c]["vault"][i] = 0
          /\ locker'[c]["pet"][i] - locker[c]["pet"][i] = 0
          /\ goldbank'[c] - goldbank[c] = 0
        BY <1>3, <2>1 DEF FloorMore, ChestMore
    <2>3. inventory'[c][i] - inventory[c][i] = IF i = Gold THEN 0 - cost ELSE 0
        BY <1>1, <1>2, <1>4, <1>5, <2>1
    <2>4. BroughtMore(i) = IF i = Gold THEN 0 - cost ELSE 0
        BY <1>0, <1>2, <1>3, <2>1 DEF BroughtMore
    <2> QED BY <1>2, <1>9, <2>2, <2>3, <2>4
<1> QED BY <1>9, <1>10, NothingLost DEF Guarantee

\* The handlers that open a locker or the bag of a pet move nothing.
LEMMA Opened_Guarantees ==
    ASSUME Inv, NEW c \in Char, Locker_Open(c) \/ OpenInventory(c)
    PROVE  Guarantee
<1>1. /\ petinv_open' \in [Char -> BOOLEAN]
      /\ UNCHANGED <<inventory, paperdoll, goldbank, bankmax, locker, chest, floor, net>>
    BY InvIs DEF Locker_Open, OpenInventory
<1>2. Inv'
    <2>1. \A d \in Char : Kept(d)'
        BY <1>1, LimitsStay
    <2> QED BY <1>1, <2>1, InvIs, InvNext
<1>3. ASSUME NEW i \in Item PROVE LostMore(i) = 0
    <2>1. \A d \in Char : Same(d)
        BY <1>1 DEF Same
    <2>2. LostMore(i) = BroughtMore(i) - (FloorMore(i) + ChestMore(i))
        BY <1>2, <2>1, NoneMoves
    <2>3. BroughtMore(i) = 0 /\ FloorMore(i) = 0 /\ ChestMore(i) = 0
        BY <1>1, HeldIs DEF HoldingsAre, BroughtMore, FloorMore, ChestMore
    <2> QED BY <2>2, <2>3
<1> QED BY <1>2, <1>3, NothingLost DEF Guarantee

LEMMA Locker_Add_Guarantees ==
    ASSUME Inv, NEW c \in Char, NEW i \in Item, NEW asked \in Amounts, Locker_Add(c, i, asked)
    PROVE  Guarantee
<1> DEFINE box == OpenBox(c)
           boxes == locker[c]
           has == boxes[box][i]
           amount == Deposit(has, asked)
           to == [boxes[box] EXCEPT ![i] = has + amount]
           new == [boxes EXCEPT ![box] = to]
           max == BaseBankSize + bankmax[c] * BankSizeStep
<1>0. /\ inventory \in Inventories /\ net \in [Item -> Int] /\ Floored(floor)
      /\ Chested(chest) /\ locker \in Lockers /\ boxes \in [Box -> Carried]
      /\ goldbank \in [Char -> Nat] /\ bankmax \in [Char -> Nat]
      /\ KeptIn(goldbank[c], bankmax[c], boxes) /\ Gold \in Item
      /\ "vault" \in Box /\ "pet" \in Box
      /\ MaxBank \in Nat /\ MaxPetItem \in Nat
      /\ BaseBankSize \in Nat /\ BankSizeStep \in Nat /\ PetSlots \in Nat
    BY StoresAre
<1>1. /\ inventory[c][i] \in Nat /\ asked \in Nat \ {0} /\ bankmax[c] \in Nat
      /\ boxes["vault"][i] \in Nat /\ boxes["pet"][i] \in Nat
    BY AmountsAre, AmountsArePositive
<1>2. box \in Box /\ (box = "vault" \/ box = "pet")
    BY DEF OpenBox, Box
<1>3. /\ i # Gold /\ inventory[c][i] >= asked
      /\ Roomy(boxes[box], i, max)
      /\ locker' = [locker EXCEPT ![c] = new]
      /\ inventory' = Without(inventory, c, i, amount)
      /\ goldbank' = goldbank /\ bankmax' = bankmax /\ net' = net /\ floor' = floor
      /\ chest' = chest /\ UNCHANGED <<paperdoll, petinv_open>>
    BY DEF Locker_Add, LockerMax
<1> HIDE DEF box
<1>4. boxes[box] \in Carried /\ has \in Nat /\ boxes \in [Box -> Carried]
    BY <1>0, <1>1, <1>2
<1>5. /\ amount \in Int /\ amount <= asked /\ has + amount <= MaxBank /\ has + amount >= 0
      /\ amount < 0 => has + amount = MaxBank /\ has > MaxBank
    BY <1>0, <1>1, <1>4 DEF Deposit, Least
<1> HIDE DEF amount
<1>6. to \in Carried /\ to[i] = has + amount /\ \A j \in Item : j # i => to[j] = boxes[box][j]
    BY <1>4, <1>5 DEF Carried
<1> HIDE DEF to, has
<1>7. new \in [Box -> Carried] /\ new[box] = to /\ \A b \in Box : b # box => new[b] = boxes[b]
    BY <1>2, <1>4, <1>6
<1> HIDE DEF new, boxes
<1>8. /\ locker' \in Lockers /\ locker'[c] = new
      /\ \A d \in Char : d # c => locker'[d] = locker[d]
    BY <1>0, <1>3, <1>7 DEF Lockers
<1>9. max \in Nat
    BY <1>0, <1>1
<1> HIDE DEF max
<1>10. /\ Kinds(boxes["vault"]) <= max /\ Kinds(boxes["pet"]) <= Most(max, PetSlots)
       /\ (\A j \in Item : /\ boxes["vault"][j] <= MaxBank
                           /\ boxes["pet"][j] <= Most(MaxBank, MaxPetItem))
       /\ (\A b \in Box : boxes[b][Gold] = 0) /\ goldbank[c] <= MaxBankGold
    BY <1>0 DEF KeptIn, max
<1>11. /\ Kinds(boxes[box]) \in Nat /\ Kinds(to) \in Nat /\ Kinds(to) <= Kinds(boxes[box]) + 1
       /\ boxes[box][i] > 0 \/ to[i] = 0 => Kinds(to) <= Kinds(boxes[box])
    BY <1>4, <1>6, KindsAre
<1>12. Kinds(to) <= max \/ Kinds(to) <= Kinds(boxes[box])
    <2>1. boxes[box][i] > 0 \/ Kinds(boxes[box]) < max
        BY <1>3 DEF Roomy
    <2> QED BY <1>9, <1>11, <2>1
<1>13. KeptIn(goldbank'[c], bankmax'[c], locker'[c])
    <2>1. Kinds(new["vault"]) <= max
        <3>1. CASE box = "vault"
            BY <1>0, <1>7, <1>9, <1>10, <1>11, <1>12, <3>1
        <3>2. CASE box # "vault"
            BY <1>0, <1>7, <1>10, <3>2
        <3> QED BY <3>1, <3>2
    <2>2. Kinds(new["pet"]) <= Most(max, PetSlots)
        <3>1. CASE box = "pet"
            <4>1. max <= Most(max, PetSlots) /\ Most(max, PetSlots) \in Nat
                BY <1>0, <1>9 DEF Most
            <4>2. Kinds(to) <= Most(max, PetSlots)
                BY <1>9, <1>10, <1>11, <1>12, <3>1, <4>1
            <4> QED BY <1>0, <1>7, <3>1, <4>2
        <3>2. CASE box # "pet"
            BY <1>0, <1>7, <1>10, <3>2
        <3> QED BY <3>1, <3>2
    <2>3. ASSUME NEW j \in Item
          PROVE  new["vault"][j] <= MaxBank /\ new["pet"][j] <= Most(MaxBank, MaxPetItem)
        <3>1. MaxBank <= Most(MaxBank, MaxPetItem) /\ Most(MaxBank, MaxPetItem) \in Nat
            BY <1>0 DEF Most
        <3>2. CASE j = i
            <4>1. to[j] <= MaxBank /\ to[j] \in Nat
                BY <1>5, <1>6, <3>2 DEF Carried
            <4>2. to[j] <= Most(MaxBank, MaxPetItem)
                BY <1>0, <3>1, <4>1
            <4> QED BY <1>0, <1>2, <1>7, <1>10, <4>1, <4>2
        <3>3. CASE j # i
            <4>1. to[j] = boxes[box][j]
                BY <1>6, <3>3
            <4> QED BY <1>0, <1>2, <1>7, <1>10, <4>1
        <3> QED BY <3>2, <3>3
    <2>4. ASSUME NEW b \in Box PROVE new[b][Gold] = 0
        <3>1. to[Gold] = boxes[box][Gold]
            BY <1>0, <1>3, <1>6
        <3> QED BY <1>2, <1>7, <1>10, <3>1
    <2>5. goldbank'[c] = goldbank[c] /\ bankmax'[c] = bankmax[c]
        BY <1>3
    <2> QED BY <1>8, <1>10, <2>1, <2>2, <2>3, <2>4, <2>5 DEF KeptIn, max
<1>14. /\ inventory' \in Inventories
       /\ \A d \in Char : d # c => inventory'[d] = inventory[d]
       /\ \A j \in Item : inventory'[c][j]
              = IF j = i THEN Removed(inventory[c][i], amount) ELSE inventory[c][j]
    <2>1. inventory' = Without(inventory, c, i, amount) /\ inventory \in Inventories
          /\ amount \in Int
        BY <1>0, <1>3, <1>5
    <2> QED BY ONLY <2>1, c \in Char, i \in Item, WithoutIs
<1>15. Removed(inventory[c][i], amount)
           = IF amount > 0 THEN inventory[c][i] - amount ELSE inventory[c][i]
    BY <1>1, <1>3, <1>5 DEF Removed, Most
<1>16. /\ Inv'
       /\ \A j \in Item : LostMore(j) = BroughtMore(j)
              - ((((inventory'[c][j] - inventory[c][j])
                   + (locker'[c]["vault"][j] - locker[c]["vault"][j]))
                  + ((locker'[c]["pet"][j] - locker[c]["pet"][j])
                     + (IF j = Gold THEN goldbank'[c] - goldbank[c] ELSE 0)))
                 + (FloorMore(j) + ChestMore(j)))
    BY <1>0, <1>3, <1>8, <1>13, <1>14, StoresOnly
<1>17. ASSUME NEW j \in Item
       PROVE  LostMore(j) = 0 - ((inventory'[c][j] - inventory[c][j])
                                 + (to[j] - boxes[box][j]))
    <2>1. /\ inventory[c][j] \in Nat /\ net[j] \in Int /\ goldbank[c] \in Nat
          /\ boxes["vault"][j] \in Nat /\ boxes["pet"][j] \in Nat
          /\ OnFloor(floor, j) \in Int /\ Stored(chest, j) \in Int
        BY AmountsAre DEF boxes
    <2>2. /\ BroughtMore(j) = 0 /\ FloorMore(j) = 0 /\ ChestMore(j) = 0
          /\ goldbank'[c] - goldbank[c] = 0
        BY <1>3, <2>1 DEF BroughtMore, FloorMore, ChestMore
    <2>3. inventory'[c][j] \in Nat /\ to[j] \in Nat
        BY <1>6, <1>16, HeldNext DEF HoldingsAre, Carried
    <2>4. (new["vault"][j] - boxes["vault"][j]) + (new["pet"][j] - boxes["pet"][j])
              = to[j] - boxes[box][j]
        <3>1. CASE box = "vault"
            BY <1>0, <1>7, <2>1, <2>3, <3>1
        <3>2. CASE box = "pet"
            BY <1>0, <1>7, <2>1, <2>3, <3>2
        <3> QED BY <1>2, <3>1, <3>2
    <2>5. new["vault"][j] \in Nat /\ new["pet"][j] \in Nat
        BY <1>0, <1>7 DEF Carried
    <2>6. /\ locker'[c]["vault"][j] = new["vault"][j] /\ locker'[c]["pet"][j] = new["pet"][j]
          /\ locker[c]["vault"][j] = boxes["vault"][j] /\ locker[c]["pet"][j] = boxes["pet"][j]
        BY <1>8 DEF boxes
    <2> QED BY <1>16, <2>1, <2>2, <2>3, <2>4, <2>5, <2>6
<1>18. ASSUME NEW j \in Item PROVE Conserves(j)
    <2>1. inventory[c][j] \in Nat /\ to[j] \in Nat /\ boxes[box][j] \in Nat
        BY <1>4, <1>6, AmountsAre DEF Carried
    <2>2. CASE j # i
        <3>1. inventory'[c][j] = inventory[c][j] /\ to[j] = boxes[box][j]
            BY <1>6, <1>14, <2>2
        <3>2. LostMore(j) = 0
            BY <1>17, <2>1, <3>1
        <3> QED BY <3>2, NothingLost
    <2>3. CASE j = i /\ amount >= 0
        <3>1. inventory'[c][j] = inventory[c][j] - amount /\ to[j] = boxes[box][j] + amount
            <4>1. inventory'[c][j] = Removed(inventory[c][i], amount)
                BY <1>14, <2>3
            <4> QED BY <1>1, <1>5, <1>6, <1>15, <2>3, <4>1 DEF has
        <3>2. LostMore(j) = 0
            BY <1>5, <1>17, <2>1, <3>1
        <3> QED BY <3>2, NothingLost
    <2>4. CASE j = i /\ amount < 0
        <3>1. inventory'[c][j] = inventory[c][j] /\ to[j] = boxes[box][j] + amount
            <4>1. inventory'[c][j] = Removed(inventory[c][i], amount)
                BY <1>14, <2>4
            <4> QED BY <1>1, <1>5, <1>6, <1>15, <2>4, <4>1 DEF has
        <3>2. LostMore(j) = 0 - amount
            BY <1>5, <1>17, <2>1, <3>1
        <3>3. box = "pet"
            <4>1. boxes["vault"][i] <= MaxBank
                BY <1>10
            <4>2. boxes[box][i] > MaxBank
                BY <1>5, <2>4 DEF has
            <4> QED BY <1>0, <1>1, <1>2, <4>1, <4>2
        <3>4. locker'[c]["pet"][j] = MaxBank /\ locker[c]["pet"][j] > MaxBank
            <4>1. locker'[c]["pet"][j] = to[j] /\ locker[c]["pet"][j] = boxes[box][j]
                BY <1>7, <1>8, <1>2, <3>3 DEF boxes
            <4>2. to[j] = MaxBank /\ boxes[box][j] > MaxBank
                BY <1>5, <1>6, <2>4 DEF has
            <4> QED BY <4>1, <4>2
        <3>5. LostMore(j) >= 0
            BY <1>5, <2>4, <3>2
        <3> QED BY <3>4, <3>5 DEF Conserves, Excused
    <2> QED BY <1>5, <2>2, <2>3, <2>4
<1> QED BY <1>16, <1>18 DEF Guarantee

LEMMA Locker_Take_Guarantees ==
    ASSUME Inv, NEW c \in Char, NEW i \in Item, NEW taken, Locker_Take(c, i, taken)
    PROVE  Guarantee
<1> DEFINE box == OpenBox(c)
           boxes == locker[c]
           has == boxes[box][i]
           to == [boxes[box] EXCEPT ![i] = has - taken]
           new == [boxes EXCEPT ![box] = to]
           max == BaseBankSize + bankmax[c] * BankSizeStep
<1>0. /\ inventory \in Inventories /\ net \in [Item -> Int] /\ Floored(floor)
      /\ Chested(chest) /\ locker \in Lockers /\ boxes \in [Box -> Carried]
      /\ goldbank \in [Char -> Nat] /\ bankmax \in [Char -> Nat]
      /\ KeptIn(goldbank[c], bankmax[c], boxes) /\ Gold \in Item
      /\ "vault" \in Box /\ "pet" \in Box
      /\ MaxBank \in Nat /\ MaxPetItem \in Nat /\ MaxItem \in Nat
      /\ BaseBankSize \in Nat /\ BankSizeStep \in Nat /\ PetSlots \in Nat
    BY StoresAre
<1>1. /\ inventory[c][i] \in Nat /\ bankmax[c] \in Nat
      /\ boxes["vault"][i] \in Nat /\ boxes["pet"][i] \in Nat
    BY AmountsAre
<1>2. box \in Box /\ (box = "vault" \/ box = "pet")
    BY DEF OpenBox, Box
<1>3. /\ has > 0 /\ taken \in 1 .. Least(has, MaxItem)
      /\ locker' = [locker EXCEPT ![c] = new]
      /\ inventory' = With(inventory, c, i, taken)
      /\ goldbank' = goldbank /\ bankmax' = bankmax /\ net' = net /\ floor' = floor
      /\ chest' = chest /\ UNCHANGED <<paperdoll, petinv_open>>
    BY DEF Locker_Take
<1> HIDE DEF box
<1>4. boxes[box] \in Carried /\ has \in Nat /\ boxes \in [Box -> Carried]
    BY <1>0, <1>1, <1>2
<1>5. taken \in Nat \ {0} /\ taken \in Int /\ taken <= has
    BY <1>0, <1>3, <1>4 DEF Least
<1>6. to \in Carried /\ to[i] = has - taken /\ \A j \in Item : j # i => to[j] = boxes[box][j]
    BY <1>4, <1>5 DEF Carried
<1> HIDE DEF to
<1>7. new \in [Box -> Carried] /\ new[box] = to /\ \A b \in Box : b # box => new[b] = boxes[b]
    BY <1>2, <1>4, <1>6
<1> HIDE DEF new, boxes
<1>8. /\ locker' \in Lockers /\ locker'[c] = new
      /\ \A d \in Char : d # c => locker'[d] = locker[d]
    BY <1>0, <1>3, <1>7 DEF Lockers
<1>9. max \in Nat
    BY <1>0, <1>1
<1> HIDE DEF max
<1>10. /\ Kinds(boxes["vault"]) <= max /\ Kinds(boxes["pet"]) <= Most(max, PetSlots)
       /\ (\A j \in Item : /\ boxes["vault"][j] <= MaxBank
                           /\ boxes["pet"][j] <= Most(MaxBank, MaxPetItem))
       /\ (\A b \in Box : boxes[b][Gold] = 0) /\ goldbank[c] <= MaxBankGold
    BY <1>0 DEF KeptIn, max
<1>11. /\ Kinds(boxes[box]) \in Nat /\ Kinds(to) \in Nat /\ Kinds(to) <= Kinds(boxes[box])
    BY <1>3, <1>4, <1>6, KindsAre
<1>12. KeptIn(goldbank'[c], bankmax'[c], locker'[c])
    <2>0. Most(max, PetSlots) \in Nat /\ Most(MaxBank, MaxPetItem) \in Nat
        BY <1>0, <1>9 DEF Most
    <2>1. ASSUME NEW b \in Box PROVE Kinds(new[b]) <= Kinds(boxes[b]) /\ Kinds(new[b]) \in Nat
                                     /\ Kinds(boxes[b]) \in Nat
        <3>1. CASE b = box
            BY <1>7, <1>11, <3>1
        <3>2. CASE b # box
            <4>1. boxes[b] \in Carried
                BY <1>4
            <4>2. Kinds(boxes[b]) \in Nat
                BY <1>4, <4>1, KindsAre
            <4> QED BY <1>7, <3>2, <4>2
        <3> QED BY <3>1, <3>2
    <2>2. Kinds(new["vault"]) <= max /\ Kinds(new["pet"]) <= Most(max, PetSlots)
        BY <1>0, <1>9, <1>10, <2>0, <2>1
    <2>3. ASSUME NEW b \in Box, NEW j \in Item
          PROVE  new[b][j] <= boxes[b][j] /\ new[b][j] \in Nat /\ boxes[b][j] \in Nat
        <3>1. new[b][j] \in Nat /\ boxes[b][j] \in Nat
            BY <1>4, <1>7 DEF Carried
        <3>2. CASE b = box /\ j = i
            BY <1>5, <1>6, <1>7, <3>1, <3>2 DEF has
        <3>3. CASE b # box \/ j # i
            <4>1. new[b][j] = boxes[b][j]
                BY <1>6, <1>7, <3>3
            <4> QED BY <3>1, <4>1
        <3> QED BY <3>2, <3>3
    <2>4. \A j \in Item : /\ new["vault"][j] <= MaxBank
                          /\ new["pet"][j] <= Most(MaxBank, MaxPetItem)
        BY <1>0, <1>10, <2>0, <2>3
    <2>5. \A b \in Box : new[b][Gold] = 0
        BY <1>0, <1>10, <2>3
    <2>6. goldbank'[c] = goldbank[c] /\ bankmax'[c] = bankmax[c]
        BY <1>3
    <2> QED BY <1>8, <1>10, <2>2, <2>4, <2>5, <2>6 DEF KeptIn, max
<1>13. /\ inventory' \in Inventories
       /\ \A d \in Char : d # c => inventory'[d] = inventory[d]
       /\ \A j \in Item : inventory'[c][j]
              = IF j = i THEN Added(inventory[c][i], taken, MaxItem) ELSE inventory[c][j]
    <2>1. inventory' = With(inventory, c, i, taken) /\ inventory \in Inventories
          /\ taken \in Int
        BY <1>0, <1>3, <1>5
    <2> QED BY ONLY <2>1, c \in Char, i \in Item, WithIs
<1>14. /\ Inv'
       /\ \A j \in Item : LostMore(j) = BroughtMore(j)
              - ((((inventory'[c][j] - inventory[c][j])
                   + (locker'[c]["vault"][j] - locker[c]["vault"][j]))
                  + ((locker'[c]["pet"][j] - locker[c]["pet"][j])
                     + (IF j = Gold THEN goldbank'[c] - goldbank[c] ELSE 0)))
                 + (FloorMore(j) + ChestMore(j)))
    BY <1>0, <1>3, <1>8, <1>12, <1>13, StoresOnly
<1>15. ASSUME NEW j \in Item
       PROVE  LostMore(j) = 0 - ((inventory'[c][j] - inventory[c][j])
                                 + (to[j] - boxes[box][j]))
    <2>1. /\ inventory[c][j] \in Nat /\ net[j] \in Int /\ goldbank[c] \in Nat
          /\ boxes["vault"][j] \in Nat /\ boxes["pet"][j] \in Nat
          /\ OnFloor(floor, j) \in Int /\ Stored(chest, j) \in Int
        BY AmountsAre DEF boxes
    <2>2. /\ BroughtMore(j) = 0 /\ FloorMore(j) = 0 /\ ChestMore(j) = 0
          /\ goldbank'[c] - goldbank[c] = 0
        BY <1>3, <2>1 DEF BroughtMore, FloorMore, ChestMore
    <2>3. inventory'[c][j] \in Nat /\ to[j] \in Nat
        BY <1>6, <1>14, HeldNext DEF HoldingsAre, Carried
    <2>4. (new["vault"][j] - boxes["vault"][j]) + (new["pet"][j] - boxes["pet"][j])
              = to[j] - boxes[box][j]
        <3>1. CASE box = "vault"
            BY <1>0, <1>7, <2>1, <2>3, <3>1
        <3>2. CASE box = "pet"
            BY <1>0, <1>7, <2>1, <2>3, <3>2
        <3> QED BY <1>2, <3>1, <3>2
    <2>5. new["vault"][j] \in Nat /\ new["pet"][j] \in Nat
        BY <1>0, <1>7 DEF Carried
    <2>6. /\ locker'[c]["vault"][j] = new["vault"][j] /\ locker'[c]["pet"][j] = new["pet"][j]
          /\ locker[c]["vault"][j] = boxes["vault"][j] /\ locker[c]["pet"][j] = boxes["pet"][j]
        BY <1>8 DEF boxes
    <2> QED BY <1>14, <2>1, <2>2, <2>3, <2>4, <2>5, <2>6
<1>16. ASSUME NEW j \in Item PROVE Conserves(j)
    <2>1. inventory[c][j] \in Nat /\ to[j] \in Nat /\ boxes[box][j] \in Nat
        BY <1>4, <1>6, AmountsAre DEF Carried
    <2>2. CASE j # i
        <3>1. inventory'[c][j] = inventory[c][j] /\ to[j] = boxes[box][j]
            BY <1>6, <1>13, <2>2
        <3>2. LostMore(j) = 0
            BY <1>15, <2>1, <3>1
        <3> QED BY <3>2, NothingLost
    <2>3. CASE j = i
        <3>1. inventory'[c][j] = Added(inventory[c][j], taken, MaxItem)
            BY <1>13, <2>3
        <3>2. inventory'[c][j] \in Nat
            BY <1>14, HeldNext DEF HoldingsAre
        <3>3. to[j] - boxes[box][j] = 0 - taken
            BY <1>4, <1>5, <1>6, <2>3 DEF has
        <3>4. LostMore(j) = taken - (inventory'[c][j] - inventory[c][j])
            BY <1>5, <1>15, <2>1, <3>2, <3>3
        <3>5. inventory[c][j] <= inventory[c][j]
            BY <2>1
        <3> QED BY <1>5, <2>1, <3>1, <3>4, <3>5, AddedToPocket
    <2> QED BY <2>2, <2>3
<1> QED BY <1>14, <1>16 DEF Guarantee

LEMMA PickupDrops_Guarantees ==
    ASSUME Inv, NEW c \in Char, NEW u \in DOMAIN floor, PickupDrops(c, u)
    PROVE  Guarantee
<1> DEFINE i == floor[u].id
           n == floor[u].amount
<1>0. /\ inventory \in Inventories /\ net \in [Item -> Int] /\ Floored(floor)
      /\ Chested(chest) /\ locker \in Lockers /\ locker[c] \in [Box -> Carried]
      /\ goldbank \in [Char -> Nat] /\ bankmax \in [Char -> Nat]
      /\ KeptIn(goldbank[c], bankmax[c], locker[c]) /\ Gold \in Item
      /\ "vault" \in Box /\ "pet" \in Box
      /\ MaxBank \in Nat /\ MaxPetItem \in Nat /\ MaxItem \in Nat /\ MaxInt \in Nat
      /\ BaseBankSize \in Nat /\ BankSizeStep \in Nat /\ PetSlots \in Nat
    BY StoresAre
<1>1. i \in Item /\ n \in Nat \ {0} /\ n \in Int
    BY <1>0 DEF Floored, Lying
<1>2. floor' = Lifted(floor, u, n) /\ net' = net /\ chest' = chest /\ goldbank' = goldbank
      /\ bankmax' = bankmax /\ UNCHANGED <<paperdoll, petinv_open>>
    BY DEF PickupDrops
<1>3. Floored(floor') /\ \A j \in Item : OnFloor(floor', j)
          = OnFloor(floor, j) - (IF j = i THEN n ELSE 0)
    <2>1. n \in 1 .. n
        BY <1>1
    <2> QED BY <1>0, <1>2, <2>1, LiftedIs
<1>4. \A j \in Item : FloorMore(j) = IF j = i THEN 0 - n ELSE 0
    <2>1. \A j \in Item : OnFloor(floor, j) \in Int
        BY AmountsAre
    <2> QED BY <1>1, <1>3, <2>1 DEF FloorMore
<1>5. \A j \in Item : BroughtMore(j) = 0 /\ ChestMore(j) = 0 /\ inventory[c][j] \in Nat
                      /\ locker[c]["vault"][j] \in Nat /\ locker[c]["pet"][j] \in Nat
    BY <1>2, AmountsAre DEF BroughtMore, ChestMore
<1>6. CASE i = Gold
    <2>1. inventory' = With(inventory, c, i, n) /\ locker' = locker
        BY <1>6 DEF PickupDrops
    <2> HIDE DEF i, n
    <2>2. /\ inventory' \in Inventories
          /\ \A d \in Char : d # c => inventory'[d] = inventory[d]
          /\ \A j \in Item : inventory'[c][j]
                 = IF j = i THEN Added(inventory[c][i], n, MaxItem) ELSE inventory[c][j]
        <3>1. inventory' = With(inventory, c, i, n) /\ inventory \in Inventories
              /\ i \in Item /\ n \in Int
            BY <1>0, <1>1, <2>1
        <3> QED BY ONLY <3>1, c \in Char, WithIs
    <2>3. KeptIn(goldbank'[c], bankmax'[c], locker'[c])
        BY <1>0, <1>2, <2>1
    <2>4. /\ Inv'
          /\ \A j \in Item : LostMore(j) = BroughtMore(j)
                 - ((((inventory'[c][j] - inventory[c][j])
                      + (locker'[c]["vault"][j] - locker[c]["vault"][j]))
                     + ((locker'[c]["pet"][j] - locker[c]["pet"][j])
                        + (IF j = Gold THEN goldbank'[c] - goldbank[c] ELSE 0)))
                    + (FloorMore(j) + ChestMore(j)))
        BY <1>0, <1>2, <1>3, <2>1, <2>2, <2>3, StoresOnly
    <2>5. ASSUME NEW j \in Item PROVE Conserves(j)
        <3>1. inventory'[c][j] \in Nat /\ goldbank'[c] - goldbank[c] = 0
            BY <1>0, <1>2, <2>4, HeldNext DEF HoldingsAre
        <3>2. LostMore(j) = 0 - ((inventory'[c][j] - inventory[c][j]) + FloorMore(j))
            <4>1. /\ locker'[c]["vault"][j] - locker[c]["vault"][j] = 0
                  /\ locker'[c]["pet"][j] - locker[c]["pet"][j] = 0
                BY <1>5, <2>1
            <4>2. FloorMore(j) \in Int
                BY <1>1, <1>4
            <4> QED BY <1>5, <2>4, <3>1, <4>1, <4>2
        <3>3. CASE j = i
            <4>1. LostMore(j) = n - (inventory'[c][j] - inventory[c][j])
                BY <1>1, <1>4, <1>5, <3>1, <3>2, <3>3
            <4>2. inventory'[c][j] = Added(inventory[c][j], n, MaxItem)
                BY <2>2, <3>3
            <4>3. inventory[c][j] \in Nat /\ inventory[c][j] <= inventory[c][j]
                BY <1>5
            <4> QED BY <1>1, <4>1, <4>2, <4>3, AddedToPocket
        <3>4. CASE j # i
            <4>1. inventory'[c][j] = inventory[c][j] /\ FloorMore(j) = 0
                BY <1>4, <2>2, <3>4
            <4>2. LostMore(j) = 0
                BY <1>5, <3>2, <4>1
            <4> QED BY <4>2, NothingLost
        <3> QED BY <3>3, <3>4
    <2> QED BY <2>4, <2>5 DEF Guarantee
<1>7. CASE i # Gold
    <2> DEFINE boxes == locker[c]
               bag == boxes["pet"]
               has == bag[i]
               more == Added(has, Least(n, MaxPetItem), MaxPetItem)
               to == [bag EXCEPT ![i] = more]
               new == [boxes EXCEPT !["pet"] = to]
               max == BaseBankSize + bankmax[c] * BankSizeStep
    <2>1. /\ locker' = [locker EXCEPT ![c] = new] /\ inventory' = inventory
          /\ Kinds(bag) < PetSlots
        BY <1>7 DEF PickupDrops, Kinds
    <2>2. boxes \in [Box -> Carried] /\ bag \in Carried /\ has \in Nat
        BY <1>0, <1>1, <1>5 DEF Lockers
    <2>3. Least(n, MaxPetItem) \in Nat
        BY <1>0, <1>1 DEF Least
    <2>4. more \in Nat
        <3> DEFINE m == Least(n, MaxPetItem)
        <3>1. m \in Int /\ has \in Nat /\ MaxPetItem \in Nat
            BY <1>0, <2>2, <2>3
        <3>2. more = Added(has, m, MaxPetItem)
            OBVIOUS
        <3> HIDE DEF m, has, more
        <3>3. Added(has, m, MaxPetItem) \in Nat
            BY ONLY <3>1, AddedIs
        <3> QED BY <3>2, <3>3
    <2>5. /\ more <= Most(MaxBank, MaxPetItem) \/ more <= has
          /\ more <= has + n
          /\ more < has + n => \/ more = MaxPetItem
                               \/ has > 0 /\ has + ((n + has) - more) > MaxInt
        <3> HIDE DEF i, n
        <3>1. CASE n < MaxPetItem
            <4>1. Least(n, MaxPetItem) = n
                BY <3>1 DEF Least
            <4> HIDE DEF has
            <4>2. more = Added(has, n, MaxPetItem)
                BY <4>1
            <4> QED BY <1>0, <1>1, <2>2, <3>1, <4>2 DEF Added, Least, Most
        <3>2. CASE ~(n < MaxPetItem)
            <4>1. Least(n, MaxPetItem) = MaxPetItem
                BY <3>2 DEF Least
            <4> HIDE DEF has
            <4>2. more = Added(has, MaxPetItem, MaxPetItem)
                BY <4>1
            <4>3. MaxPetItem \in Nat \ {0}
                BY LimitsArePositive
            <4> QED BY <1>0, <1>1, <2>2, <3>2, <4>2, <4>3 DEF Added, Least, Most
        <3> QED BY <3>1, <3>2
    <2> HIDE DEF more
    <2>6. to \in Carried /\ to[i] = more /\ \A j \in Item : j # i => to[j] = bag[j]
        BY <1>1, <2>2, <2>4 DEF Carried
    <2> HIDE DEF to, i, n
    <2>7. new \in [Box -> Carried] /\ new["pet"] = to /\ new["vault"] = boxes["vault"]
          /\ \A b \in Box : b # "pet" => new[b] = boxes[b]
        BY <1>0, <2>2, <2>6
    <2> HIDE DEF new, has, bag, boxes
    <2>8. /\ locker' \in Lockers /\ locker'[c] = new
          /\ \A d \in Char : d # c => locker'[d] = locker[d]
        BY <1>0, <2>1, <2>7 DEF Lockers
    <2>9. max \in Nat
        <3>1. bankmax[c] \in Nat
            BY <1>0
        <3> QED BY <1>0, <3>1
    <2> HIDE DEF max
    <2>10. /\ Kinds(boxes["vault"]) <= max
           /\ (\A j \in Item : /\ boxes["vault"][j] <= MaxBank
                               /\ bag[j] <= Most(MaxBank, MaxPetItem))
           /\ (\A b \in Box : boxes[b][Gold] = 0) /\ goldbank[c] <= MaxBankGold
        BY <1>0 DEF KeptIn, max, boxes, bag
    <2>11. Kinds(bag) \in Nat /\ Kinds(to) \in Nat /\ Kinds(to) <= Kinds(bag) + 1
        BY <1>1, <2>2, <2>6, KindsAre
    <2>12. KeptIn(goldbank'[c], bankmax'[c], locker'[c])
        <3>1. Kinds(to) <= Most(max, PetSlots)
            BY <1>0, <2>1, <2>9, <2>11 DEF Most
        <3>2. ASSUME NEW j \in Item PROVE to[j] <= Most(MaxBank, MaxPetItem)
            <4>1. CASE j = i
                <5>1. has <= Most(MaxBank, MaxPetItem) /\ Most(MaxBank, MaxPetItem) \in Nat
                    BY <1>0, <1>1, <2>10 DEF has, Most
                <5> QED BY <2>2, <2>4, <2>5, <2>6, <4>1, <5>1
            <4>2. CASE j # i
                BY <2>6, <2>10, <4>2
            <4> QED BY <4>1, <4>2
        <3>3. ASSUME NEW b \in Box PROVE new[b][Gold] = 0
            <4>1. to[Gold] = bag[Gold]
                BY <1>0, <1>7, <2>6
            <4>2. bag[Gold] = 0
                BY <1>0, <2>10 DEF bag
            <4> QED BY <2>7, <2>10, <4>1, <4>2
        <3>4. goldbank'[c] = goldbank[c] /\ bankmax'[c] = bankmax[c]
            BY <1>2
        <3> QED BY <2>7, <2>8, <2>10, <3>1, <3>2, <3>3, <3>4 DEF KeptIn, max
    <2>13. /\ Inv'
           /\ \A j \in Item : LostMore(j) = BroughtMore(j)
                  - ((((inventory'[c][j] - inventory[c][j])
                       + (locker'[c]["vault"][j] - locker[c]["vault"][j]))
                      + ((locker'[c]["pet"][j] - locker[c]["pet"][j])
                         + (IF j = Gold THEN goldbank'[c] - goldbank[c] ELSE 0)))
                     + (FloorMore(j) + ChestMore(j)))
        BY <1>0, <1>2, <1>3, <2>1, <2>8, <2>12, StoresOnly
    <2>14. ASSUME NEW j \in Item PROVE Conserves(j)
        <3>1. LostMore(j) = 0 - ((to[j] - bag[j]) + FloorMore(j)) /\ to[j] \in Nat /\ bag[j] \in Nat
            <4>1. /\ locker'[c]["vault"][j] - locker[c]["vault"][j] = 0
                  /\ inventory'[c][j] - inventory[c][j] = 0
                  /\ goldbank'[c] - goldbank[c] = 0
                BY <1>0, <1>2, <1>5, <2>1, <2>7, <2>8 DEF boxes
            <4>2. locker'[c]["pet"][j] = to[j] /\ locker[c]["pet"][j] = bag[j]
                BY <2>7, <2>8 DEF bag, boxes
            <4>3. to[j] \in Nat /\ bag[j] \in Nat /\ FloorMore(j) \in Int
                BY <1>1, <1>4, <2>2, <2>6 DEF Carried
            <4> QED BY <1>5, <2>13, <4>1, <4>2, <4>3
        <3>2. CASE j = i
            <4>1. LostMore(j) = (n + has) - more
                BY <1>1, <1>4, <2>2, <2>4, <2>6, <3>1, <3>2 DEF has
            <4>2. LostMore(j) >= 0 /\ (LostMore(j) > 0 => more < has + n)
                BY <1>1, <2>2, <2>4, <2>5, <4>1
            <4>3. locker'[c]["pet"][j] = more /\ locker[c]["pet"][j] = has
                BY <2>6, <2>7, <2>8, <3>2 DEF has, bag, boxes
            <4>4. LostMore(j) > 0 =>
                     \/ locker'[c]["pet"][j] = MaxPetItem
                     \/ locker[c]["pet"][j] > 0 /\ locker[c]["pet"][j] + LostMore(j) > MaxInt
                BY <2>5, <4>1, <4>2, <4>3
            <4> QED BY <4>2, <4>4 DEF Conserves, Excused
        <3>3. CASE j # i
            <4>1. LostMore(j) = 0
                BY <1>4, <2>6, <3>1, <3>3
            <4> QED BY <4>1, NothingLost
        <3> QED BY <3>2, <3>3
    <2> QED BY <2>13, <2>14 DEF Guarantee
<1> QED BY <1>6, <1>7

LEMMA Chest_Add_Guarantees ==
    ASSUME Inv, NEW c \in Char, NEW i \in Item, NEW asked \in Amounts, Chest_Add(c, i, asked)
    PROVE  Guarantee
<1> DEFINE amount == Least(asked, MaxChest - InChest(chest, i))
<1>0. /\ inventory \in Inventories /\ net \in [Item -> Int] /\ Floored(floor)
      /\ Chested(chest) /\ locker \in Lockers
      /\ goldbank \in [Char -> Nat] /\ bankmax \in [Char -> Nat]
      /\ KeptIn(goldbank[c], bankmax[c], locker[c])
    BY StoresAre
<1>1. InChest(chest, i) \in Nat /\ MaxChest \in Nat /\ asked \in Nat
    <2>1. CASE EntriesOf(chest, i) = {}
        <3>1. InChest(chest, i) = 0
            BY <2>1 DEF InChest
        <3> QED BY <3>1, SizesAreNatural, AmountsArePositive
    <2>2. CASE EntriesOf(chest, i) # {}
        <3>1. InChest(chest, i) \in 1 .. MaxChest
            BY <1>0, <2>2, FirstIs
        <3> QED BY <3>1, SizesAreNatural, AmountsArePositive
    <2> QED BY <2>1, <2>2
<1>2. /\ amount > 0 /\ inventory[c][i] >= amount
      /\ chest' = Put(chest, i, amount) /\ chest' # chest
      /\ inventory' = Without(inventory, c, i, amount)
      /\ goldbank' = goldbank /\ bankmax' = bankmax /\ locker' = locker /\ net' = net
      /\ floor' = floor /\ UNCHANGED <<paperdoll, petinv_open>>
    BY DEF Chest_Add
<1>3. amount \in Nat \ {0} /\ amount \in Int
    BY <1>1, <1>2 DEF Least
<1> HIDE DEF amount
<1>4. Chested(chest') /\ \A j \in Item : Stored(chest', j)
          = Stored(chest, j) + (IF j = i THEN amount ELSE 0)
    BY <1>0, <1>2, <1>3, PutIs
<1>5. /\ inventory' \in Inventories
      /\ \A d \in Char : d # c => inventory'[d] = inventory[d]
      /\ \A j \in Item : inventory'[c][j]
             = IF j = i THEN Removed(inventory[c][i], amount) ELSE inventory[c][j]
    <2>1. inventory' = Without(inventory, c, i, amount) /\ inventory \in Inventories
          /\ amount \in Int
        BY <1>0, <1>2, <1>3
    <2> QED BY ONLY <2>1, c \in Char, i \in Item, WithoutIs
<1>6. Removed(inventory[c][i], amount) = inventory[c][i] - amount
    <2>1. inventory[c][i] \in Nat
        BY AmountsAre
    <2> QED BY <1>2, <1>3, <2>1 DEF Removed, Most
<1>7. KeptIn(goldbank'[c], bankmax'[c], locker'[c])
    BY <1>0, <1>2
<1>8. /\ Inv'
      /\ \A j \in Item : LostMore(j) = BroughtMore(j)
             - ((((inventory'[c][j] - inventory[c][j])
                  + (locker'[c]["vault"][j] - locker[c]["vault"][j]))
                 + ((locker'[c]["pet"][j] - locker[c]["pet"][j])
                    + (IF j = Gold THEN goldbank'[c] - goldbank[c] ELSE 0)))
                + (FloorMore(j) + ChestMore(j)))
    BY <1>0, <1>2, <1>4, <1>5, <1>7, StoresOnly
<1>9. ASSUME NEW j \in Item PROVE LostMore(j) = 0
    <2>1. /\ inventory[c][j] \in Nat /\ net[j] \in Int /\ goldbank[c] \in Nat
          /\ locker[c]["vault"][j] \in Nat /\ locker[c]["pet"][j] \in Nat
          /\ OnFloor(floor, j) \in Int /\ Stored(chest, j) \in Int
        BY AmountsAre
    <2>2. /\ BroughtMore(j) = 0 /\ FloorMore(j) = 0
          /\ locker'[c]["vault"][j] - locker[c]["vault"][j] = 0
          /\ locker'[c]["pet"][j] - locker[c]["pet"][j] = 0
          /\ goldbank'[c] - goldbank[c] = 0
        BY <1>2, <2>1 DEF BroughtMore, FloorMore
    <2>3. inventory'[c][j] - inventory[c][j] = IF j = i THEN 0 - amount ELSE 0
        BY <1>3, <1>5, <1>6, <2>1
    <2>4. ChestMore(j) = IF j = i THEN amount ELSE 0
        BY <1>3, <1>4, <2>1 DEF ChestMore
    <2> QED BY <1>3, <1>8, <2>2, <2>3, <2>4
<1> QED BY <1>8, <1>9, NothingLost DEF Guarantee

LEMMA Chest_Take_Guarantees ==
    ASSUME Inv, NEW c \in Char, NEW i \in Item, NEW taken, Chest_Take(c, i, taken)
    PROVE  Guarantee
<1>0. /\ inventory \in Inventories /\ net \in [Item -> Int] /\ Floored(floor)
      /\ Chested(chest) /\ locker \in Lockers /\ MaxItem \in Nat
      /\ goldbank \in [Char -> Nat] /\ bankmax \in [Char -> Nat]
      /\ KeptIn(goldbank[c], bankmax[c], locker[c])
    BY StoresAre
<1>1. InChest(chest, i) \in Nat
    <2>1. CASE EntriesOf(chest, i) = {}
        BY <2>1 DEF InChest
    <2>2. CASE EntriesOf(chest, i) # {}
        <3>1. InChest(chest, i) \in 1 .. MaxChest
            BY <1>0, <2>2, FirstIs
        <3> QED BY <3>1, SizesAreNatural
    <2> QED BY <2>1, <2>2
<1>2. /\ taken \in 1 .. Least(InChest(chest, i), MaxItem)
      /\ chest' = LeftOf(chest, i, taken)
      /\ inventory' = With(inventory, c, i, taken)
      /\ goldbank' = goldbank /\ bankmax' = bankmax /\ locker' = locker /\ net' = net
      /\ floor' = floor /\ UNCHANGED <<paperdoll, petinv_open>>
    BY DEF Chest_Take
<1>3. taken \in Nat \ {0} /\ taken \in Int /\ taken \in 1 .. InChest(chest, i)
    BY <1>0, <1>1, <1>2 DEF Least
<1>4. Chested(chest') /\ \A j \in Item : Stored(chest', j)
          = Stored(chest, j) - (IF j = i THEN taken ELSE 0)
    BY <1>0, <1>2, <1>3, LeftIs
<1>5. /\ inventory' \in Inventories
      /\ \A d \in Char : d # c => inventory'[d] = inventory[d]
      /\ \A j \in Item : inventory'[c][j]
             = IF j = i THEN Added(inventory[c][i], taken, MaxItem) ELSE inventory[c][j]
    <2>1. inventory' = With(inventory, c, i, taken) /\ inventory \in Inventories
          /\ taken \in Int
        BY <1>0, <1>2, <1>3
    <2> QED BY ONLY <2>1, c \in Char, i \in Item, WithIs
<1>6. KeptIn(goldbank'[c], bankmax'[c], locker'[c])
    BY <1>0, <1>2
<1>7. /\ Inv'
      /\ \A j \in Item : LostMore(j) = BroughtMore(j)
             - ((((inventory'[c][j] - inventory[c][j])
                  + (locker'[c]["vault"][j] - locker[c]["vault"][j]))
                 + ((locker'[c]["pet"][j] - locker[c]["pet"][j])
                    + (IF j = Gold THEN goldbank'[c] - goldbank[c] ELSE 0)))
                + (FloorMore(j) + ChestMore(j)))
    BY <1>0, <1>2, <1>4, <1>5, <1>6, StoresOnly
<1>8. ASSUME NEW j \in Item PROVE Conserves(j)
    <2>1. /\ inventory[c][j] \in Nat /\ net[j] \in Int /\ goldbank[c] \in Nat
          /\ locker[c]["vault"][j] \in Nat /\ locker[c]["pet"][j] \in Nat
          /\ OnFloor(floor, j) \in Int /\ Stored(chest, j) \in Int
        BY AmountsAre
    <2>2. /\ BroughtMore(j) = 0 /\ FloorMore(j) = 0
          /\ locker'[c]["vault"][j] - locker[c]["vault"][j] = 0
          /\ locker'[c]["pet"][j] - locker[c]["pet"][j] = 0
          /\ goldbank'[c] - goldbank[c] = 0
        BY <1>2, <2>1 DEF BroughtMore, FloorMore
    <2>3. ChestMore(j) = IF j = i THEN 0 - taken ELSE 0
        BY <1>3, <1>4, <2>1 DEF ChestMore
    <2>4. inventory'[c][j] \in Nat
        BY <1>7, HeldNext DEF HoldingsAre
    <2>5. CASE j = i
        <3>1. LostMore(j) = taken - (inventory'[c][j] - inventory[c][j])
            BY <1>3, <1>7, <2>1, <2>2, <2>3, <2>4, <2>5
        <3>2. inventory'[c][j] = Added(inventory[c][j], taken, MaxItem)
            BY <1>5, <2>5
        <3>3. inventory[c][j] <= inventory[c][j]
            BY <2>1
        <3> QED BY <1>3, <2>1, <3>1, <3>2, <3>3, AddedToPocket
    <2>6. CASE j # i
        <3>1. inventory'[c][j] - inventory[c][j] = 0
            BY <1>5, <2>1, <2>6
        <3>2. LostMore(j) = 0
            BY <1>7, <2>2, <2>3, <2>6, <3>1
        <3> QED BY <3>2, NothingLost
    <2> QED BY <2>5, <2>6
<1> QED BY <1>7, <1>8 DEF Guarantee

LEMMA SpawnChests_Guarantees ==
    ASSUME Inv, NEW due \in SUBSET Slot, SpawnChests(due)
    PROVE  Guarantee
<1>0. Floored(floor) /\ Chested(chest)
    BY InvIs
<1>1. PICK pick \in [due -> UNION {Spawns[s] : s \in due}] :
          /\ \A s \in due : pick[s] \in Spawns[s]
          /\ chest' = FoldLeft(LAMBDA contents, s : IF s \notin due THEN contents
                                   ELSE Spawned(contents, pick[s].id, pick[s].amount, s),
                               chest, [s \in Slot |-> s])
    BY DEF SpawnChests
<1>2. \A s \in due : pick[s] \in [id : Item, amount : Int]
    <2> DEFINE S == SUBSET [id : Item, amount : Int]
    <2>1. Spawns \in Seq(S)
        BY Zenon, DataIsTyped
    <2> HIDE DEF S
    <2>2. \A s \in Slot : Spawns[s] \in S
        BY <2>1 DEF Slot
    <2> QED BY <1>1, <2>2 DEF S
<1>3. due \cap {chest[k].slot : k \in DOMAIN chest} = {}
    BY DEF SpawnChests
<1>4. Chested(chest')
    <2>1. Chested(AllSpawned(chest, due, pick))
        BY ONLY <1>0, <1>2, <1>3, due \in SUBSET Slot, SpawnsAre
    <2>2. chest' = AllSpawned(chest, due, pick)
        BY Zenon, <1>1 DEF AllSpawned
    <2> QED BY <2>1, <2>2
<1>5. /\ net' = [i \in Item |-> net[i] + Stored(chest', i) - Stored(chest, i)]
      /\ floor' = floor
      /\ UNCHANGED <<inventory, paperdoll, goldbank, bankmax, locker, petinv_open>>
    BY DEF SpawnChests
<1>6. ASSUME NEW i \in Item
      PROVE  net[i] \in Int /\ OnFloor(floor, i) \in Int /\ Stored(chest, i) \in Int
             /\ Stored(chest', i) \in Int
    <2>1. chest' \in Seq(Entries)
        BY <1>4 DEF Chested
    <2>2. Stored(chest', i) \in Int
        BY <2>1, StoredIs
    <2> QED BY <2>2, HeldIs DEF HoldingsAre
<1>7. net' \in [Item -> Int]
    BY <1>5, <1>6
<1>8. Inv' /\ \A i \in Item : LostMore(i) = BroughtMore(i) - (FloorMore(i) + ChestMore(i))
    BY <1>0, <1>4, <1>5, <1>7, WorldOnly
<1>9. ASSUME NEW i \in Item PROVE LostMore(i) = 0
    <2>1. FloorMore(i) = 0
        BY <1>5, <1>6 DEF FloorMore
    <2>2. BroughtMore(i) = ChestMore(i) /\ ChestMore(i) \in Int
        <3>1. net'[i] = net[i] + Stored(chest', i) - Stored(chest, i)
            BY <1>5
        <3> QED BY <1>6, <3>1 DEF BroughtMore, ChestMore
    <2> QED BY <1>8, <2>1, <2>2
<1> QED BY <1>8, <1>9, NothingLost DEF Guarantee

LEMMA Reload_Guarantees ==
    ASSUME Inv, Reload
    PROVE  Guarantee
<1>0. Floored(floor) /\ Chested(chest)
    BY InvIs
<1>1. /\ chest' = <<>> /\ floor' = floor
      /\ net' = [i \in Item |-> net[i] - Stored(chest, i)]
      /\ UNCHANGED <<inventory, paperdoll, goldbank, bankmax, locker, petinv_open>>
    BY DEF Reload
<1>2. Chested(chest')
    BY <1>1, SizesAreNatural DEF Chested
<1>3. ASSUME NEW i \in Item
      PROVE  net[i] \in Int /\ OnFloor(floor, i) \in Int /\ Stored(chest, i) \in Int
    BY HeldIs DEF HoldingsAre
<1>4. ASSUME NEW i \in Item PROVE Stored(chest', i) = 0
    <2> DEFINE f == [k \in DOMAIN chest' |-> Part(chest'[k], i)]
    <2>1. DOMAIN chest' = {}
        BY <1>1
    <2>2. Stored(chest', i) = SumFunction(f) /\ f \in [DOMAIN chest' -> Int]
        <3>1. chest' \in Seq(Entries)
            BY <1>2 DEF Chested
        <3> QED BY <3>1, StoredIs
    <2> HIDE DEF f
    <2>3. f \in [{} -> Int]
        BY <2>1, <2>2
    <2> QED BY <2>2, <2>3, SumEmpty
<1>5. net' \in [Item -> Int]
    BY <1>1, <1>3
<1>6. Inv' /\ \A i \in Item : LostMore(i) = BroughtMore(i) - (FloorMore(i) + ChestMore(i))
    BY <1>0, <1>1, <1>2, <1>5, WorldOnly
<1>7. ASSUME NEW i \in Item PROVE LostMore(i) = 0
    <2>1. FloorMore(i) = 0
        BY <1>1, <1>3 DEF FloorMore
    <2>2. BroughtMore(i) = ChestMore(i) /\ ChestMore(i) \in Int
        <3>1. net'[i] = net[i] - Stored(chest, i)
            BY <1>1
        <3> QED BY <1>3, <1>4, <3>1 DEF BroughtMore, ChestMore
    <2> QED BY <1>6, <2>1, <2>2
<1> QED BY <1>6, <1>7, NothingLost DEF Guarantee

-----------------------------------------------------------------------------
(***************************************************************************)
(* Every step, and the theorems.                                           *)
(***************************************************************************)

LEMMA EveryStep == Inv /\ [Next]_vars => Guarantee
<1> SUFFICES ASSUME Inv, [Next]_vars PROVE Guarantee
    OBVIOUS
<1>1. CASE UNCHANGED vars
    <2>1. UNCHANGED <<inventory, paperdoll, goldbank, bankmax, locker, petinv_open, chest, floor,
                      net>>
        BY <1>1 DEF vars, places
    <2>2. Inv' /\ \A i \in Item : LostMore(i) = BroughtMore(i) - (FloorMore(i) + ChestMore(i))
        BY <2>1, InvIs, WorldOnly
    <2>3. ASSUME NEW i \in Item PROVE LostMore(i) = 0
        <3>1. BroughtMore(i) = 0 /\ FloorMore(i) = 0 /\ ChestMore(i) = 0
            BY <2>1, HeldIs DEF HoldingsAre, BroughtMore, FloorMore, ChestMore
        <3> QED BY <2>2, <3>1
    <2> QED BY <2>2, <2>3, NothingLost DEF Guarantee
<1>2. ASSUME NEW c \in Char, Carries(c) PROVE Guarantee
    <2> PICK i \in Item :
            \/ \E amount \in Amounts :
                  \/ GiveItem(c, i, amount) \/ RemoveItem(c, i, amount) \/ Item_Junk(c, i, amount)
                  \/ Item_Drop(c, i, amount) \/ NPC_Drop(c, i, amount)
                  \/ Locker_Add(c, i, amount) \/ Chest_Add(c, i, amount)
                  \/ Shop_Buy(c, i, amount) \/ Shop_Sell(c, i, amount)
            \/ \E taken \in 1 .. MaxItem : Locker_Take(c, i, taken) \/ Chest_Take(c, i, taken)
            \/ Item_Use(c, i)
            \/ Shop_Create(c, i)
            \/ \E p \in Place : Paperdoll_Add(c, i, p)
        BY <1>2 DEF Carries
    <2>1. ASSUME NEW amount \in Amounts,
                 \/ GiveItem(c, i, amount) \/ RemoveItem(c, i, amount) \/ Item_Junk(c, i, amount)
                 \/ Item_Drop(c, i, amount) \/ NPC_Drop(c, i, amount)
                 \/ Locker_Add(c, i, amount) \/ Chest_Add(c, i, amount)
                 \/ Shop_Buy(c, i, amount) \/ Shop_Sell(c, i, amount)
          PROVE  Guarantee
        BY <2>1, GiveItem_Guarantees, RemoveItem_Guarantees, Item_Junk_Guarantees,
           Item_Drop_Guarantees, NPC_Drop_Guarantees, Locker_Add_Guarantees,
           Chest_Add_Guarantees, Shop_Buy_Guarantees, Shop_Sell_Guarantees
    <2>2. ASSUME NEW taken \in 1 .. MaxItem, Locker_Take(c, i, taken) \/ Chest_Take(c, i, taken)
          PROVE  Guarantee
        BY <2>2, Locker_Take_Guarantees, Chest_Take_Guarantees
    <2>3. CASE Item_Use(c, i) \/ Shop_Create(c, i) \/ \E p \in Place : Paperdoll_Add(c, i, p)
        BY <2>3, Item_Use_Guarantees, Shop_Create_Guarantees, Paperdoll_Add_Guarantees
    <2> QED BY <2>1, <2>2, <2>3
<1>3. ASSUME NEW c \in Char, Other(c) PROVE Guarantee
    <2>1. ASSUME NEW amount \in Amounts, Bank_Add(c, amount) \/ Bank_Take(c, amount)
          PROVE  Guarantee
        BY <2>1, Bank_Add_Guarantees, Bank_Take_Guarantees
    <2>2. ASSUME NEW u \in DOMAIN floor,
                 PickupDrops(c, u) \/ \E taken \in 1 .. MaxItem : Item_Get(c, u, taken)
          PROVE  Guarantee
        BY <2>2, PickupDrops_Guarantees, Item_Get_Guarantees
    <2>3. CASE Barber_Buy(c, Price) \/ (\E p \in Place : Paperdoll_Remove(c, p)) \/ DropAll(c)
        BY <2>3, Barber_Buy_Guarantees, Paperdoll_Remove_Guarantees, DropAll_Guarantees
    <2>4. CASE Locker_Open(c) \/ OpenInventory(c) \/ Locker_Buy(c)
        BY <2>4, Opened_Guarantees, Locker_Buy_Guarantees
    <2> QED BY <1>3, <2>1, <2>2, <2>3, <2>4 DEF Other
<1>4. ASSUME NEW u \in DOMAIN floor, Unprotect(u) PROVE Guarantee
    BY <1>4, Unprotect_Guarantees
<1>5. ASSUME NEW gone \in SUBSET DOMAIN floor, Despawn(gone) PROVE Guarantee
    BY <1>5, Despawn_Guarantees
<1>6. ASSUME NEW due \in SUBSET Slot, SpawnChests(due) PROVE Guarantee
    BY <1>6, SpawnChests_Guarantees
<1>7. CASE Reload
    BY <1>7, Reload_Guarantees
<1> QED BY <1>1, <1>2, <1>3, <1>4, <1>5, <1>6, <1>7 DEF Next

\* The types of what characters own, and the sizes of every store: a step of any handler
\* keeps them when both hold before it (handlers/*.cpp, character.cpp, npc.cpp, map.cpp).
THEOREM ItemsTyped == Spec => []Inv
<1>1. Inv /\ [Next]_vars => Inv'
    BY EveryStep DEF Guarantee
<1> QED BY InvInit, <1>1, PTL DEF Spec

\* Every store keeps to its size, after any sequence of deposits, withdrawals, pickups by
\* pets, spawns of chests and purchases (handlers/Bank.cpp, Locker.cpp, Chest.cpp, npc.cpp).
THEOREM LimitsAreKept == Spec => []LimitsKept
<1>1. Inv => LimitsKept
    BY DEF Inv
<1> QED BY ItemsTyped, <1>1, PTL

\* Whatever step the game takes, nothing comes to be in two places, and what vanishes is
\* cut by one of the limits that ItemsConserved names (character.cpp, npc.cpp, map.cpp and
\* the handlers of items).
THEOREM ItemsAreConserved == Spec => ItemsConserved
<1>1. ASSUME Inv, Guarantee
      PROVE  \A i \in Item : LET lost == Lost(i)' - Lost(i) IN
                 /\ lost >= 0
                 /\ lost > 0 =>
                     \/ \E c \in Char :
                           /\ inventory[c][i] > 0
                           /\ inventory'[c][i] = MaxItem \/ inventory[c][i] + lost > MaxInt
                     \/ lost > MaxInt
                     \/ Recipes(i) > 1 /\ \E c \in Char : inventory[c][i] + Recipes(i) > MaxItem
                     \/ /\ Cardinality(DOMAIN floor) >= MaxTile
                        /\ \E c \in Char : inventory[c][i] - inventory'[c][i] = lost
                     \/ \E c \in Char :
                           \/ locker'[c]["pet"][i] = MaxPetItem
                           \/ locker[c]["pet"][i] > 0 /\ locker[c]["pet"][i] + lost > MaxInt
                           \/ locker'[c]["pet"][i] = MaxBank /\ locker[c]["pet"][i] > MaxBank
    BY Zenon, <1>1 DEF Guarantee, Conserves, Excused, LostMore
<1> QED BY ItemsTyped, EveryStep, <1>1, PTL DEF Spec, ItemsConserved

-----------------------------------------------------------------------------
(***************************************************************************)
(* Parties.                                                                *)
(***************************************************************************)
Types(s) == s \in [party : [Char -> Group \cup {None}],
                   leader : [Group -> Pointer],
                   members : [Group -> [Char -> Nat]]]

\* MembershipKnown, of any record of parties.
Known(s) ==
    \A c \in Char : s.party[c] # None =>
        s.leader[s.party[c]] # None /\ s.members[s.party[c]][c] > 0

\* MembersMatch, of any record of parties and any set of characters in the world.
Match(s, on) ==
    \A g \in Group :
        /\ \A c \in Char : s.members[g][c] = IF s.party[c] = g THEN 1 ELSE 0
        /\ s.leader[g] # None => s.leader[g] \in on /\ s.party[s.leader[g]] = g
        /\ \A c \in Char : s.party[c] = g => c \in on

\* A party that is disbanded leaves the other parties as they are.
LEMMA DisbandGroups ==
    ASSUME NEW s, Types(s), Known(s), NEW g \in Group
    PROVE  /\ Types(Disband(s, g)) /\ Known(Disband(s, g))
           /\ \A on \in SUBSET Char : Match(s, on) => Match(Disband(s, g), on)
<1> DEFINE t == Disband(s, g)
<1>1. /\ t.party = [c \in Char |-> IF s.members[g][c] > 0 THEN None ELSE s.party[c]]
      /\ t.leader = [s.leader EXCEPT ![g] = None]
      /\ t.members = [s.members EXCEPT ![g] = Nobody]
      /\ t = [party |-> t.party, leader |-> t.leader, members |-> t.members]
    BY DEF Disband
<1>2. Nobody \in [Char -> Nat] /\ \A c \in Char : Nobody[c] = 0
    BY DEF Nobody
<1>3. \A c \in Char : t.party[c] # None => t.party[c] = s.party[c] /\ s.party[c] # g /\ s.party[c] \in Group
    BY <1>1 DEF Types, Known
<1> HIDE DEF t
<1>4. Types(t)
    <2> HIDE DEF Nobody
    <2> QED BY <1>1, <1>2 DEF Types, Pointer
<1>5. Known(t)
    BY <1>1, <1>3 DEF Types, Known
<1>6. ASSUME NEW on \in SUBSET Char, Match(s, on) PROVE Match(t, on)
    <2> SUFFICES ASSUME NEW h \in Group
                 PROVE  /\ \A c \in Char : t.members[h][c] = IF t.party[c] = h THEN 1 ELSE 0
                        /\ t.leader[h] # None => t.leader[h] \in on /\ t.party[t.leader[h]] = h
                        /\ \A c \in Char : t.party[c] = h => c \in on
        BY DEF Match
    <2>1. \A c \in Char : t.party[c] = IF s.party[c] = g THEN None ELSE s.party[c]
        <3>1. \A c \in Char : s.members[g][c] > 0 <=> s.party[c] = g
            BY <1>6 DEF Match
        <3>2. \A c \in Char : t.party[c] = IF s.members[g][c] > 0 THEN None ELSE s.party[c]
            BY <1>1
        <3> QED BY ONLY <3>1, <3>2
    <2>2. CASE h = g
        <3>1. t.members[g] = Nobody /\ t.leader[g] = None
            BY <1>1 DEF Types
        <3>2. \A c \in Char : t.party[c] # g
            BY <2>1, NoneIsNone
        <3> QED BY <1>2, <2>2, <3>1, <3>2
    <2>3. CASE h # g
        <3>1. t.members[h] = s.members[h] /\ t.leader[h] = s.leader[h]
            BY <1>1, <2>3 DEF Types
        <3>2. \A c \in Char : (t.party[c] = h) = (s.party[c] = h)
            BY <2>1, <2>3, NoneIsNone
        <3> QED BY <1>6, <3>1, <3>2 DEF Match
    <2> QED BY <2>2, <2>3
<1> QED BY <1>4, <1>5, <1>6 DEF t

\* Leaving, whoever it is that the party is told to let go.
LEMMA LeaveGroups ==
    ASSUME NEW s, Types(s), Known(s), NEW g \in Group, NEW c \in Char
    PROVE  /\ Types(Leave(s, g, c)) /\ Known(Leave(s, g, c))
           /\ \A on \in SUBSET Char : Match(s, on) /\ s.party[c] = g =>
                Match(Leave(s, g, c), on) /\ Leave(s, g, c).party[c] = None
<1>1. CASE Size(s, g) > 2 /\ c # s.leader[g]
    <2> DEFINE n == IF s.members[g][c] > 0 THEN s.members[g][c] - 1 ELSE 0
               t == [s EXCEPT !.party[c] = None, !.members[g][c] = n]
    <2>1. Leave(s, g, c) = t
        BY <1>1 DEF Leave, Types
    <2>2. n \in Nat
        BY DEF Types
    <2>3. /\ t.party = [s.party EXCEPT ![c] = None]
          /\ t.leader = s.leader
          /\ t.members = [s.members EXCEPT ![g][c] = n]
          /\ t \in [party : [Char -> Group \cup {None}], leader : [Group -> Pointer],
                    members : [Group -> [Char -> Nat]]]
        BY <2>2 DEF Types
    <2>4. \A h \in Group, d \in Char : d # c => t.members[h][d] = s.members[h][d]
        BY <2>3 DEF Types
    <2> HIDE DEF t
    <2>5. Known(t)
        BY <2>3, <2>4 DEF Types, Known
    <2>6. ASSUME NEW on \in SUBSET Char, Match(s, on), s.party[c] = g
          PROVE  Match(t, on) /\ t.party[c] = None
        <3>1. s.members[g][c] = 1 /\ n = 0 /\ \A h \in Group \ {g} : s.members[h][c] = 0
            BY <2>6 DEF Match
        <3>2. \A h \in Group : t.members[h][c] = 0
            BY <2>3, <3>1 DEF Types
        <3>3. t.party[c] = None /\ \A d \in Char \ {c} : t.party[d] = s.party[d]
            BY <2>3 DEF Types
        <3>4. \A h \in Group : s.leader[h] # c
            BY <1>1, <2>6, NoneIsNone DEF Match
        <3>5. \A h \in Group, d \in Char : t.members[h][d] = IF t.party[d] = h THEN 1 ELSE 0
            <4> SUFFICES ASSUME NEW h \in Group, NEW d \in Char
                         PROVE  t.members[h][d] = IF t.party[d] = h THEN 1 ELSE 0
                OBVIOUS
            <4>1. CASE d = c
                BY <3>2, <3>3, <4>1, NoneIsNone
            <4>2. CASE d # c
                BY <2>4, <2>6, <3>3, <4>2 DEF Match
            <4> QED BY <4>1, <4>2
        <3>6. \A h \in Group : s.leader[h] # None => s.leader[h] \in Char \ {c}
            BY <2>6, <3>4 DEF Match
        <3> QED BY <2>3, <2>6, <3>3, <3>5, <3>6 DEF Match
    <2> QED BY <2>1, <2>3, <2>5, <2>6 DEF Types
<1>2. CASE ~(Size(s, g) > 2 /\ c # s.leader[g])
    <2>1. Leave(s, g, c) = Disband(s, g)
        BY <1>2 DEF Leave
    <2>2. ASSUME NEW on \in SUBSET Char, Match(s, on), s.party[c] = g
          PROVE  Disband(s, g).party[c] = None
        BY <2>2 DEF Match, Disband
    <2> QED BY <2>1, <2>2, DisbandGroups
<1> QED BY <1>1, <1>2

\* Whoever leaves its own party is in none after.
LEMMA LeaveOwnGroups ==
    ASSUME NEW s, Types(s), Known(s), NEW c \in Char
    PROVE  /\ Types(LeaveOwn(s, c)) /\ Known(LeaveOwn(s, c)) /\ LeaveOwn(s, c).party[c] = None
           /\ \A on \in SUBSET Char : Match(s, on) => Match(LeaveOwn(s, c), on)
<1>1. CASE s.party[c] = None
    BY <1>1 DEF LeaveOwn
<1>2. CASE s.party[c] # None
    <2> DEFINE g == s.party[c]
    <2>1. g \in Group /\ s.members[g][c] > 0
        BY <1>2 DEF Types, Known
    <2>2. LeaveOwn(s, c) = Leave(s, g, c)
        BY <1>2 DEF LeaveOwn
    <2>3. Leave(s, g, c).party[c] = None
        BY <2>1 DEF Leave, Disband, Types
    <2> QED BY <2>1, <2>2, <2>3, LeaveGroups
<1> QED BY <1>1, <1>2

\* A new party of two who are in none, the guest at least.
LEMMA FoundGroups ==
    ASSUME NEW s, Types(s), Known(s), NEW host \in Char, NEW guest \in Char \ {host},
           s.party[host] = None, s.party[guest] = None, NEW g \in Group, s.leader[g] = None
    PROVE  /\ Types(Found(s, g, host, guest)) /\ Known(Found(s, g, host, guest))
           /\ \A on \in SUBSET Char : Match(s, on) /\ {host, guest} \subseteq on =>
                Match(Found(s, g, host, guest), on)
<1> DEFINE two == [Nobody EXCEPT ![host] = 1, ![guest] = 1]
           t == Found(s, g, host, guest)
<1>1. /\ two \in [Char -> Nat] /\ two[host] = 1 /\ two[guest] = 1
      /\ \A c \in Char \ {host, guest} : two[c] = 0
    BY DEF Nobody
<1>2. /\ t.party = [s.party EXCEPT ![host] = g, ![guest] = g]
      /\ t.leader = [s.leader EXCEPT ![g] = host]
      /\ t.members = [s.members EXCEPT ![g] = two]
      /\ t = [party |-> t.party, leader |-> t.leader, members |-> t.members]
    BY DEF Found
<1>3. /\ t.party[host] = g /\ t.party[guest] = g
      /\ \A c \in Char \ {host, guest} : t.party[c] = s.party[c] /\ s.party[c] # g
    <2>1. \A c \in Char : s.party[c] # g
        BY NoneIsNone DEF Known
    <2> HIDE DEF t, two
    <2> QED BY <1>2, <2>1 DEF Types
<1>4. \A h \in Group \ {g} : t.members[h] = s.members[h] /\ t.leader[h] = s.leader[h]
    BY <1>2 DEF Types
<1>5. t.members[g] = two /\ t.leader[g] = host /\ host # None
    BY <1>2, NoneIsNone DEF Types
<1> HIDE DEF t, two
<1>6. Types(t)
    <2>1. t.party \in [Char -> Group \cup {None}]
        BY <1>2 DEF Types
    <2>2. t.leader \in [Group -> Pointer]
        BY <1>2 DEF Types, Pointer
    <2>3. t.members \in [Group -> [Char -> Nat]]
        BY <1>1, <1>2 DEF Types
    <2> QED BY <1>2, <2>1, <2>2, <2>3 DEF Types
<1>7. Known(t)
    BY <1>1, <1>3, <1>4, <1>5, <1>6 DEF Types, Known
<1>8. ASSUME NEW on \in SUBSET Char, Match(s, on), {host, guest} \subseteq on PROVE Match(t, on)
    <2> SUFFICES ASSUME NEW h \in Group
                 PROVE  /\ \A c \in Char : t.members[h][c] = IF t.party[c] = h THEN 1 ELSE 0
                        /\ t.leader[h] # None => t.leader[h] \in on /\ t.party[t.leader[h]] = h
                        /\ \A c \in Char : t.party[c] = h => c \in on
        BY DEF Match
    <2>1. CASE h = g
        <3>1. \A c \in Char : t.members[g][c] = IF t.party[c] = g THEN 1 ELSE 0
            <4> SUFFICES ASSUME NEW c \in Char
                         PROVE  two[c] = IF t.party[c] = g THEN 1 ELSE 0
                BY <1>5
            <4>1. CASE c \in {host, guest}
                BY <1>1, <1>3, <4>1
            <4>2. CASE c \notin {host, guest}
                <5>1. two[c] = 0 /\ t.party[c] = s.party[c] /\ s.party[c] # g
                    BY <1>1, <1>3, <4>2
                <5> QED BY ONLY <5>1
            <4> QED BY <4>1, <4>2
        <3>2. t.leader[g] \in on /\ t.party[t.leader[g]] = g
            BY <1>3, <1>5, <1>8
        <3>3. \A c \in Char : t.party[c] = g => c \in on
            BY <1>3, <1>8
        <3> QED BY <2>1, <3>1, <3>2, <3>3
    <2>2. CASE h # g
        <3>1. ASSUME NEW c \in Char PROVE t.party[c] = h <=> s.party[c] = h
            <4>1. CASE c \in {host, guest}
                <5>1. s.party[c] = None /\ t.party[c] = g /\ h # None
                    BY <1>3, <4>1, NoneIsNone
                <5> QED BY <2>2, <5>1
            <4>2. CASE c \notin {host, guest}
                BY <1>3, <4>2
            <4> QED BY <4>1, <4>2
        <3> QED BY <1>4, <1>8, <2>2, <3>1 DEF Match
    <2> QED BY <2>1, <2>2
<1> QED BY <1>6, <1>7, <1>8 DEF t

\* Joining a party that exists.
LEMMA JoinGroups ==
    ASSUME NEW s, Types(s), Known(s), NEW host \in Char, NEW guest \in Char,
           s.party[host] # None, s.party[guest] = None
    PROVE  LET t == Join(s, s.party[host], guest) IN
           /\ Types(t) /\ Known(t)
           /\ \A on \in SUBSET Char : Match(s, on) /\ guest \in on => Match(t, on)
<1> DEFINE g == s.party[host]
           t == Join(s, g, guest)
<1>1. g \in Group /\ s.leader[g] # None
    BY DEF Types, Known
<1>2. /\ t.party = [s.party EXCEPT ![guest] = g]
      /\ t.leader = s.leader
      /\ t.members = [s.members EXCEPT ![g][guest] = s.members[g][guest] + 1]
      /\ t \in [party : [Char -> Group \cup {None}], leader : [Group -> Pointer],
                members : [Group -> [Char -> Nat]]]
    <2> DEFINE n == s.members[g][guest] + 1
    <2>1. n \in Nat
        BY <1>1 DEF Types
    <2>2. t = [s EXCEPT !.party[guest] = g, !.members[g][guest] = n]
        BY DEF Join
    <2> HIDE DEF n, t
    <2>3. /\ t.party = [s.party EXCEPT ![guest] = g]
          /\ t.leader = s.leader
          /\ t.members = [s.members EXCEPT ![g][guest] = n]
          /\ t \in [party : [Char -> Group \cup {None}], leader : [Group -> Pointer],
                    members : [Group -> [Char -> Nat]]]
        BY <1>1, <2>1, <2>2 DEF Types
    <2> QED BY <2>3 DEF n
<1>3. /\ t.party[guest] = g /\ \A c \in Char \ {guest} : t.party[c] = s.party[c]
      /\ t.members[g][guest] = s.members[g][guest] + 1
      /\ \A h \in Group, c \in Char : h # g \/ c # guest => t.members[h][c] = s.members[h][c]
    BY <1>1, <1>2 DEF Types
<1> HIDE DEF t
<1>4. Types(t)
    BY <1>2 DEF Types
<1>5. Known(t)
    <2>1. s.members[g][guest] \in Nat
        BY <1>1 DEF Types
    <2> QED BY <1>1, <1>2, <1>3, <2>1 DEF Types, Known
<1>6. ASSUME NEW on \in SUBSET Char, Match(s, on), guest \in on PROVE Match(t, on)
    <2>1. \A h \in Group : s.members[h][guest] = 0
        BY <1>6, NoneIsNone DEF Match
    <2>2. \A h \in Group, c \in Char : t.members[h][c] = IF t.party[c] = h THEN 1 ELSE 0
        <3> SUFFICES ASSUME NEW h \in Group, NEW c \in Char
                     PROVE  t.members[h][c] = IF t.party[c] = h THEN 1 ELSE 0
            OBVIOUS
        <3>1. s.members[h][c] = IF s.party[c] = h THEN 1 ELSE 0
            BY <1>6 DEF Match
        <3>2. CASE c = guest
            BY <1>3, <2>1, <3>2
        <3>3. CASE c # guest
            BY <1>3, <3>1, <3>3
        <3> QED BY <3>2, <3>3
    <2>3. \A h \in Group : t.leader[h] # None =>
             t.leader[h] \in on /\ t.leader[h] \in Char \ {guest} /\ s.party[t.leader[h]] = h
        BY <1>2, <1>6, NoneIsNone DEF Match
    <2> QED BY <1>3, <1>6, <2>2, <2>3 DEF Match
<1> QED BY <1>4, <1>5, <1>6 DEF t

-----------------------------------------------------------------------------
GroupInv == online \in SUBSET Char /\ (\A c \in Char : sent[c] # c) /\ sent \in [Char -> Pointer] /\ Types(groups) /\ Known(groups)

\* What an acceptance does to the parties.
LEMMA GatherGroups ==
    ASSUME Types(groups), Known(groups), online \in SUBSET Char,
           NEW host \in online, NEW guest \in online, host # guest,
           Gather(LeaveOwn(groups, guest), host, guest)
    PROVE  /\ Types(groups') /\ Known(groups')
           /\ Match(groups, online) => Match(groups', online)
<1> DEFINE s == LeaveOwn(groups, guest)
<1>1. /\ Types(s) /\ Known(s) /\ s.party[guest] = None
      /\ Match(groups, online) => Match(s, online)
    BY LeaveOwnGroups
<1>2. Gather(s, host, guest)
    OBVIOUS
<1> HIDE DEF s
<1>3. CASE s.party[host] # None
    BY <1>1, <1>2, <1>3, JoinGroups DEF Gather
<1>4. CASE s.party[host] = None
    <2>1. PICK g \in Group : s.leader[g] = None /\ groups' = Found(s, g, host, guest)
        BY <1>2, <1>4 DEF Gather
    <2>2. host \in Char /\ guest \in Char \ {host} /\ {host, guest} \subseteq online
        OBVIOUS
    <2>3. Types(Found(s, g, host, guest)) /\ Known(Found(s, g, host, guest))
        BY <1>1, <1>4, <2>1, <2>2, FoundGroups
    <2>4. Match(s, online) => Match(Found(s, g, host, guest), online)
        BY <1>1, <1>4, <2>1, <2>2, FoundGroups
    <2> QED BY <1>1, <2>1, <2>3, <2>4
<1> QED BY <1>3, <1>4

\* An acceptance.
LEMMA AcceptGroups ==
    ASSUME GroupInv, NEW c \in Char, NEW d \in Char, Party_Accept(c, d)
    PROVE  GroupInv' /\ (Match(groups, online) => Match(groups', online'))
<1>1. c # d /\ {c, d} \subseteq online /\ online' = online
    BY DEF Party_Accept, GroupInv
<1>2. Gather(LeaveOwn(groups, d), c, d) \/ Gather(LeaveOwn(groups, c), d, c)
    BY DEF Party_Accept
<1>3. /\ Types(groups') /\ Known(groups')
      /\ Match(groups, online) => Match(groups', online)
    BY <1>1, <1>2, GatherGroups DEF GroupInv
<1>4. sent' = [sent EXCEPT ![d] = None]
    BY DEF Party_Accept
<1>5. sent' \in [Char -> Pointer] /\ \A x \in Char : sent'[x] # x
    BY <1>4, NoneIsNone DEF GroupInv, Pointer
<1> QED BY <1>1, <1>3, <1>5 DEF GroupInv

\* A logout: nobody points to a party without being in the world.
LEMMA LogoutGroups ==
    ASSUME GroupInv, NEW c \in Char, Logout(c)
    PROVE  GroupInv' /\ (Match(groups, online) => Match(groups', online'))
<1>1. groups' = LeaveOwn(groups, c) /\ online' = online \ {c} /\ sent' = sent
    BY DEF Logout, Abandon
<1>2. GroupInv' /\ groups'.party[c] = None
    BY <1>1, LeaveOwnGroups DEF GroupInv
<1>3. ASSUME Match(groups, online) PROVE Match(groups', online \ {c})
    <2>1. Match(groups', online)
        BY <1>1, <1>3, LeaveOwnGroups DEF GroupInv
    <2>2. \A g \in Group, d \in Char : groups'.party[d] = g => d # c
        BY <1>2, NoneIsNone
    <2>3. \A g \in Group : groups'.leader[g] # None => groups'.leader[g] \in Char
        BY <1>1, <2>1 DEF Match, GroupInv
    <2>4. \A g \in Group : groups'.leader[g] # None => groups'.leader[g] # c
        BY <2>1, <2>2, <2>3 DEF Match
    <2> QED BY <2>1, <2>2, <2>4 DEF Match
<1> QED BY <1>1, <1>2, <1>3

\* Every step, apart from what leaders do to members of other parties.
LEMMA StepGroups ==
    ASSUME GroupInv, [PartyNext]_party_vars
    PROVE  GroupInv' /\ (~StrayKicks /\ Match(groups, online) => Match(groups', online'))
<1>1. ASSUME NEW c \in Char, NEW d \in Char, NEW type \in {"Join", "Invite"}, Party_Request(c, d, type)
      PROVE  GroupInv' /\ UNCHANGED <<groups, online>>
    <2>1. c # d /\ sent' = [sent EXCEPT ![c] = d] /\ UNCHANGED <<groups, online>>
        BY <1>1 DEF Party_Request
    <2> QED BY <2>1 DEF GroupInv, Pointer
<1>2. ASSUME NEW c \in Char, NEW d \in Char, Party_Accept(c, d)
      PROVE  GroupInv' /\ (Match(groups, online) => Match(groups', online'))
    BY <1>2, AcceptGroups
<1>3. ASSUME NEW c \in Char, NEW d \in Char, Packet_Remove(c, d)
      PROVE  GroupInv' /\ (~StrayKicks /\ Match(groups, online) => Match(groups', online'))
    <2> DEFINE g == groups.party[c]
    <2>1. /\ g \in Group /\ groups' = Leave(groups, g, d) /\ UNCHANGED <<online, sent>>
          /\ ~StrayKicks => groups.party[d] = g
        BY <1>3 DEF Packet_Remove, GroupInv, Types
    <2> HIDE DEF g
    <2>2. Types(Leave(groups, g, d)) /\ Known(Leave(groups, g, d))
        BY <2>1, LeaveGroups DEF GroupInv
    <2>3. Match(groups, online) /\ groups.party[d] = g => Match(Leave(groups, g, d), online)
        BY <2>1, LeaveGroups DEF GroupInv
    <2> QED BY <2>1, <2>2, <2>3 DEF GroupInv
<1>4. ASSUME NEW c \in Char, Login(c)
      PROVE  GroupInv' /\ (Match(groups, online) => Match(groups', online'))
    <2>1. groups' = groups /\ online' = online \cup {c} /\ sent' = [sent EXCEPT ![c] = None]
        BY <1>4 DEF Login
    <2>2. GroupInv'
        BY <2>1, NoneIsNone DEF GroupInv, Pointer
    <2> QED BY <2>1, <2>2 DEF Match
<1>5. ASSUME NEW c \in Char, Logout(c)
      PROVE  GroupInv' /\ (Match(groups, online) => Match(groups', online'))
    BY <1>5, LogoutGroups
<1>6. CASE UNCHANGED party_vars
    BY <1>6 DEF party_vars, GroupInv
<1> QED BY <1>1, <1>2, <1>3, <1>4, <1>5, <1>6 DEF PartyNext

\* There are no parties at the start.
LEMMA InitGroups == PartyInit => GroupInv /\ Match(groups, online)
<1> SUFFICES ASSUME PartyInit PROVE GroupInv /\ Match(groups, online)
    OBVIOUS
<1>1. Types(groups) /\ Known(groups)
    BY DEF PartyInit, Types, Known, Nobody, Pointer
<1>2. Match(groups, online)
    BY NoneIsNone DEF PartyInit, Match, Nobody
<1> QED BY <1>1, <1>2, NoneIsNone DEF PartyInit, GroupInv, Pointer

\* Whoever leaders remove, no character points to a party that does not list it or
\* does not exist any more.
THEOREM MembershipIsKnown == PartySpec => []MembershipKnown
<1>1. GroupInv => MembershipKnown
    BY DEF GroupInv, Known, MembershipKnown, Alive
<1> QED BY <1>1, InitGroups, StepGroups, PTL DEF PartySpec

\* Where leaders remove only members of their own party, both records of who is in
\* a party agree, and list only characters in the world.
THEOREM MembersAgree ==
    ASSUME ~StrayKicks
    PROVE  PartySpec => []MembersMatch
<1>1. GroupInv /\ Match(groups, online) /\ [PartyNext]_party_vars => GroupInv' /\ Match(groups, online)'
    BY StepGroups DEF Match
<1>2. Match(groups, online) => MembersMatch
    BY DEF Match, MembersMatch, Alive
<1> QED BY <1>1, <1>2, InitGroups, PTL DEF PartySpec

================================================================================

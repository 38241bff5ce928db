----------------------------- MODULE RealmProofs -----------------------------
(***************************************************************************)
(* Whatever dies, spawns, logs out, warps, marries and is reloaded, what   *)
(* characters, NPCs, pets, maps and the arena remember of each other       *)
(* agrees: opponents, kills, whom characters talk to, pets and their       *)
(* owners, the counter of the arena, and who is married to whom.           *)
(***************************************************************************)
EXTENDS Realm, FunctionTheorems, FiniteSetTheorems, WellFoundedInduction, TLAPS

(***************************************************************************)
(* Numbers and lists.                                                      *)
(***************************************************************************)

LEMMA LeastOf ==
    ASSUME NEW I, I \subseteq Nat, I # {}
    PROVE  \E i \in I : \A j \in I : i <= j
<1>1. PICK i \in I : \A j \in I : ~ (<<j, i>> \in OpToRel(<, Nat))
    BY Zenon, NatLessThanWellFounded, WFMin
<1>2. \A j \in I : i <= j
    <2> SUFFICES ASSUME NEW j \in I PROVE i <= j
        OBVIOUS
    <2>1. ~ (<<j, i>> \in {z \in Nat \X Nat : z[1] < z[2]})
        BY <1>1 DEF OpToRel
    <2>2. <<j, i>> \in Nat \X Nat
        OBVIOUS
    <2> QED BY <2>1, <2>2
<1> QED BY <1>2

LEMMA GreatestOf ==
    ASSUME NEW n \in Nat, NEW I, I \subseteq 1..n, I # {}
    PROVE  \E i \in I : \A j \in I : j <= i
<1> DEFINE J == {n - i : i \in I}
<1>1. J \subseteq Nat /\ J # {}
    OBVIOUS
<1>2. PICK k \in J : \A j \in J : k <= j
    BY <1>1, LeastOf
<1>3. PICK i \in I : k = n - i
    BY <1>2
<1>4. \A j \in I : n - i <= n - j
    BY <1>2, <1>3
<1>5. \A j \in I : j <= i
    BY <1>4
<1> QED BY <1>5

\* What is erased from a vector is what is missing from it.
LEMMA ErasedList ==
    ASSUME NEW list \in Seq(Object), NEW D
    PROVE  /\ Erased(list, D) \in Seq(Object)
           /\ ToSet(Erased(list, D)) = ToSet(list) \ D
<1> DEFINE I == {i \in DOMAIN list : list[i] \notin D}
           upto(i) == {j \in I : j <= i}
           size == Cardinality(I)
           place == [i \in I |-> Cardinality(upto(i))]
           at(k) == CHOOSE i \in I : Cardinality(upto(i)) = k
<1>1. PICK n \in Nat : n = Len(list) /\ DOMAIN list = 1..n
    OBVIOUS
<1>2. IsFiniteSet(I) /\ size \in Nat /\ I \subseteq 1..n
    <2>1. I \subseteq 1..n
        BY <1>1
    <2> HIDE DEF I
    <2>2. IsFiniteSet(1..n)
        BY FS_Interval
    <2> QED BY <2>1, <2>2, FS_Subset, FS_CardinalityType
<1>3. Erased(list, D) = [k \in 1..size |-> list[at(k)]]
    BY DEF Erased
<1>4. \A i \in I : i \in DOMAIN list /\ list[i] \in Object \ D
    OBVIOUS
<1>5. \A i \in 1..n : list[i] \notin D => i \in I
    BY <1>1
<1> HIDE DEF I
<1>6. ASSUME NEW i \in I
      PROVE  IsFiniteSet(upto(i)) /\ Cardinality(upto(i)) \in 1..size
    <2>1. upto(i) \subseteq I /\ i \in upto(i)
        BY <1>2
    <2> HIDE DEF upto
    <2>2. IsFiniteSet(upto(i)) /\ Cardinality(upto(i)) <= size /\ Cardinality(upto(i)) \in Nat
        BY <1>2, <2>1, FS_Subset, FS_CardinalityType
    <2>3. Cardinality(upto(i)) # 0
        BY <2>1, <2>2, FS_EmptySet
    <2> QED BY <1>2, <2>2, <2>3
<1>7. ASSUME NEW i \in I, NEW j \in I, i < j
      PROVE  Cardinality(upto(i)) < Cardinality(upto(j))
    <2>4. \A x \in I : x \in Nat
        BY <1>2
    <2>1. upto(i) \subseteq upto(j) /\ j \in upto(j) /\ j \notin upto(i)
        BY <1>7, <2>4
    <2> HIDE DEF upto, size
    <2>2. IsFiniteSet(upto(j)) /\ Cardinality(upto(i)) \in Nat /\ Cardinality(upto(j)) \in Nat
        BY <1>2, <1>6
    <2>3. Cardinality(upto(i)) <= Cardinality(upto(j))
          /\ Cardinality(upto(i)) # Cardinality(upto(j))
        BY <2>1, <2>2, FS_Subset
    <2> QED BY <2>2, <2>3
<1> HIDE DEF upto, size
<1>8. place \in [I -> 1..size] /\ \A i, j \in I : place[i] = place[j] => i = j
    <2>1. place \in [I -> 1..size]
        BY <1>6
    <2>2. \A i, j \in I : place[i] = place[j] => ~(i < j) /\ ~(j < i)
        BY <1>2, <1>6, <1>7
    <2> QED BY <1>2, <2>1, <2>2
<1>9. \A k \in 1..size : \E i \in I : place[i] = k
    <2> HIDE DEF place
    <2>1. place \in Injection(I, 1..size)
        BY <1>8, Fun_IsInj
    <2>2. IsFiniteSet(1..size) /\ Cardinality(1..size) = size
        <3>1. 1 \in Int /\ size \in Int
            BY <1>2
        <3>2. IsFiniteSet(1..size) /\ Cardinality(1..size) = IF 1 > size THEN 0 ELSE size - 1 + 1
            BY <3>1, FS_Interval
        <3> QED BY <1>2, <3>2
    <2>3. place \in Surjection(I, 1..size)
        BY <2>1, <2>2, FS_Injection DEF size
    <2> QED BY <2>3, Fun_SurjectionProperties
<1>10. \A k \in 1..size : at(k) \in I /\ Cardinality(upto(at(k))) = k
    <2> SUFFICES ASSUME NEW k \in 1..size
                 PROVE  at(k) \in I /\ Cardinality(upto(at(k))) = k
        OBVIOUS
    <2>1. \E i \in I : Cardinality(upto(i)) = k
        BY <1>9
    <2> QED BY <2>1
<1>11. \A i \in I : place[i] \in 1..size /\ at(place[i]) = i
    BY <1>8, <1>10
<1> HIDE DEF at, place
<1>12. Erased(list, D) \in Seq(Object) /\ DOMAIN Erased(list, D) = 1..size
       /\ \A k \in 1..size : Erased(list, D)[k] = list[at(k)]
    <2> DEFINE g == [k \in 1..size |-> list[at(k)]]
    <2>1. g \in [1..size -> Object]
        BY <1>4, <1>10
    <2>2. DOMAIN g = 1..size /\ \A k \in 1..size : g[k] = list[at(k)]
        OBVIOUS
    <2> HIDE DEF g
    <2>3. g \in Seq(Object)
        BY <1>2, <2>1
    <2> QED BY <1>3, <2>2, <2>3 DEF g
<1> DEFINE e == Erased(list, D)
<1> HIDE DEF e
<1>13. ASSUME NEW o \in ToSet(e) PROVE o \in ToSet(list) \ D
    <2>1. PICK k \in 1..size : o = list[at(k)]
        BY <1>12, <1>13 DEF ToSet, e
    <2> QED BY <1>4, <1>10, <2>1 DEF ToSet
<1>14. ASSUME NEW o \in ToSet(list) \ D PROVE o \in ToSet(e)
    <2>1. PICK i \in I : o = list[i]
        BY <1>1, <1>5, <1>14 DEF ToSet
    <2>2. place[i] \in DOMAIN e /\ e[place[i]] = o
        BY <1>11, <1>12, <2>1 DEF e
    <2> QED BY <2>2 DEF ToSet
<1> QED BY <1>12, <1>13, <1>14 DEF e

\* The order in which a set is listed adds nothing to it.
LEMMA ListOfSet ==
    ASSUME NEW S, IsFiniteSet(S)
    PROVE  SetToSeq(S) \in Seq(S) /\ ToSet(SetToSeq(S)) = S
<1> DEFINE n == Cardinality(S)
           f == SetToSeq(S)
<1>1. n \in Nat /\ ExistsBijection(1..n, S)
    BY FS_CardinalityType
<1>2. IsFiniteSet(1..n) /\ Cardinality(1..n) = n
    <2> HIDE DEF n
    <2>1. 1 \in Int /\ n \in Int
        BY <1>1
    <2>2. IsFiniteSet(1..n) /\ Cardinality(1..n) = IF 1 > n THEN 0 ELSE n - 1 + 1
        BY <2>1, FS_Interval
    <2> QED BY <1>1, <2>2
<1>3. f \in [1..n -> S] /\ IsInjective(f)
    <2>1. PICK g : g \in Bijection(1..n, S)
        BY <1>1 DEF ExistsBijection
    <2>2. g \in [1..n -> S] /\ IsInjective(g)
        BY <2>1 DEF Bijection, Injection
    <2> QED BY <2>2 DEF SetToSeq
<1> HIDE DEF f
<1>4. f \in Injection(1..n, S)
    BY <1>3 DEF Injection
<1>5. f \in Surjection(1..n, S)
    <2> HIDE DEF n
    <2>1. IsFiniteSet(1..n) /\ Cardinality(1..n) = Cardinality(S)
        BY <1>2 DEF n
    <2> QED BY <1>4, <2>1, FS_Injection
<1> HIDE DEF n
<1>6. \A x \in S : \E i \in 1..n : f[i] = x
    BY <1>5 DEF Surjection
<1>7. f \in Seq(S) /\ DOMAIN f = 1..n /\ \A i \in 1..n : f[i] \in S
    BY <1>1, <1>3
<1>8. ToSet(f) = S
    <2>1. \A x \in ToSet(f) : x \in S
        BY <1>7 DEF ToSet
    <2>2. \A x \in S : x \in ToSet(f)
        BY <1>6, <1>7 DEF ToSet
    <2> QED BY <2>1, <2>2
<1> QED BY <1>7, <1>8 DEF f

LEMMA AppendedList ==
    ASSUME NEW list \in Seq(Object), NEW more \in Seq(Object)
    PROVE  list \o more \in Seq(Object) /\ ToSet(list \o more) = ToSet(list) \union ToSet(more)
<1> DEFINE l == list \o more
<1>1. PICK m \in Nat, n \in Nat : m = Len(list) /\ n = Len(more)
    OBVIOUS
<1>2. /\ l \in Seq(Object) /\ DOMAIN l = 1..(m + n) /\ DOMAIN list = 1..m /\ DOMAIN more = 1..n
      /\ \A i \in 1..m : l[i] = list[i]
      /\ \A i \in 1..n : l[m + i] = more[i]
    BY <1>1
<1>3. \A i \in 1..(m + n) : i \in 1..m \/ (i - m \in 1..n /\ i = m + (i - m))
    BY <1>1
<1> HIDE DEF l
<1>4. ASSUME NEW o \in ToSet(l) PROVE o \in ToSet(list) \union ToSet(more)
    <2>1. PICK i \in 1..(m + n) : l[i] = o
        BY <1>2, <1>4 DEF ToSet
    <2> QED BY <1>2, <1>3, <2>1 DEF ToSet
<1>5. ASSUME NEW o \in ToSet(list) PROVE o \in ToSet(l)
    <2>1. PICK i \in 1..m : list[i] = o
        BY <1>2, <1>5 DEF ToSet
    <2>2. i \in 1..(m + n) /\ l[i] = o
        BY <1>2, <2>1
    <2> QED BY <1>2, <2>2 DEF ToSet
<1>6. ASSUME NEW o \in ToSet(more) PROVE o \in ToSet(l)
    <2>1. PICK i \in 1..n : more[i] = o
        BY <1>2, <1>6 DEF ToSet
    <2>2. m + i \in 1..(m + n) /\ l[m + i] = o
        BY <1>2, <2>1
    <2> QED BY <1>2, <2>2 DEF ToSet
<1> QED BY <1>2, <1>4, <1>5, <1>6 DEF l

(***************************************************************************)
(* NPCs.                                                                   *)
(***************************************************************************)

\* What other parts of the server know of an NPC.
Alike(n, k) == n.damage = k.damage /\ n.owner = k.owner /\ n.marriage = k.marriage

LEMMA NotFree == \A n \in NpcState : n # Free
    BY NoneIsNothing DEF Free

LEMMA FreshState ==
    ASSUME NEW c \in Char \union {None}
    PROVE  /\ Fresh(c) \in NpcState /\ Fresh(c).owner = c /\ Fresh(c).marriage = None
           /\ Fresh(c).killowner = None /\ \A d \in Char : Fresh(c).damage[d] = None
    BY MaxHpIsPositive DEF Fresh, NpcState

LEMMA SpawnedState ==
    ASSUME NEW n \in NpcState, NEW parent \in Object \union {None}
    PROVE  LET k == Spawned(n, parent) IN
           /\ k \in NpcState /\ Alike(n, k) /\ k.alive = TRUE /\ k.killowner = n.killowner
<1> DEFINE k == Spawned(n, parent)
           mother == IF parent = None THEN n.parent ELSE parent
<1>1. mother \in Object \union {None} /\ MaxHp \in Int
    BY MaxHpIsPositive DEF NpcState
<1>2. k = [n EXCEPT !.alive = TRUE, !.hp = MaxHp, !.parent = mother]
    BY DEF Spawned, NpcState
<1> HIDE DEF k, mother
<1>3. k \in NpcState /\ Alike(n, k) /\ k.alive = TRUE /\ k.killowner = n.killowner
    BY <1>1, <1>2 DEF NpcState, Alike
<1> QED BY <1>3 DEF k

LEMMA ForgottenState ==
    ASSUME NEW n \in NpcState
    PROVE  LET k == Forgotten(n) IN
           /\ k \in NpcState /\ k.owner = n.owner /\ k.marriage = n.marriage
           /\ k.killowner = n.killowner /\ k.alive = n.alive /\ \A d \in Char : k.damage[d] = None
<1> DEFINE k == Forgotten(n)
           damage == [c \in Char |-> None]
<1>1. damage \in [Char -> Int \union {None}] /\ \A d \in Char : damage[d] = None
    OBVIOUS
<1> DEFINE zero == 0
           mid == [n EXCEPT !.damage = damage]
<1>2. k = [mid EXCEPT !.total = zero] /\ zero \in Int
    BY DEF Forgotten
<1> HIDE DEF k, damage, zero
<1>4. /\ mid \in NpcState /\ mid.owner = n.owner /\ mid.marriage = n.marriage
      /\ mid.killowner = n.killowner /\ mid.alive = n.alive /\ mid.damage = damage
    BY <1>1 DEF NpcState
<1> HIDE DEF mid
<1>3. /\ k \in NpcState /\ k.owner = n.owner /\ k.marriage = n.marriage
      /\ k.killowner = n.killowner /\ k.alive = n.alive /\ k.damage = damage
    BY <1>2, <1>4 DEF NpcState
<1> QED BY <1>1, <1>3 DEF k

LEMMA DeadState ==
    ASSUME NEW n \in NpcState
    PROVE  LET k == [n EXCEPT !.alive = FALSE]
               l == [n EXCEPT !.alive = FALSE, !.parent = None]
           IN  /\ k \in NpcState /\ Alike(n, k) /\ k.killowner = n.killowner /\ k.alive = FALSE
               /\ l \in NpcState /\ Alike(n, l) /\ l.killowner = n.killowner /\ l.alive = FALSE
    BY DEF NpcState, Alike

LEMMA WedState ==
    ASSUME NEW n \in NpcState, NEW m \in Marriages \union {None}
    PROVE  LET k == [n EXCEPT !.marriage = m] IN
           /\ k \in NpcState /\ k.marriage = m /\ k.damage = n.damage /\ k.owner = n.owner
           /\ k.alive = n.alive /\ k.killowner = n.killowner
    BY DEF NpcState

LEMMA OwnedState ==
    ASSUME NEW n \in NpcState, NEW c \in Char \union {None}
    PROVE  LET k == [n EXCEPT !.killowner = c] IN
           /\ k \in NpcState /\ Alike(n, k) /\ k.alive = n.alive /\ k.killowner = c
    BY DEF NpcState, Alike

LEMMA HealedState ==
    ASSUME NEW n \in NpcState, NEW hp \in Int
    PROVE  LET k == [n EXCEPT !.hp = hp] IN
           /\ k \in NpcState /\ Alike(n, k) /\ k.alive = n.alive /\ k.killowner = n.killowner
    BY DEF NpcState, Alike

\* Who leaves is no longer an opponent.
LEMMA LeftState ==
    ASSUME NEW n \in NpcState, NEW c \in Char, n.damage[c] # None
    PROVE  LET k == [n EXCEPT !.total = @ - n.damage[c], !.damage[c] = None] IN
           /\ k \in NpcState /\ k.owner = n.owner /\ k.marriage = n.marriage
           /\ k.killowner = n.killowner /\ k.alive = n.alive
           /\ k.damage[c] = None /\ \A d \in Char \ {c} : k.damage[d] = n.damage[d]
<1> DEFINE k == [n EXCEPT !.total = @ - n.damage[c], !.damage[c] = None]
<1>1. n.damage[c] \in Int /\ n.total \in Int /\ n.damage \in [Char -> Int \union {None}]
    BY DEF NpcState
<1>2. n.total - n.damage[c] \in Int
    BY <1>1
<1>3. [n.damage EXCEPT ![c] = None] \in [Char -> Int \union {None}]
    BY <1>1
<1> DEFINE total == n.total - n.damage[c]
           damage == [n.damage EXCEPT ![c] = None]
<1>4. k = [n EXCEPT !.total = total, !.damage = damage]
    BY DEF NpcState
<1>5. damage[c] = None /\ \A d \in Char \ {c} : damage[d] = n.damage[d]
    BY <1>1
<1> HIDE DEF total, damage, k
<1>6. /\ k \in NpcState /\ k.owner = n.owner /\ k.marriage = n.marriage
      /\ k.killowner = n.killowner /\ k.alive = n.alive /\ k.damage = damage
    BY <1>2, <1>3, <1>4 DEF NpcState, total, damage
<1> QED BY <1>5, <1>6 DEF k

\* A pointer to a partner of a wedding.
LEMMA PartedState ==
    ASSUME NEW n \in NpcState, NEW c \in Char
    PROVE  LET k == Parted(n, c) IN
           /\ k \in NpcState /\ k.owner = n.owner /\ k.damage = n.damage
           /\ k.killowner = n.killowner /\ k.alive = n.alive
           /\ k.marriage # None => n.marriage # None /\ k.marriage.partner =
                  [i \in 1..2 |-> IF n.marriage.partner[i] = c THEN Dangling
                                  ELSE n.marriage.partner[i]]
<1> DEFINE m == n.marriage
           partner == [i \in 1..2 |-> IF m.partner[i] = c THEN Dangling ELSE m.partner[i]]
           w == [m EXCEPT !.partner = partner]
<1>1. CASE m = None
    BY <1>1 DEF Parted
<1>2. CASE m # None
    <2>1. m \in Marriages
        BY <1>2 DEF NpcState
    <2>2. Parted(n, c) = [n EXCEPT !.marriage = w]
        BY <1>2, <2>1 DEF Parted, NpcState, Marriages
    <2>3. partner \in [1..2 -> Char \union {Dangling}]
        BY <2>1 DEF Marriages
    <2> HIDE DEF partner
    <2>4. w \in Marriages /\ w.partner = partner
        BY <2>1, <2>3 DEF Marriages
    <2> HIDE DEF w
    <2>5. LET k == Parted(n, c) IN
          /\ k \in NpcState /\ k.owner = n.owner /\ k.damage = n.damage
          /\ k.killowner = n.killowner /\ k.alive = n.alive /\ k.marriage = w
        BY <2>2, <2>4, WedState
    <2> QED BY <1>2, <2>4, <2>5 DEF partner
<1> QED BY <1>1, <1>2

\* What is done to an NPC is counted, if it is counted at all, for who has done it.
LEMMA StruckState ==
    ASSUME NEW n \in NpcState, NEW o, NEW c \in Char, NEW amount \in Int
    PROVE  LET k == Struck(n, o, c, amount) IN
           /\ k \in NpcState /\ k.owner = n.owner /\ k.marriage = n.marriage /\ k.alive = n.alive
           /\ \A d \in Char \ {c} : k.damage[d] = n.damage[d]
           /\ n.damage[c] # None => k.damage[c] # None
           /\ k.killowner = n.killowner \/ (k.killowner = c /\ k.damage[c] # None)
<1> DEFINE limited == Least(n.hp, amount)
           counted == [n EXCEPT !.total = @ + limited]
           given == IF n.damage[c] = None THEN limited ELSE n.damage[c] + limited
           damage == [n.damage EXCEPT ![c] = given]
           hp == n.hp - limited
           hurt == [counted EXCEPT !.hp = hp, !.damage = damage]
           m == HitBy(n, o, c, amount)
           k == Struck(n, o, c, amount)
<1>1. /\ n.hp \in Int /\ n.total \in Int /\ n.damage \in [Char -> Int \union {None}]
      /\ limited \in Int
    BY DEF NpcState, Least
<1>2. given \in Int /\ hp \in Int /\ n.total + limited \in Int
    BY <1>1
<1>3. /\ damage \in [Char -> Int \union {None}] /\ damage[c] # None
      /\ \A d \in Char \ {c} : damage[d] = n.damage[d]
    <2> HIDE DEF given
    <2>1. given # None
        BY <1>2, NoneIsNothing
    <2> QED BY <1>1, <1>2, <2>1
<1>4. counted \in NpcState /\ Alike(n, counted) /\ counted.alive = n.alive
      /\ counted.killowner = n.killowner
    <2> HIDE DEF limited
    <2>1. counted = [n EXCEPT !.total = n.total + limited]
        BY DEF NpcState
    <2> QED BY <1>2, <2>1 DEF NpcState, Alike
<1>5. m = IF Protected(n, o, c) THEN counted ELSE hurt
    <2>1. counted.hp = n.hp /\ counted.damage = n.damage
        BY DEF NpcState
    <2> HIDE DEF limited
    <2> QED BY <2>1 DEF HitBy, limited
<1> HIDE DEF limited, counted, given, damage, hp
<1>6. /\ hurt \in NpcState /\ hurt.owner = n.owner /\ hurt.marriage = n.marriage
      /\ hurt.alive = n.alive /\ hurt.killowner = n.killowner /\ hurt.damage = damage
    BY <1>2, <1>3, <1>4 DEF NpcState, Alike
<1> HIDE DEF hurt, m
<1>7. /\ m \in NpcState /\ m.owner = n.owner /\ m.marriage = n.marriage /\ m.alive = n.alive
      /\ m.killowner = n.killowner
      /\ \A d \in Char \ {c} : m.damage[d] = n.damage[d]
      /\ n.damage[c] # None => m.damage[c] # None
      /\ n.killowner = None => m.damage[c] # None
    <2>1. CASE Protected(n, o, c)
        BY <1>4, <1>5, <2>1 DEF Alike, Protected
    <2>2. CASE ~Protected(n, o, c)
        BY <1>3, <1>5, <1>6, <2>2
    <2> QED BY <2>1, <2>2
<1>8. k = m \/ (n.killowner = None /\ k = [m EXCEPT !.killowner = c])
    BY <1>7 DEF Struck, m
<1> HIDE DEF k
<1>9. [m EXCEPT !.killowner = c] \in NpcState
      /\ Alike(m, [m EXCEPT !.killowner = c]) /\ [m EXCEPT !.killowner = c].alive = m.alive
      /\ [m EXCEPT !.killowner = c].killowner = c
    BY <1>7, OwnedState
<1>10. CASE k = m
    BY <1>7, <1>10 DEF k
<1>11. CASE n.killowner = None /\ k = [m EXCEPT !.killowner = c]
    <2>1. k \in NpcState /\ Alike(m, k) /\ k.alive = m.alive /\ k.killowner = c
        BY <1>9, <1>11
    <2> QED BY <1>7, <1>11, <2>1 DEF Alike, k
<1> QED BY <1>8, <1>10, <1>11

(***************************************************************************)
(* What handlers work on.                                                  *)
(***************************************************************************)

Shape(S) ==
    /\ S = [where |-> S.where, unregister |-> S.unregister, pet |-> S.pet, npc |-> S.npc,
            arena |-> S.arena, npcs |-> S.npcs, object |-> S.object]
    /\ S.where \in [Char -> Map \union {None}]
    /\ S.unregister \in [Char -> SUBSET Object]
    /\ S.pet \in [Char -> Pet \union {None}]
    /\ S.npc \in [Char -> Object \union {None}]
    /\ S.npcs \in [Map -> Seq(Object)]
    /\ S.object \in [Object -> NpcState \union {Free}]

\* Characters and NPCs agree on who fights whom.
Matched(S) ==
    \A c \in Char :
        /\ S.where[c] = None => S.unregister[c] = {}
        /\ \A o \in S.unregister[c] : S.object[o] # Free /\ S.object[o].damage[c] # None
        /\ \A o \in Object : S.object[o] # Free /\ S.object[o].damage[c] # None =>
               o \in S.unregister[c]

\* What is on a map is in memory, and NPCs are at home.
Placed(S) ==
    /\ \A m \in Map : \A o \in OnMap(S, m) : S.object[o] # Free
    /\ OnMap(S, Elsewhere) \subseteq Pet
    /\ \A o \in Temporary : S.object[o] # Free => o \in OnMap(S, Home)

\* Pets follow their owners, but for those in P, which have just died.  Where administrators
\* reload maps from afar, the pets of others may be deleted.
Followed(S, P) ==
    /\ \A c \in Char : S.pet[c] # None =>
          /\ S.where[c] # None /\ S.pet[c] \notin P
          /\ S.object[S.pet[c]] = Free => RemoteReloads
          /\ S.object[S.pet[c]] # Free =>
                /\ S.pet[c] \in OnMap(S, S.where[c]) /\ S.object[S.pet[c]].alive = TRUE
                /\ S.object[S.pet[c]].owner = c
    /\ \A m \in Map : \A o \in (OnMap(S, m) \intersect Pet) \ P :
          LET c == S.object[o].owner IN c \in Char /\ S.pet[c] = o /\ S.where[c] = m

\* Who talks to an NPC is on its map.
Talking(S) ==
    \A c \in Char : S.npc[c] # None =>
        /\ S.where[c] # None /\ S.object[S.npc[c]] # Free
        /\ S.npc[c] \notin Pet => S.npc[c] \in OnMap(S, S.where[c])
        /\ \A m \in Map : S.npc[c] \in OnMap(S, m) => S.where[c] = m

\* Kills belong to opponents, but for NPCs in E, which are about to die.
Owned(S, E) ==
    \A m \in Map : \A o \in OnMap(S, m) :
        LET n == S.object[o] IN
        n.killowner # None =>
            /\ S.where[n.killowner] # None
            /\ n.alive = TRUE /\ o \notin Child /\ o \notin E => n.damage[n.killowner] # None

Sane(S, P, E) ==
    Shape(S) /\ Matched(S) /\ Placed(S) /\ Followed(S, P) /\ Talking(S) /\ Owned(S, E)

\* NPCs of the file stay on their map while it is loaded.
Rooted(S) == Npc \subseteq OnMap(S, Home)

\* No ceremony is new, and those who are where they were are counted as they were.
Weds(S, T) ==
    \A o \in Object : T.object[o] # Free /\ T.object[o].marriage # None =>
        S.object[o] # Free /\ T.object[o].marriage = S.object[o].marriage
Stay(S, T) == T.where = S.where /\ T.arena = S.arena
Quiet(S, T) == Weds(S, T) /\ Stay(S, T)
Steady(S, T) == Quiet(S, T) /\ (Rooted(S) => Rooted(T))

LEMMA QuietTwice ==
    ASSUME NEW S, NEW T, NEW U, Quiet(S, T), Quiet(T, U)
    PROVE  Quiet(S, U)
    BY DEF Quiet, Weds, Stay

LEMMA SteadyTwice ==
    ASSUME NEW S, NEW T, NEW U, Steady(S, T), Steady(T, U)
    PROVE  Steady(S, U)
    BY QuietTwice DEF Steady

LEMMA MapsApart == Home \in Map /\ Elsewhere \in Map /\ Home # Elsewhere /\ ArenaMap \in Map
                   /\ None \notin Map \union Char \union Object /\ Map = {Home, Elsewhere}
    BY KindsAreApart DEF Map

\* An NPC that changes stays what others know of it.
Fits(n, k, o, P, E, F) ==
    /\ n = Free => k = Free
    /\ n # Free =>
          /\ k # Free /\ k.damage = n.damage /\ k.owner = n.owner
          /\ o \in Pet \ P => k.alive = n.alive
          /\ k.killowner = None \/ k.killowner = n.killowner
          /\ k.alive = TRUE /\ o \notin Child /\ o \notin F /\ k.killowner # None =>
                n.alive = TRUE /\ o \notin E

LEMMA ObjectsSane ==
    ASSUME NEW S, NEW T, NEW P, NEW E, NEW F, Sane(S, P, E), Shape(T), T.where = S.where,
           T.unregister = S.unregister, T.pet = S.pet, T.npc = S.npc, T.npcs = S.npcs,
           \A o \in Object : Fits(S.object[o], T.object[o], o, P, E, F)
    PROVE  Sane(T, P, F)
<1> USE DEF Sane
<1>1. \A m : OnMap(T, m) = OnMap(S, m)
    BY DEF OnMap
<1>2. \A m \in Map : \A o \in OnMap(S, m) : o \in Object
    BY DEF OnMap, ToSet, Shape
<1>3. Matched(T)
    BY DEF Matched, Fits, Shape
<1>4. Placed(T)
    BY <1>1, <1>2, KindsAreApart DEF Placed, Fits, Object
<1>5. Followed(T, P)
    <2>1. ASSUME NEW c \in Char, T.pet[c] # None
          PROVE  /\ T.where[c] # None /\ T.pet[c] \notin P
                 /\ T.object[T.pet[c]] = Free => RemoteReloads
                 /\ T.object[T.pet[c]] # Free =>
                      /\ T.pet[c] \in OnMap(T, T.where[c]) /\ T.object[T.pet[c]].alive = TRUE
                      /\ T.object[T.pet[c]].owner = c
        <3>1. S.pet[c] \in Object /\ S.pet[c] \in Pet
            BY <2>1 DEF Shape, Object
        <3> QED BY <1>1, <2>1, <3>1 DEF Followed, Fits
    <2>2. ASSUME NEW m \in Map, NEW o \in (OnMap(T, m) \intersect Pet) \ P
          PROVE  LET c == T.object[o].owner IN c \in Char /\ T.pet[c] = o /\ T.where[c] = m
        <3>1. o \in Object /\ o \in OnMap(S, m) /\ T.object[o].owner = S.object[o].owner
            BY <1>1, <1>2, <2>2 DEF Placed, Fits
        <3> QED BY <2>2, <3>1 DEF Followed
    <2> QED BY <2>1, <2>2 DEF Followed
<1>6. Talking(T)
    BY <1>1 DEF Talking, Fits, Shape
<1>7. Owned(T, F)
    BY <1>1, <1>2 DEF Owned, Fits, Placed
<1> QED BY <1>3, <1>4, <1>5, <1>6, <1>7

LEMMA OnMapObjects ==
    ASSUME NEW S, Shape(S)
    PROVE  \A m \in Map : S.npcs[m] \in Seq(Object) /\ \A o \in OnMap(S, m) : o \in Object
    BY DEF OnMap, ToSet, Shape

LEMMA ForgetFields ==
    ASSUME NEW S, Shape(S), NEW D, \A o \in Object : o \in D => S.object[o] # Free
    PROVE  LET T == Forget(S, D) IN
           /\ Shape(T) /\ T.where = S.where /\ T.pet = S.pet /\ T.npc = S.npc
           /\ T.arena = S.arena /\ T.npcs = S.npcs
           /\ \A c \in Char : T.unregister[c] =
                S.unregister[c] \ {o \in D : c \in Opponents(S.object[o])}
           /\ \A o \in Object : T.object[o] = IF o \in D THEN Forgotten(S.object[o]) ELSE S.object[o]
<1> DEFINE T == Forget(S, D)
           u == [c \in Char |-> S.unregister[c] \ {o \in D : c \in Opponents(S.object[o])}]
           b == [o \in Object |-> IF o \in D THEN Forgotten(S.object[o]) ELSE S.object[o]]
<1>1. T = [S EXCEPT !.unregister = u, !.object = b]
    BY DEF Forget, Shape
<1>2. u \in [Char -> SUBSET Object]
    BY DEF Shape
<1>3. b \in [Object -> NpcState \union {Free}]
    <2> SUFFICES ASSUME NEW o \in Object PROVE b[o] \in NpcState \union {Free}
        OBVIOUS
    <2>1. o \in D => S.object[o] \in NpcState
        BY DEF Shape
    <2> QED BY <2>1, ForgottenState DEF Shape
<1> DEFINE kept == [c \in Char |-> S.unregister[c] \ {o \in D : c \in Opponents(S.object[o])}]
<1>4. /\ \A c \in Char : u[c] = S.unregister[c] \ {o \in D : c \in Opponents(S.object[o])}
      /\ \A o \in Object : b[o] = IF o \in D THEN Forgotten(S.object[o]) ELSE S.object[o]
    OBVIOUS
<1> HIDE DEF T, u, b
<1>5. T = [where |-> S.where, unregister |-> u, pet |-> S.pet, npc |-> S.npc,
           arena |-> S.arena, npcs |-> S.npcs, object |-> b]
    BY <1>1 DEF Shape
<1>6. /\ T.where = S.where /\ T.pet = S.pet /\ T.npc = S.npc /\ T.arena = S.arena
      /\ T.npcs = S.npcs /\ T.unregister = u /\ T.object = b
    BY <1>5
<1>7. Shape(T)
    BY <1>2, <1>3, <1>5, <1>6 DEF Shape
<1> QED BY <1>4, <1>6, <1>7 DEF T

\* NPCs in memory that forget, and others that do not.
InMemory(S, D) == D \subseteq Object /\ \A o \in D : S.object[o] # Free
Forgets(S, T, D) ==
    /\ T.npcs = S.npcs /\ T.pet = S.pet
    /\ \A o \in Object \ D : T.object[o] = S.object[o]
    /\ \A o \in D : /\ T.object[o] # Free
                    /\ \A c \in Char : T.object[o].damage[c] = None
                    /\ T.object[o].owner = S.object[o].owner

\* Who dies or is deleted is forgotten first.
LEMMA ForgetSane ==
    ASSUME NEW S, NEW P, NEW E, NEW F, NEW D, Sane(S, P, E), InMemory(S, D), F = E \union D
    PROVE  Sane(Forget(S, D), P, F) /\ Quiet(S, Forget(S, D)) /\ Forgets(S, Forget(S, D), D)
<1> USE DEF Sane, InMemory
<1> DEFINE T == Forget(S, D)
<1>1. /\ Shape(T) /\ T.where = S.where /\ T.pet = S.pet /\ T.npc = S.npc
      /\ T.arena = S.arena /\ T.npcs = S.npcs
      /\ \A c \in Char : T.unregister[c] =
            S.unregister[c] \ {o \in D : c \in Opponents(S.object[o])}
      /\ \A o \in Object : T.object[o] = IF o \in D THEN Forgotten(S.object[o]) ELSE S.object[o]
    BY ForgetFields
<1> HIDE DEF T
<1>2. \A o \in D : S.object[o] \in NpcState /\ o \in Object
    BY DEF Shape
<1>3. \A o \in D : /\ T.object[o] # Free /\ \A c \in Char : T.object[o].damage[c] = None
                   /\ T.object[o].owner = S.object[o].owner
                   /\ T.object[o].alive = S.object[o].alive
                   /\ T.object[o].marriage = S.object[o].marriage
                   /\ T.object[o].killowner = S.object[o].killowner
    BY <1>1, <1>2, ForgottenState, NotFree
<1>4. \A o \in Object \ D : T.object[o] = S.object[o]
    BY <1>1
<1>5. \A m : OnMap(T, m) = OnMap(S, m)
    BY <1>1 DEF OnMap
<1>6. \A m \in Map : \A o \in OnMap(S, m) : o \in Object
    BY OnMapObjects
<1>7. Matched(T)
    <2> SUFFICES ASSUME NEW c \in Char
                 PROVE  /\ S.where[c] = None => T.unregister[c] = {}
                        /\ \A o \in T.unregister[c] :
                              T.object[o] # Free /\ T.object[o].damage[c] # None
                        /\ \A o \in Object : T.object[o] # Free /\ T.object[o].damage[c] # None =>
                              o \in T.unregister[c]
        BY <1>1 DEF Matched
    <2>1. S.where[c] = None => T.unregister[c] = {}
        BY <1>1 DEF Matched
    <2>2. ASSUME NEW o \in T.unregister[c]
          PROVE  T.object[o] # Free /\ T.object[o].damage[c] # None
        <3>1. o \in S.unregister[c] /\ o \in Object
              /\ S.object[o] # Free /\ S.object[o].damage[c] # None
            BY <1>1, <2>2 DEF Matched, Shape
        <3>2. o \notin D
            BY <1>1, <2>2, <3>1 DEF Opponents
        <3> QED BY <1>4, <3>1, <3>2
    <2>3. ASSUME NEW o \in Object, T.object[o] # Free, T.object[o].damage[c] # None
          PROVE  o \in T.unregister[c]
        <3>1. o \notin D
            BY <1>3, <2>3
        <3>2. o \in S.unregister[c]
            BY <1>4, <2>3, <3>1 DEF Matched
        <3> QED BY <1>1, <3>1, <3>2
    <2> QED BY <2>1, <2>2, <2>3
<1>8. Placed(T)
    BY <1>3, <1>4, <1>5, <1>6, KindsAreApart DEF Placed, Object
<1>9. Followed(T, P)
    <2>1. \A o \in Object : /\ T.object[o] = Free <=> S.object[o] = Free
                            /\ S.object[o] # Free => T.object[o].alive = S.object[o].alive
                                                     /\ T.object[o].owner = S.object[o].owner
        BY <1>3, <1>4
    <2>2. \A c \in Char : S.pet[c] # None => S.pet[c] \in Object
        BY DEF Shape, Object
    <2>3. \A m \in Map : \A o \in OnMap(S, m) : S.object[o] # Free
        BY DEF Placed
    <2> QED BY <1>1, <1>5, <1>6, <2>1, <2>2, <2>3 DEF Followed
<1>10. Talking(T)
    BY <1>1, <1>3, <1>4, <1>5 DEF Talking, Shape
<1>11. Owned(T, F)
    BY <1>1, <1>3, <1>4, <1>5, <1>6 DEF Owned
<1>12. Weds(S, T)
    BY <1>1, <1>3, <1>4 DEF Weds
<1> QED BY <1>1, <1>3, <1>4, <1>7, <1>8, <1>9, <1>10, <1>11, <1>12 DEF Quiet, Stay, Forgets, T

LEMMA DeleteFields ==
    ASSUME NEW S, Shape(S), NEW D
    PROVE  LET T == Delete(S, D) IN
           /\ Shape(T) /\ T.where = S.where /\ T.pet = S.pet /\ T.unregister = S.unregister
           /\ T.arena = S.arena
           /\ \A m \in Map : OnMap(T, m) = OnMap(S, m) \ D
           /\ \A c \in Char : T.npc[c] = IF S.npc[c] \in D /\ S.npc[c] \in OnMap(S, S.where[c])
                                         THEN None ELSE S.npc[c]
           /\ \A o \in Object : T.object[o] = IF o \in D THEN Free ELSE S.object[o]
<1> DEFINE T == Delete(S, D)
           lists == [m \in Map |-> Erased(S.npcs[m], D)]
           talk == [c \in Char |-> IF S.npc[c] \in D /\ S.npc[c] \in OnMap(S, S.where[c])
                                   THEN None ELSE S.npc[c]]
           b == [o \in Object |-> IF o \in D THEN Free ELSE S.object[o]]
<1>1. T = [S EXCEPT !.npcs = lists, !.npc = talk, !.object = b]
    BY DEF Delete, Shape
<1>2. lists \in [Map -> Seq(Object)] /\ \A m \in Map : ToSet(lists[m]) = ToSet(S.npcs[m]) \ D
    <2>1. \A m \in Map : S.npcs[m] \in Seq(Object)
        BY DEF Shape
    <2> QED BY <2>1, ErasedList
<1>3. talk \in [Char -> Object \union {None}] /\ b \in [Object -> NpcState \union {Free}]
    BY DEF Shape
<1>4. /\ \A c \in Char : talk[c] = IF S.npc[c] \in D /\ S.npc[c] \in OnMap(S, S.where[c])
                                   THEN None ELSE S.npc[c]
      /\ \A o \in Object : b[o] = IF o \in D THEN Free ELSE S.object[o]
    OBVIOUS
<1> HIDE DEF T, lists, talk, b
<1>5. T = [where |-> S.where, unregister |-> S.unregister, pet |-> S.pet, npc |-> talk,
           arena |-> S.arena, npcs |-> lists, object |-> b]
    BY <1>1 DEF Shape
<1>6. /\ T.where = S.where /\ T.pet = S.pet /\ T.unregister = S.unregister
      /\ T.arena = S.arena /\ T.npcs = lists /\ T.npc = talk /\ T.object = b
    BY <1>5
<1>7. Shape(T)
    BY <1>2, <1>3, <1>5, <1>6 DEF Shape
<1>8. \A m \in Map : OnMap(T, m) = OnMap(S, m) \ D
    BY <1>2, <1>6 DEF OnMap
<1> QED BY <1>4, <1>6, <1>7, <1>8 DEF T

\* NPCs on maps that nobody fights can be deleted.
Idle(S, D) ==
    /\ D \subseteq Object
    /\ \A o \in D : /\ \A c \in Char : S.object[o].damage[c] = None
                    /\ \E m \in Map : o \in OnMap(S, m)
    /\ RemoteReloads \/ \A c \in Char : S.pet[c] \notin D

Deletes(S, T, D) ==
    /\ \A m \in Map : OnMap(T, m) = OnMap(S, m) \ D
    /\ \A o \in Object : T.object[o] = IF o \in D THEN Free ELSE S.object[o]

LEMMA DeleteSane ==
    ASSUME NEW S, NEW P, NEW E, NEW D, Sane(S, P, E), Idle(S, D)
    PROVE  /\ Sane(Delete(S, D), P \ D, E \ D) /\ Quiet(S, Delete(S, D))
           /\ Deletes(S, Delete(S, D), D)
<1> USE DEF Sane, Idle
<1> DEFINE T == Delete(S, D)
<1>1. /\ Shape(T) /\ T.where = S.where /\ T.pet = S.pet /\ T.unregister = S.unregister
      /\ T.arena = S.arena
      /\ \A m \in Map : OnMap(T, m) = OnMap(S, m) \ D
      /\ \A c \in Char : T.npc[c] = IF S.npc[c] \in D /\ S.npc[c] \in OnMap(S, S.where[c])
                                    THEN None ELSE S.npc[c]
      /\ \A o \in Object : T.object[o] = IF o \in D THEN Free ELSE S.object[o]
    BY DeleteFields
<1> HIDE DEF T
<1>2. /\ \A m \in Map : \A o \in OnMap(S, m) : o \in Object /\ S.object[o] # Free
      /\ \A c \in Char : S.where[c] # None => S.where[c] \in Map
    BY OnMapObjects DEF Placed, Shape
<1>3. Matched(T)
    <2>1. \A c \in Char : \A o \in S.unregister[c] :
              o \in Object /\ o \notin D /\ T.object[o] = S.object[o]
        <3> SUFFICES ASSUME NEW c \in Char, NEW o \in S.unregister[c]
                     PROVE  o \in Object /\ o \notin D /\ T.object[o] = S.object[o]
            OBVIOUS
        <3>1. o \in Object
            BY DEF Shape
        <3>2. S.object[o].damage[c] # None
            BY DEF Matched
        <3> QED BY <1>1, <3>1, <3>2
    <2>2. \A c \in Char : \A o \in Object : T.object[o] # Free => T.object[o] = S.object[o]
        BY <1>1
    <2> QED BY <1>1, <2>1, <2>2 DEF Matched
<1>4. Placed(T)
    BY <1>1, <1>2, MapsApart, KindsAreApart DEF Placed, Object
<1>5. \A c \in Char : T.npc[c] # None => S.npc[c] # None /\ T.npc[c] = S.npc[c] /\ T.npc[c] \notin D
    BY <1>1, <1>2, MapsApart DEF Talking, Shape
<1>6. Talking(T)
    BY <1>1, <1>2, <1>5 DEF Talking, Shape
<1>7. Followed(T, P \ D)
    <2>1. ASSUME NEW c \in Char, T.pet[c] # None
          PROVE  /\ T.where[c] # None /\ T.pet[c] \notin P \ D
                 /\ T.object[T.pet[c]] = Free => RemoteReloads
                 /\ T.object[T.pet[c]] # Free =>
                      /\ T.pet[c] \in OnMap(T, T.where[c]) /\ T.object[T.pet[c]].alive = TRUE
                      /\ T.object[T.pet[c]].owner = c
        <3>1. S.pet[c] \in Object /\ S.where[c] # None /\ S.pet[c] \notin P
            BY <1>1, <2>1 DEF Shape, Object, Followed
        <3>2. CASE S.pet[c] \in D
            BY <1>1, <2>1, <3>1, <3>2
        <3>3. CASE S.pet[c] \notin D
            BY <1>1, <1>2, <2>1, <3>1, <3>3 DEF Followed
        <3> QED BY <3>2, <3>3
    <2>2. ASSUME NEW m \in Map, NEW o \in (OnMap(T, m) \intersect Pet) \ (P \ D)
          PROVE  LET c == T.object[o].owner IN c \in Char /\ T.pet[c] = o /\ T.where[c] = m
        <3>1. o \in Object /\ o \in OnMap(S, m) /\ o \notin D /\ T.object[o] = S.object[o]
            BY <1>1, <1>2, <2>2
        <3> QED BY <1>1, <2>2, <3>1 DEF Followed
    <2> QED BY <2>1, <2>2 DEF Followed
<1>8. Owned(T, E \ D)
    <2> SUFFICES ASSUME NEW m \in Map, NEW o \in OnMap(T, m), T.object[o].killowner # None
                 PROVE  LET n == T.object[o] IN
                        /\ T.where[n.killowner] # None
                        /\ n.alive = TRUE /\ o \notin Child /\ o \notin E \ D =>
                              n.damage[n.killowner] # None
        BY DEF Owned
    <2>1. o \in OnMap(S, m) /\ o \notin D /\ T.object[o] = S.object[o]
        BY <1>1, <1>2
    <2> QED BY <1>1, <2>1 DEF Owned
<1>9. Weds(S, T)
    BY <1>1 DEF Weds
<1> QED BY <1>1, <1>3, <1>4, <1>6, <1>7, <1>8, <1>9 DEF Quiet, Stay, Deletes, T

\* All but the NPCs themselves.
Others(S, T) ==
    /\ T.where = S.where /\ T.unregister = S.unregister /\ T.pet = S.pet /\ T.npc = S.npc
    /\ T.arena = S.arena /\ T.npcs = S.npcs

Falls(n, k, o, P, E, F) ==
    \/ k = n /\ o \notin E \ F
    \/ /\ n # Free /\ k # Free /\ Alike(n, k) /\ k.killowner = n.killowner
       /\ k.alive = FALSE /\ o \notin Pet \ P

\* Those who die are no longer alive, whatever else happens to them.
LEMMA DownSane ==
    ASSUME NEW S, NEW T, NEW P, NEW E, NEW F, Sane(S, P, E), Shape(T), Others(S, T),
           \A o \in Object : Falls(S.object[o], T.object[o], o, P, E, F)
    PROVE  Sane(T, P, F) /\ Steady(S, T)
<1>1. \A o \in Object : Fits(S.object[o], T.object[o], o, P, E, F)
    BY DEF Fits, Falls, Alike
<1>2. Sane(T, P, F)
    BY <1>1, ObjectsSane DEF Others
<1>3. Weds(S, T)
    BY DEF Weds, Alike, Falls
<1>4. OnMap(T, Home) = OnMap(S, Home)
    BY DEF OnMap, Others
<1> QED BY <1>2, <1>3, <1>4 DEF Steady, Quiet, Stay, Rooted, Others

LEMMA ObjectFields ==
    ASSUME NEW S, Shape(S), NEW f \in [Object -> NpcState \union {Free}]
    PROVE  LET T == [S EXCEPT !.object = f] IN Shape(T) /\ Others(S, T) /\ T.object = f
<1> DEFINE T == [S EXCEPT !.object = f]
<1>1. T = [where |-> S.where, unregister |-> S.unregister, pet |-> S.pet, npc |-> S.npc,
           arena |-> S.arena, npcs |-> S.npcs, object |-> f]
    BY DEF Shape
<1> HIDE DEF T
<1>2. Others(S, T) /\ T.object = f
    BY <1>1 DEF Others
<1>3. Shape(T)
    BY <1>1, <1>2 DEF Shape, Others
<1> QED BY <1>2, <1>3 DEF T

\* NPC::Die.
LEMMA DieSane ==
    ASSUME NEW S, NEW P, NEW E, NEW D, Sane(S, P, E), D \subseteq Object \ Pet, P \subseteq Pet,
           \A o \in D : S.object[o] # Free
    PROVE  LET T == Die(S, D) IN
           Sane(T, P, E) /\ Steady(S, T)
<1> DEFINE A == Forget(S, D)
           f == [o \in Object |-> IF o \in D THEN [A.object[o] EXCEPT !.alive = FALSE, !.parent = None]
                                  ELSE A.object[o]]
           B == [A EXCEPT !.object = f]
           X == D \intersect Temporary
           T == Delete(B, X)
<1>1. Die(S, D) = T
    BY DEF Die
<1> DEFINE F == E \union D
<1>2. Sane(A, P, F) /\ Quiet(S, A) /\ Forgets(S, A, D)
    <2>1. InMemory(S, D) /\ F = E \union D
        BY DEF InMemory
    <2> HIDE DEF F
    <2> QED BY <2>1, ForgetSane
<1> HIDE DEF A
<1>3. /\ f = [o \in Object |-> f[o]]
      /\ \A o \in Object \ D : f[o] = A.object[o]
      /\ \A o \in D : /\ A.object[o] \in NpcState /\ A.object[o] # Free
                      /\ f[o] = [A.object[o] EXCEPT !.alive = FALSE, !.parent = None]
    BY <1>2 DEF Sane, Shape, Forgets
<1>4. \A o \in D : /\ f[o] \in NpcState /\ f[o] # Free /\ Alike(A.object[o], f[o])
                   /\ f[o].killowner = A.object[o].killowner /\ f[o].alive = FALSE
    BY <1>3, DeadState, NotFree
<1> HIDE DEF f
<1>5. Shape(B) /\ Others(A, B) /\ B.object = f
    <2>1. f \in [Object -> NpcState \union {Free}]
        BY <1>2, <1>3, <1>4 DEF Sane, Shape
    <2> QED BY <1>2, <2>1, ObjectFields DEF Sane
<1> HIDE DEF B
<1>6. Sane(B, P, E) /\ Steady(A, B)
    <2>1. \A o \in Object : Falls(A.object[o], B.object[o], o, P, F, E)
        BY <1>3, <1>4, <1>5 DEF Falls
    <2> QED BY <1>2, <1>5, <2>1, DownSane
<1>7. Idle(B, X)
    <2>1. \A o \in X : \A c \in Char : B.object[o].damage[c] = None
        BY <1>2, <1>4, <1>5 DEF Alike, Forgets
    <2>2. \A o \in X : o \in OnMap(B, Home)
        BY <1>4, <1>5, <1>6 DEF Sane, Placed
    <2>3. X \intersect Pet = {} /\ None \notin X
        BY MapsApart
    <2>4. \A c \in Char : B.pet[c] \in Pet \union {None}
        BY <1>5 DEF Shape
    <2>5. X \subseteq Object /\ \A c \in Char : B.pet[c] \notin X
        BY <2>3, <2>4
    <2> QED BY <2>1, <2>2, <2>5, MapsApart DEF Idle
<1>12. P \ X = P
    OBVIOUS
<1> HIDE DEF X
<1>8. Sane(T, P \ X, E \ X) /\ Quiet(B, T) /\ Deletes(B, T, X)
    BY <1>6, <1>7, DeleteSane
<1> HIDE DEF T
<1>9. Sane(T, P, E)
    <2>1. Owned(T, E \ X) => Owned(T, E)
        BY DEF Owned
    <2> QED BY <1>8, <1>12, <2>1 DEF Sane
<1>10. Steady(B, T)
    BY <1>8, MapsApart, KindsAreApart DEF Steady, Rooted, Deletes, X
<1>11. Steady(S, A)
    BY <1>2 DEF Steady, Rooted, OnMap, Forgets
<1> QED BY <1>1, <1>6, <1>9, <1>10, <1>11, SteadyTwice

\* NPC::Killed.
LEMMA KilledSane ==
    ASSUME NEW S, NEW o \in Object, Sane(S, {o} \intersect Pet, {o}), S.object[o] # Free,
           NEW home \in Map, o \in OnMap(S, home)
    PROVE  LET T == Killed(S, o) IN Sane(T, {}, {}) /\ Steady(S, T)
<1> DEFINE P == {o} \intersect Pet
           D == {o}
           A == Forget(S, D)
           f == [A.object EXCEPT ![o] = [@ EXCEPT !.alive = FALSE]]
           B == [A EXCEPT !.object = f]
           met == {x \in Child : x \in Met(S.npcs[Home]) /\ Alive(S, x)}
           C == IF o \notin Boss THEN B ELSE Die(B, met)
           X == {o} \intersect (Temporary \union Pet)
           T == Delete(C, X)
<1>1. A.object[o] = Forgotten(S.object[o])
    BY ForgetFields DEF Sane
<1>2. Sane(A, P, D) /\ Quiet(S, A) /\ Forgets(S, A, D)
    <2>1. InMemory(S, D) /\ D = D \union D /\ Sane(S, P, D)
        BY DEF InMemory
    <2> HIDE DEF P, D
    <2> QED BY <2>1, ForgetSane
<1>3. Killed(S, o) = T
    <2>1. [A EXCEPT !.object[o].alive = FALSE] = B
        BY DEF Forget
    <2> QED BY <2>1 DEF Killed
<1> HIDE DEF A
<1>4. /\ Sane(A, P, {o}) /\ A.object[o] \in NpcState /\ A.object[o] # Free
      /\ A.object \in [Object -> NpcState \union {Free}]
      /\ A.pet = S.pet /\ A.npcs = S.npcs
      /\ \A c \in Char : A.object[o].damage[c] = None
    BY <1>2 DEF Sane, Shape, Forgets
<1>5. /\ f \in [Object -> NpcState \union {Free}]
      /\ \A x \in Object \ {o} : f[x] = A.object[x]
      /\ f[o] \in NpcState /\ f[o] # Free /\ Alike(A.object[o], f[o])
      /\ f[o].killowner = A.object[o].killowner /\ f[o].alive = FALSE
    <2> DEFINE n == A.object[o]
               k == [n EXCEPT !.alive = FALSE]
    <2>1. f = [A.object EXCEPT ![o] = k]
        OBVIOUS
    <2>2. k \in NpcState /\ Alike(n, k) /\ k.killowner = n.killowner /\ k.alive = FALSE
        BY <1>4, DeadState
    <2> HIDE DEF f, k
    <2> QED BY <1>4, <2>1, <2>2, NotFree
<1> HIDE DEF f
<1>6. Shape(B) /\ Others(A, B) /\ B.object = f
    BY <1>4, <1>5, ObjectFields DEF Sane
<1> HIDE DEF B
<1>7. Sane(B, P, {}) /\ Steady(A, B)
    <2>1. \A x \in Object : Falls(A.object[x], B.object[x], x, P, {o}, {})
        BY <1>4, <1>5, <1>6 DEF Falls
    <2> QED BY <1>4, <1>6, <2>1, DownSane
<1>8. Steady(S, A)
    BY <1>2 DEF Steady, Rooted, OnMap, Forgets
<1>9. CASE o \in Boss
    <2>1. o \in Npc /\ P = {} /\ X = {}
        BY <1>9, KindsAreApart
    <2> HIDE DEF P, X
    <2>2. met \subseteq Object \ Pet /\ \A x \in met : B.object[x] # Free
        <3>1. \A x \in met : x \in Object \ Pet /\ x # o /\ S.object[x] # Free
            BY <1>9, KindsAreApart DEF Alive, Object
        <3> QED BY <1>2, <1>5, <1>6, <3>1 DEF Forgets
    <2>3. C = Die(B, met)
        BY <1>9
    <2> HIDE DEF met
    <2>4. Sane(C, {}, {}) /\ Steady(B, C)
        BY <1>7, <2>1, <2>2, <2>3, DieSane
    <2> HIDE DEF C
    <2>5. Sane(T, {} \ X, {} \ X) /\ Quiet(C, T) /\ Deletes(C, T, X)
        <3>1. Idle(C, X)
            BY <2>1 DEF Idle
        <3> QED BY <2>4, <3>1, DeleteSane
    <2> HIDE DEF T
    <2>6. {} \ X = {} /\ Steady(C, T)
        BY <2>1, <2>5, MapsApart DEF Steady, Rooted, Deletes
    <2> QED BY <1>3, <1>7, <1>8, <2>4, <2>5, <2>6, SteadyTwice
<1>10. CASE o \notin Boss
    <2>1. C = B
        BY <1>10
    <2> HIDE DEF C
    <2>2. Idle(B, X)
        <3>1. \A x \in X : /\ \A c \in Char : B.object[x].damage[c] = None
                           /\ x \in OnMap(B, home)
            BY <1>4, <1>5, <1>6 DEF Alike, OnMap, Others
        <3>2. ASSUME NEW c \in Char, B.pet[c] \in X PROVE FALSE
            <4>1. B.pet[c] = o /\ o \in Pet /\ o # None
                BY <1>6, <3>2, MapsApart DEF Shape
            <4> QED BY <1>7, <4>1 DEF Sane, Followed
        <3>3. X \subseteq Object
            OBVIOUS
        <3> QED BY <3>1, <3>2, <3>3 DEF Idle
    <2>3. P \ X = {} /\ {} \ X = {}
        OBVIOUS
    <2>7. X \intersect Npc = {}
        BY KindsAreApart
    <2> HIDE DEF P, X
    <2>4. Sane(T, P \ X, {} \ X) /\ Quiet(B, T) /\ Deletes(B, T, X)
        BY <1>7, <2>1, <2>2, DeleteSane
    <2> HIDE DEF T
    <2>5. Steady(B, T)
        BY <2>4, <2>7, MapsApart DEF Steady, Rooted, Deletes
    <2> QED BY <1>3, <1>7, <1>8, <2>3, <2>4, <2>5, SteadyTwice
<1> QED BY <1>9, <1>10

(***************************************************************************)
(* What handlers keep.                                                     *)
(***************************************************************************)

\* The arena counts those in the ring.
Counted(S) ==
    LET a == S.arena IN
    /\ a = [members |-> a.members, next |-> a.next, occupants |-> a.occupants,
            enabled |-> a.enabled]
    /\ a.members \subseteq Char /\ a.next = {} /\ a.enabled \in BOOLEAN
    /\ a.occupants \in Int
    /\ \A c \in a.members : S.where[c] = ArenaMap
    /\ a.enabled = TRUE => a.occupants = Cardinality(a.members)
    /\ a.enabled = FALSE => a.members = {}

\* Ceremonies are left by partners, and nobody else comes to them.
Parts(S, T) ==
    \A o \in Object : T.object[o] # Free /\ T.object[o].marriage # None =>
        /\ S.object[o] # Free /\ S.object[o].marriage # None
        /\ \A i \in 1..2 : T.object[o].marriage.partner[i] \in
                              {S.object[o].marriage.partner[i], Dangling}

\* Those who are led through a ceremony are two, and not married yet.
Courted(S, v) ==
    \A o \in Object : S.object[o] # Free /\ S.object[o].marriage # None =>
        LET p == S.object[o].marriage.partner IN
        /\ o \in Priest
        /\ p[1] = p[2] => p[1] = Dangling
        /\ \A i \in 1..2 : p[i] \in Char => v[p[i]].partner = None

Kept(S) == Sane(S, {}, {}) /\ Rooted(S) /\ Counted(S)

\* What a handler makes of the memory.
Keeps(S, T) ==
    /\ Sane(T, {}, {}) /\ Parts(S, T)
    /\ Rooted(S) => Rooted(T)
    /\ Counted(S) => Counted(T)

RealmInv == Kept(Memory)
WeddingInv == vows \in [Char -> Vows] /\ Mutual(vows) /\ Courted(Memory, vows)

LEMMA WedsParts ==
    ASSUME NEW S, NEW T, Weds(S, T)
    PROVE  Parts(S, T)
    BY DEF Weds, Parts

LEMMA PartsTwice ==
    ASSUME NEW S, NEW T, NEW U, Parts(S, T), Parts(T, U)
    PROVE  Parts(S, U)
<1> SUFFICES ASSUME NEW o \in Object, U.object[o] # Free, U.object[o].marriage # None
             PROVE  /\ S.object[o] # Free /\ S.object[o].marriage # None
                    /\ \A i \in 1..2 : U.object[o].marriage.partner[i] \in
                                          {S.object[o].marriage.partner[i], Dangling}
    BY DEF Parts
<1>1. /\ T.object[o] # Free /\ T.object[o].marriage # None
      /\ \A i \in 1..2 : U.object[o].marriage.partner[i] \in
                            {T.object[o].marriage.partner[i], Dangling}
    BY DEF Parts
<1>2. /\ S.object[o] # Free /\ S.object[o].marriage # None
      /\ \A i \in 1..2 : T.object[o].marriage.partner[i] \in
                            {S.object[o].marriage.partner[i], Dangling}
    BY <1>1 DEF Parts
<1> QED BY <1>1, <1>2

LEMMA CourtedKept ==
    ASSUME NEW S, NEW T, NEW v, Parts(S, T), Courted(S, v)
    PROVE  Courted(T, v)
<1> SUFFICES ASSUME NEW o \in Object, T.object[o] # Free, T.object[o].marriage # None
             PROVE  LET q == T.object[o].marriage.partner IN
                    /\ o \in Priest
                    /\ q[1] = q[2] => q[1] = Dangling
                    /\ \A i \in 1..2 : q[i] \in Char => v[q[i]].partner = None
    BY DEF Courted
<1> DEFINE p == S.object[o].marriage.partner
           q == T.object[o].marriage.partner
<1>1. /\ S.object[o] # Free /\ S.object[o].marriage # None
      /\ q[1] \in {p[1], Dangling} /\ q[2] \in {p[2], Dangling}
    <2>1. 1 \in 1..2 /\ 2 \in 1..2
        OBVIOUS
    <2> QED BY <2>1 DEF Parts
<1>2. /\ o \in Priest
      /\ p[1] = p[2] => p[1] = Dangling
      /\ p[1] \in Char => v[p[1]].partner = None
      /\ p[2] \in Char => v[p[2]].partner = None
    <2>1. /\ o \in Priest
          /\ p[1] = p[2] => p[1] = Dangling
          /\ \A i \in 1..2 : p[i] \in Char => v[p[i]].partner = None
        BY <1>1 DEF Courted
    <2> HIDE DEF p, q
    <2>2. 1 \in 1..2 /\ 2 \in 1..2
        OBVIOUS
    <2> QED BY <2>1, <2>2
<1> HIDE DEF p, q
<1>3. Dangling \notin Char
    BY KindsAreApart
<1>4. /\ o \in Priest
      /\ q[1] = q[2] => q[1] = Dangling
      /\ q[1] \in Char => v[q[1]].partner = None
      /\ q[2] \in Char => v[q[2]].partner = None
    BY <1>1, <1>2, <1>3
<1>5. \A i \in 1..2 : q[i] \in Char => v[q[i]].partner = None
    <2>1. \A i \in 1..2 : i = 1 \/ i = 2
        OBVIOUS
    <2> QED BY <1>4, <2>1
<1>6. /\ o \in Priest
      /\ q[1] = q[2] => q[1] = Dangling
      /\ \A i \in 1..2 : q[i] \in Char => v[q[i]].partner = None
    BY <1>4, <1>5
<1> USE DEF q
<1> QED BY <1>6

LEMMA KeepsTwice ==
    ASSUME NEW S, NEW T, NEW U, Keeps(S, T), Keeps(T, U)
    PROVE  Keeps(S, U)
<1>1. Parts(S, U)
    BY PartsTwice DEF Keeps
<1> QED BY <1>1 DEF Keeps

LEMMA SteadyKeeps ==
    ASSUME NEW S, NEW T, Steady(S, T), Sane(T, {}, {})
    PROVE  Keeps(S, T)
<1>1. Parts(S, T)
    BY WedsParts DEF Steady, Quiet
<1>2. Counted(S) => Counted(T)
    BY DEF Counted, Steady, Quiet, Stay
<1> QED BY <1>1, <1>2 DEF Keeps, Steady

LEMMA ReachedBy ==
    ASSUME NEW S, Shape(S)
    PROVE  /\ \A m \in Map : OnMap(S, m) \subseteq Reached(S)
           /\ \A c \in Char : /\ S.unregister[c] \subseteq Reached(S)
                            /\ S.pet[c] \in Reached(S) /\ S.npc[c] \in Reached(S)
<1> DEFINE lists == {ToSet(S.npcs[m]) : m \in Map}
           fought == Range(S.unregister)
           pets == Range(S.pet)
           served == Range(S.npc)
<1>1. Reached(S) = (UNION (lists \cup fought)) \cup pets \cup served
    BY Zenon DEF Reached
<1>2. \A m \in Map : OnMap(S, m) \in lists
    BY DEF OnMap
<1>3. \A c \in Char : S.unregister[c] \in fought /\ S.pet[c] \in pets /\ S.npc[c] \in served
    BY DEF Shape, Range
<1> HIDE DEF lists, fought, pets, served
<1>4. /\ \A x \in lists \union fought : x \subseteq Reached(S)
      /\ pets \subseteq Reached(S) /\ served \subseteq Reached(S)
    <2> DEFINE both == UNION (lists \cup fought)
    <2>1. \A x \in lists \union fought : x \subseteq both
        BY Zenon
    <2>2. Reached(S) = both \union pets \union served
        BY <1>1
    <2> HIDE DEF both
    <2>3. both \subseteq Reached(S) /\ pets \subseteq Reached(S) /\ served \subseteq Reached(S)
        BY <2>2
    <2> QED BY Zenon, <2>1, <2>3
<1>5. \A m \in Map : OnMap(S, m) \subseteq Reached(S)
    BY Zenon, <1>2, <1>4
<1>6. \A c \in Char : S.unregister[c] \subseteq Reached(S)
    BY Zenon, <1>3, <1>4
<1>7. \A c \in Char : S.pet[c] \in Reached(S) /\ S.npc[c] \in Reached(S)
    BY Zenon, <1>3, <1>4
<1> QED BY <1>5, <1>6, <1>7

\* What nobody can find any more is missed by nobody.
LEMMA FoundSane ==
    ASSUME NEW S, NEW T, Sane(S, {}, {}), Shape(T), Others(S, T),
           \A o \in Object : T.object[o] = IF o \in Reached(S) THEN S.object[o] ELSE Free
    PROVE  Sane(T, {}, {}) /\ Steady(S, T)
<1> USE DEF Sane, Others
<1>1. \A m : OnMap(T, m) = OnMap(S, m)
    BY DEF OnMap
<1>2. \A m \in Map : \A o \in OnMap(S, m) : o \in Object /\ o \in Reached(S)
    BY OnMapObjects, ReachedBy
<1>3. \A c \in Char : \A o \in S.unregister[c] : o \in Object /\ o \in Reached(S)
    <2>1. \A c \in Char : S.unregister[c] \subseteq Object
        BY DEF Shape
    <2> QED BY <2>1, ReachedBy
<1>4. \A c \in Char : S.pet[c] \in Reached(S) /\ S.npc[c] \in Reached(S)
    BY ReachedBy
<1>5. \A o \in Object : T.object[o] # Free => T.object[o] = S.object[o]
    OBVIOUS
<1>6. \A o \in Object : o \in Reached(S) => T.object[o] = S.object[o]
    OBVIOUS
<1>7. Matched(T)
    BY <1>3, <1>5, <1>6 DEF Matched
<1>8. Placed(T)
    BY <1>1, <1>2, <1>5, <1>6, KindsAreApart DEF Placed, Object
<1>9. Followed(T, {})
    <2>1. \A c \in Char : S.pet[c] # None => S.pet[c] \in Object
        BY DEF Shape, Object
    <2>2. \A c \in Char : S.pet[c] # None => T.object[S.pet[c]] = S.object[S.pet[c]]
        BY <1>4, <1>6, <2>1
    <2>3. \A m \in Map : \A o \in OnMap(S, m) : T.object[o] = S.object[o]
        BY <1>2, <1>6
    <2> QED BY <1>1, <2>2, <2>3 DEF Followed
<1>10. Talking(T)
    <2>1. \A c \in Char : S.npc[c] # None => T.object[S.npc[c]] = S.object[S.npc[c]]
        BY <1>4, <1>6 DEF Shape
    <2> QED BY <1>1, <2>1 DEF Talking
<1>11. Owned(T, {})
    <2>3. \A m \in Map : \A o \in OnMap(S, m) : T.object[o] = S.object[o]
        BY <1>2, <1>6
    <2> QED BY <1>1, <2>3 DEF Owned
<1>12. Weds(S, T)
    BY <1>5 DEF Weds
<1> QED BY <1>1, <1>7, <1>8, <1>9, <1>10, <1>11, <1>12 DEF Steady, Quiet, Stay, Rooted

\* Who comes to the world, leaves it or goes to another map has no pet then and talks to nobody.
LEMMA MovedSane ==
    ASSUME NEW S, NEW T, NEW C, Sane(S, {}, {}), Shape(T),
           T.unregister = S.unregister, T.pet = S.pet, T.npcs = S.npcs, T.object = S.object,
           \A c \in Char \ C : T.where[c] = S.where[c] /\ T.npc[c] = S.npc[c],
           \A c \in Char : c \in C => S.pet[c] = None /\ T.npc[c] = None,
           \A c \in Char : c \in C /\ T.where[c] = None =>
               /\ S.unregister[c] = {}
               /\ \A m \in Map : \A o \in OnMap(S, m) : S.object[o].killowner # c
    PROVE  Sane(T, {}, {}) /\ Weds(S, T) /\ (Rooted(S) => Rooted(T))
<1> USE DEF Sane
<1>1. \A m : OnMap(T, m) = OnMap(S, m)
    BY DEF OnMap
<1>2. Matched(T)
    BY DEF Matched
<1>3. Placed(T)
    BY <1>1 DEF Placed
<1>4. Followed(T, {})
    <2>1. \A c \in Char : T.pet[c] # None => c \notin C /\ T.where[c] = S.where[c]
        OBVIOUS
    <2>2. None \notin Pet
        BY MapsApart DEF Object
    <2> QED BY <1>1, <2>1, <2>2 DEF Followed
<1>5. Talking(T)
    BY <1>1 DEF Talking
<1>6. Owned(T, {})
    <2> SUFFICES ASSUME NEW m \in Map, NEW o \in OnMap(T, m), T.object[o].killowner # None
                 PROVE  LET n == T.object[o] IN
                        /\ T.where[n.killowner] # None
                        /\ n.alive = TRUE /\ o \notin Child /\ o \notin {} =>
                              n.damage[n.killowner] # None
        BY DEF Owned
    <2>1. /\ S.where[S.object[o].killowner] # None
          /\ S.object[o].alive = TRUE /\ o \notin Child =>
                S.object[o].damage[S.object[o].killowner] # None
        BY <1>1 DEF Owned
    <2>2. o \in Object /\ S.object[o] \in NpcState
        <3>1. o \in OnMap(S, m)
            BY <1>1
        <3>2. o \in Object /\ S.object[o] # Free
            BY <3>1, OnMapObjects DEF Placed
        <3> QED BY <3>2 DEF Shape
    <2>3. S.object[o].killowner \in Char
        BY <2>2 DEF NpcState
    <2> QED BY <1>1, <2>1, <2>3
<1>7. Weds(S, T)
    BY DEF Weds
<1> QED BY <1>1, <1>2, <1>3, <1>4, <1>5, <1>6, <1>7 DEF Rooted

LEMMA BecomeKept ==
    ASSUME NEW S, Kept(S), Become(S)
    PROVE  Kept(Memory') /\ Parts(S, Memory')
<1> DEFINE T == [where |-> where', unregister |-> unregister', pet |-> pet', npc |-> npc',
                 arena |-> arena', npcs |-> npcs', object |-> object']
<1>1. Memory' = T
    BY DEF Memory
<1>2. Sane(S, {}, {}) /\ Shape(S)
    BY DEF Kept, Sane
<1>3. /\ Others(S, T)
      /\ \A o \in Object : T.object[o] = IF o \in Reached(S) THEN S.object[o] ELSE Free
    BY DEF Become, Others
<1>4. Shape(T)
    <2>1. object' \in [Object -> NpcState \union {Free}]
        BY <1>2 DEF Become, Shape
    <2> QED BY <1>2, <2>1 DEF Shape, Become
<1> HIDE DEF T
<1>5. Sane(T, {}, {}) /\ Steady(S, T)
    BY <1>2, <1>3, <1>4, FoundSane
<1>6. Keeps(S, T)
    BY <1>5, SteadyKeeps
<1>7. Kept(T) /\ Parts(S, T)
    BY <1>6 DEF Keeps, Kept
<1> QED BY <1>1, <1>7

LEMMA BecomeKeeps ==
    ASSUME Kept(Memory), NEW S, Keeps(Memory, S), Become(S)
    PROVE  Kept(Memory') /\ Parts(Memory, Memory')
<1>1. Kept(S) /\ Parts(Memory, S)
    BY DEF Kept, Keeps
<1> QED BY <1>1, BecomeKept, PartsTwice

\* One that nobody knows yet.
New(n) ==
    /\ n # Free /\ n.alive = TRUE /\ n.killowner = None /\ n.marriage = None
    /\ \A c \in Char : n.damage[c] = None

\* NPCs that are made where nobody had any: nobody knows of them, and pets are of those they
\* are called by.
Appears(S, T, N, m) ==
    /\ T.where = S.where /\ T.unregister = S.unregister /\ T.npc = S.npc
    /\ N \subseteq Object /\ \A o \in N : Unused(S, o)
    /\ OnMap(T, m) = OnMap(S, m) \union N
    /\ \A k \in Map \ {m} : OnMap(T, k) = OnMap(S, k)
    /\ \A o \in Object \ N : T.object[o] = S.object[o]
    /\ \A o \in N : New(T.object[o])
    /\ m = Elsewhere => N \subseteq Pet
    /\ \A c \in Char : \/ T.pet[c] = S.pet[c]
                       \/ /\ S.pet[c] = None /\ S.where[c] = m
                          /\ T.pet[c] \in N /\ T.object[T.pet[c]].owner = c
    /\ \A o \in N \intersect Pet : LET c == T.object[o].owner IN
                                   c \in Char /\ T.pet[c] = o /\ S.where[c] = m

LEMMA AppearSane ==
    ASSUME NEW S, NEW T, NEW N, NEW m \in Map, Sane(S, {}, {}), Shape(T), Appears(S, T, N, m)
    PROVE  Sane(T, {}, {}) /\ Weds(S, T) /\ (Rooted(S) => Rooted(T))
<1> USE DEF Sane, Appears, New
<1>1. \A o \in N : S.object[o] = Free /\ o \notin Reached(S)
    BY DEF Unused
<1>2. /\ \A k \in Map : OnMap(S, k) \intersect N = {}
      /\ \A c \in Char : /\ S.unregister[c] \intersect N = {}
                         /\ S.pet[c] \notin N /\ S.npc[c] \notin N
    BY <1>1, ReachedBy
<1>3. \A k \in Map : \A o \in OnMap(S, k) : o \in Object /\ S.object[o] # Free /\ o \notin N
                                            /\ T.object[o] = S.object[o]
    BY <1>2, OnMapObjects DEF Placed
<1>4. \A k \in Map : \A o \in OnMap(T, k) : o \in OnMap(S, k) \/ (o \in N /\ k = m)
    OBVIOUS
<1>5. \A k \in Map : OnMap(S, k) \subseteq OnMap(T, k)
    OBVIOUS
<1>6. Matched(T)
    <2> SUFFICES ASSUME NEW c \in Char
                 PROVE  /\ T.where[c] = None => T.unregister[c] = {}
                        /\ \A o \in T.unregister[c] :
                              T.object[o] # Free /\ T.object[o].damage[c] # None
                        /\ \A o \in Object : T.object[o] # Free /\ T.object[o].damage[c] # None =>
                              o \in T.unregister[c]
        BY DEF Matched
    <2>1. T.where[c] = None => T.unregister[c] = {}
        BY DEF Matched
    <2>2. \A o \in S.unregister[c] : o \in Object \ N
        BY <1>2 DEF Shape
    <2>3. \A o \in T.unregister[c] : T.object[o] # Free /\ T.object[o].damage[c] # None
        BY <2>2 DEF Matched
    <2>4. \A o \in Object : T.object[o] # Free /\ T.object[o].damage[c] # None =>
              o \in T.unregister[c]
        BY DEF Matched
    <2> QED BY <2>1, <2>3, <2>4
<1>7. Placed(T)
    <2>1. \A k \in Map : \A o \in OnMap(T, k) : T.object[o] # Free
        BY <1>3, <1>4
    <2>2. OnMap(T, Elsewhere) \subseteq Pet
        BY <1>4, MapsApart DEF Placed
    <2>3. ASSUME NEW o \in Temporary, T.object[o] # Free PROVE o \in OnMap(T, Home)
        <3>1. o \in Object /\ o \notin Pet
            BY KindsAreApart DEF Object
        <3>2. CASE o \in N
            BY <3>1, <3>2, MapsApart
        <3>3. CASE o \notin N
            BY <1>5, <2>3, <3>1, <3>3, MapsApart DEF Placed
        <3> QED BY <3>2, <3>3
    <2> QED BY <2>1, <2>2, <2>3 DEF Placed
<1>8. Followed(T, {})
    <2>1. ASSUME NEW c \in Char, T.pet[c] # None
          PROVE  /\ T.where[c] # None /\ T.pet[c] \notin {}
                 /\ T.object[T.pet[c]] = Free => RemoteReloads
                 /\ T.object[T.pet[c]] # Free =>
                      /\ T.pet[c] \in OnMap(T, T.where[c]) /\ T.object[T.pet[c]].alive = TRUE
                      /\ T.object[T.pet[c]].owner = c
        <3>1. CASE T.pet[c] = S.pet[c]
            <4>1. S.pet[c] \in Object \ N /\ S.where[c] \in Map
                BY <1>2, <2>1, <3>1 DEF Shape, Object, Followed
            <4>2. T.object[T.pet[c]] = S.object[S.pet[c]]
                BY <3>1, <4>1
            <4> QED BY <1>5, <2>1, <3>1, <4>1, <4>2 DEF Followed
        <3>2. CASE /\ S.pet[c] = None /\ S.where[c] = m
                   /\ T.pet[c] \in N /\ T.object[T.pet[c]].owner = c
            BY <3>2, MapsApart
        <3> QED BY <3>1, <3>2
    <2>2. ASSUME NEW k \in Map, NEW o \in (OnMap(T, k) \intersect Pet) \ {}
          PROVE  LET c == T.object[o].owner IN c \in Char /\ T.pet[c] = o /\ T.where[c] = k
        <3>1. CASE o \in OnMap(S, k)
            <4>1. LET c == S.object[o].owner IN c \in Char /\ S.pet[c] = o /\ S.where[c] = k
                BY <2>2, <3>1 DEF Followed
            <4>2. T.object[o] = S.object[o] /\ o \in Object /\ o # None
                BY <1>3, <3>1, MapsApart
            <4> QED BY <4>1, <4>2
        <3>2. CASE o \in N /\ k = m
            BY <2>2, <3>2
        <3> QED BY <1>4, <2>2, <3>1, <3>2
    <2> QED BY <2>1, <2>2 DEF Followed
<1>9. Talking(T)
    <2> SUFFICES ASSUME NEW c \in Char, T.npc[c] # None
                 PROVE  /\ T.where[c] # None /\ T.object[T.npc[c]] # Free
                        /\ T.npc[c] \notin Pet => T.npc[c] \in OnMap(T, T.where[c])
                        /\ \A k \in Map : T.npc[c] \in OnMap(T, k) => T.where[c] = k
        BY DEF Talking
    <2>1. S.npc[c] \in Object \ N /\ S.where[c] \in Map
        BY <1>2 DEF Shape, Talking
    <2> QED BY <1>4, <1>5, <2>1 DEF Talking
<1>10. Owned(T, {})
    <2> SUFFICES ASSUME NEW k \in Map, NEW o \in OnMap(T, k), T.object[o].killowner # None
                 PROVE  LET n == T.object[o] IN
                        /\ T.where[n.killowner] # None
                        /\ n.alive = TRUE /\ o \notin Child /\ o \notin {} =>
                              n.damage[n.killowner] # None
        BY DEF Owned
    <2>1. o \in OnMap(S, k) /\ T.object[o] = S.object[o]
        BY <1>3, <1>4
    <2> QED BY <2>1 DEF Owned
<1>11. Weds(S, T)
    BY DEF Weds
<1>12. Rooted(S) => Rooted(T)
    BY <1>5, MapsApart DEF Rooted
<1> QED BY <1>6, <1>7, <1>8, <1>9, <1>10, <1>11, <1>12

(***************************************************************************)
(* Pets.                                                                   *)
(***************************************************************************)

LEMMA DismissFields ==
    ASSUME NEW S, Shape(S), NEW C
    PROVE  LET T == Dismiss(S, C) IN
           /\ Shape(T) /\ T.where = S.where /\ T.unregister = S.unregister /\ T.npc = S.npc
           /\ T.arena = S.arena /\ T.object = S.object
           /\ \A c \in Char : T.pet[c] = IF c \in C THEN None ELSE S.pet[c]
           /\ \A m \in Map : OnMap(T, m) = OnMap(S, m) \ {S.pet[c] : c \in C}
<1> DEFINE T == Dismiss(S, C)
           gone == {S.pet[c] : c \in C}
           lists == [m \in Map |-> Erased(S.npcs[m], gone)]
           pets == [c \in Char |-> IF c \in C THEN None ELSE S.pet[c]]
<1>1. T = [S EXCEPT !.npcs = lists, !.pet = pets]
    BY DEF Dismiss, Shape
<1>2. lists \in [Map -> Seq(Object)] /\ \A m \in Map : ToSet(lists[m]) = ToSet(S.npcs[m]) \ gone
    <2> HIDE DEF gone
    <2>1. \A m \in Map : S.npcs[m] \in Seq(Object)
        BY DEF Shape
    <2> QED BY <2>1, ErasedList
<1>3. /\ pets \in [Char -> Pet \union {None}]
      /\ \A c \in Char : pets[c] = IF c \in C THEN None ELSE S.pet[c]
    BY DEF Shape
<1> HIDE DEF T, lists, pets
<1>4. T = [where |-> S.where, unregister |-> S.unregister, pet |-> pets, npc |-> S.npc,
           arena |-> S.arena, npcs |-> lists, object |-> S.object]
    BY <1>1 DEF Shape
<1>5. /\ T.where = S.where /\ T.unregister = S.unregister /\ T.npc = S.npc
      /\ T.arena = S.arena /\ T.object = S.object /\ T.pet = pets /\ T.npcs = lists
    BY <1>4
<1>6. Shape(T)
    BY <1>2, <1>3, <1>4, <1>5 DEF Shape
<1>7. \A m \in Map : OnMap(T, m) = OnMap(S, m) \ gone
    BY <1>2, <1>5 DEF OnMap
<1> QED BY <1>3, <1>5, <1>6, <1>7 DEF T

\* Character::PetTransfer.
LEMMA DismissSane ==
    ASSUME NEW S, Sane(S, {}, {}), NEW C, C \subseteq Char, \A c \in C : S.pet[c] # None
    PROVE  Sane(Dismiss(S, C), {}, {}) /\ Steady(S, Dismiss(S, C))
<1> USE DEF Sane
<1> DEFINE T == Dismiss(S, C)
           gone == {S.pet[c] : c \in C}
<1>1. /\ Shape(T) /\ T.where = S.where /\ T.unregister = S.unregister /\ T.npc = S.npc
      /\ T.arena = S.arena /\ T.object = S.object
      /\ \A c \in Char : T.pet[c] = IF c \in C THEN None ELSE S.pet[c]
      /\ \A m \in Map : OnMap(T, m) = OnMap(S, m) \ gone
    BY DismissFields
<1>2. gone \subseteq Pet /\ \A c \in C : S.pet[c] \in gone
    BY DEF Shape
<1>3. \A o \in gone : \E c \in C : S.pet[c] = o
    OBVIOUS
<1> HIDE DEF T, gone
<1>4. Matched(T)
    BY <1>1 DEF Matched
<1>5. Placed(T)
    <2>1. \A o \in Temporary : o \notin gone /\ o \in Object
        BY <1>2, KindsAreApart DEF Object
    <2> QED BY <1>1, <2>1, MapsApart DEF Placed
<1>6. Followed(T, {})
    <2>1. ASSUME NEW c \in Char, T.pet[c] # None
          PROVE  /\ T.where[c] # None /\ T.pet[c] \notin {}
                 /\ T.object[T.pet[c]] = Free => RemoteReloads
                 /\ T.object[T.pet[c]] # Free =>
                      /\ T.pet[c] \in OnMap(T, T.where[c]) /\ T.object[T.pet[c]].alive = TRUE
                      /\ T.object[T.pet[c]].owner = c
        <3>1. c \notin C /\ T.pet[c] = S.pet[c] /\ S.where[c] \in Map
            BY <1>1, <2>1 DEF Followed, Shape
        <3>2. S.object[S.pet[c]] # Free => S.pet[c] \notin gone
            <4>1. \A d \in C : S.pet[d] = S.pet[c] /\ S.object[S.pet[c]] # Free => d = c
                BY <2>1, <3>1 DEF Followed
            <4> QED BY <1>3, <3>1, <4>1
        <3> QED BY <1>1, <2>1, <3>1, <3>2 DEF Followed
    <2>2. ASSUME NEW k \in Map, NEW o \in (OnMap(T, k) \intersect Pet) \ {}
          PROVE  LET c == T.object[o].owner IN c \in Char /\ T.pet[c] = o /\ T.where[c] = k
        <3>1. o \in OnMap(S, k) /\ o \notin gone
            BY <1>1, <2>2
        <3>2. LET c == S.object[o].owner IN c \in Char /\ S.pet[c] = o /\ S.where[c] = k
            BY <2>2, <3>1 DEF Followed
        <3>3. S.object[o].owner \notin C
            BY <1>2, <3>1, <3>2
        <3> QED BY <1>1, <3>2, <3>3
    <2> QED BY <2>1, <2>2 DEF Followed
<1>7. Talking(T)
    <2>1. \A c \in Char : S.npc[c] # None /\ S.npc[c] \notin Pet =>
              S.npc[c] \notin gone /\ S.where[c] \in Map
        BY <1>2 DEF Talking, Shape
    <2> QED BY <1>1, <2>1 DEF Talking
<1>8. Owned(T, {})
    BY <1>1 DEF Owned
<1>9. Weds(S, T)
    BY <1>1 DEF Weds
<1>10. Rooted(S) => Rooted(T)
    <2>1. Npc \intersect gone = {}
        BY <1>2, KindsAreApart
    <2> QED BY <1>1, <2>1, MapsApart DEF Rooted
<1> QED BY <1>1, <1>4, <1>5, <1>6, <1>7, <1>8, <1>9, <1>10 DEF Steady, Quiet, Stay, T

IsCalled(S, T, at, m) ==
    /\ T.where = S.where /\ T.unregister = S.unregister /\ T.npc = S.npc
    /\ T.arena = S.arena
    /\ OnMap(T, m) = OnMap(S, m) \union Range(at)
    /\ \A k \in Map \ {m} : OnMap(T, k) = OnMap(S, k)
    /\ \A c \in Char : T.pet[c] = IF c \in DOMAIN at THEN at[c] ELSE S.pet[c]
    /\ \A o \in Object \ Range(at) : T.object[o] = S.object[o]
    /\ \A c \in DOMAIN at : T.object[at[c]] = Spawned(Fresh(c), None)

LEMMA CalledFields ==
    ASSUME NEW S, Shape(S), NEW K, K \subseteq Char, NEW at \in [K -> Pet], IsInjective(at),
           NEW m \in Map
    PROVE  Shape(Called(S, at, m)) /\ IsCalled(S, Called(S, at, m), at, m)
<1> DEFINE T == Called(S, at, m)
           new == SetToSeq(Range(at))
           of(o) == CHOOSE c \in K : at[c] = o
           b == [o \in Object |-> IF o \in Range(at) THEN Spawned(Fresh(of(o)), None)
                                  ELSE S.object[o]]
           list == S.npcs[m] \o new
           lists == [S.npcs EXCEPT ![m] = list]
           pets == [c \in Char |-> IF c \in K THEN at[c] ELSE S.pet[c]]
<1>1. T = [S EXCEPT !.object = b, !.npcs = lists, !.pet = pets]
    BY DEF Called, Shape
<1>2. /\ Range(at) \subseteq Object /\ \A o \in Range(at) : \E c \in K : at[c] = o
      /\ \A c \in K : at[c] \in Range(at)
    BY DEF Range, Object
<1>3. IsFiniteSet(Range(at))
    <2>1. IsFiniteSet(K)
        BY CharsAreFinite, FS_Subset
    <2>2. at \in Surjection(K, Range(at))
        BY <1>2 DEF Surjection, Range
    <2> QED BY <2>1, <2>2, FS_Surjection
<1>4. new \in Seq(Object) /\ ToSet(new) = Range(at)
    <2>1. new \in Seq(Range(at)) /\ ToSet(new) = Range(at)
        BY <1>3, ListOfSet
    <2> HIDE DEF new
    <2> QED BY <1>2, <2>1
<1> HIDE DEF new
<1>5. list \in Seq(Object) /\ ToSet(list) = ToSet(S.npcs[m]) \union Range(at)
    <2>1. S.npcs[m] \in Seq(Object)
        BY DEF Shape
    <2> QED BY <1>4, <2>1, AppendedList
<1> HIDE DEF list
<1>6. /\ lists \in [Map -> Seq(Object)] /\ lists[m] = list
      /\ \A k \in Map \ {m} : lists[k] = S.npcs[k]
    BY <1>5 DEF Shape
<1>7. /\ pets \in [Char -> Pet \union {None}]
      /\ \A c \in Char : pets[c] = IF c \in K THEN at[c] ELSE S.pet[c]
    BY DEF Shape
<1>8. \A c \in K : of(at[c]) = c
    BY DEF IsInjective
<1>9. \A o \in Range(at) : of(o) \in K
    BY <1>2
<1>10. /\ \A o \in Object \ Range(at) : b[o] = S.object[o]
       /\ \A c \in K : b[at[c]] = Spawned(Fresh(c), None)
    <2> HIDE DEF of
    <2> QED BY <1>2, <1>8
<1>11. b \in [Object -> NpcState \union {Free}]
    <2> HIDE DEF of
    <2>1. \A c \in K : Spawned(Fresh(c), None) \in NpcState
        BY FreshState, SpawnedState
    <2> QED BY <1>9, <2>1 DEF Shape
<1> HIDE DEF T, b, lists, pets
<1>12. T = [where |-> S.where, unregister |-> S.unregister, pet |-> pets, npc |-> S.npc,
            arena |-> S.arena, npcs |-> lists, object |-> b]
    BY <1>1 DEF Shape
<1>13. /\ T.where = S.where /\ T.unregister = S.unregister /\ T.npc = S.npc
       /\ T.arena = S.arena /\ T.object = b /\ T.pet = pets /\ T.npcs = lists
    BY <1>12
<1>14. Shape(T)
    BY <1>6, <1>7, <1>11, <1>12, <1>13 DEF Shape
<1>15. /\ OnMap(T, m) = OnMap(S, m) \union Range(at)
       /\ \A k \in Map \ {m} : OnMap(T, k) = OnMap(S, k)
    BY <1>5, <1>6, <1>13 DEF OnMap
<1> QED BY <1>7, <1>10, <1>13, <1>14, <1>15 DEF T, IsCalled

\* Character::AddPet and SummonPet.
LEMMA CalledSane ==
    ASSUME NEW S, Sane(S, {}, {}), NEW K, K \subseteq Char, NEW at \in [K -> Pet],
           IsInjective(at), NEW m \in Map, \A c \in K : S.pet[c] = None /\ S.where[c] = m,
           \A c \in K : Unused(S, at[c])
    PROVE  Sane(Called(S, at, m), {}, {}) /\ Steady(S, Called(S, at, m))
<1> DEFINE T == Called(S, at, m)
           N == Range(at)
<1>1. Shape(T) /\ IsCalled(S, T, at, m)
    BY CalledFields DEF Sane
<1>2. /\ N \subseteq Pet /\ \A o \in N : \E c \in K : at[c] = o
      /\ \A c \in K : at[c] \in N
    BY DEF Range
<1> HIDE DEF T
<1>3. /\ T.where = S.where /\ T.unregister = S.unregister /\ T.npc = S.npc
      /\ T.arena = S.arena
      /\ OnMap(T, m) = OnMap(S, m) \union N
      /\ \A k \in Map \ {m} : OnMap(T, k) = OnMap(S, k)
      /\ \A c \in Char : T.pet[c] = IF c \in K THEN at[c] ELSE S.pet[c]
      /\ \A o \in Object \ N : T.object[o] = S.object[o]
      /\ \A c \in K : T.object[at[c]] = Spawned(Fresh(c), None)
    BY <1>1 DEF IsCalled
<1> HIDE DEF N
<1>4. ASSUME NEW c \in K
      PROVE  New(T.object[at[c]]) /\ T.object[at[c]].owner = c
    <2> DEFINE n == Spawned(Fresh(c), None)
    <2>1. /\ Fresh(c) \in NpcState /\ Fresh(c).owner = c /\ Fresh(c).marriage = None
          /\ Fresh(c).killowner = None /\ \A d \in Char : Fresh(c).damage[d] = None
        BY FreshState
    <2>2. New(n) /\ n.owner = c
        <3>1. /\ n \in NpcState /\ Alike(Fresh(c), n) /\ n.alive = TRUE
              /\ n.killowner = Fresh(c).killowner
            BY <2>1, SpawnedState
        <3> HIDE DEF n
        <3> QED BY <2>1, <3>1, NotFree DEF Alike, New
    <2>3. T.object[at[c]] = n
        BY <1>3
    <2> HIDE DEF n
    <2> QED BY <2>2, <2>3
<1>5. ASSUME NEW o \in N PROVE New(T.object[o])
    <2>1. PICK c \in K : at[c] = o
        BY <1>2
    <2> QED BY <1>4, <2>1
<1>6. N \subseteq Object /\ \A o \in N : Unused(S, o)
    <2>1. \A o \in N : Unused(S, o)
        BY <1>2
    <2> QED BY <1>2, <2>1 DEF Object
<1>7. \A c \in K : c \in Char /\ T.pet[c] = at[c] /\ T.object[at[c]].owner = c
    BY <1>3, <1>4
<1>8. \A c \in Char : \/ T.pet[c] = S.pet[c]
                      \/ /\ S.pet[c] = None /\ S.where[c] = m
                         /\ T.pet[c] \in N /\ T.object[T.pet[c]].owner = c
    BY <1>2, <1>3, <1>7
<1>9. ASSUME NEW o \in N \intersect Pet
      PROVE  LET c == T.object[o].owner IN c \in Char /\ T.pet[c] = o /\ S.where[c] = m
    <2>1. PICK c \in K : at[c] = o
        BY <1>2
    <2> QED BY <1>7, <2>1
<1>10. Appears(S, T, N, m)
    BY <1>2, <1>3, <1>5, <1>6, <1>8, <1>9 DEF Appears
<1>11. Sane(T, {}, {}) /\ Weds(S, T) /\ (Rooted(S) => Rooted(T))
    BY <1>1, <1>10, AppearSane
<1> QED BY <1>3, <1>11 DEF Steady, Quiet, Stay, T

(***************************************************************************)
(* Those who come and go.                                                  *)
(***************************************************************************)

\* What Warp makes of the memory: some are on another map, and the arena has heard of it.
Arrives(S, T, C, m) ==
    /\ \A c \in Char : T.where[c] = IF c \in C THEN m ELSE S.where[c]
    /\ T.arena = Entered(Left(S.arena, C), C)

\* The way back: without their pets, and before they are called.
Moved(S, C, m) ==
    [S EXCEPT !.where = [c \in Char |-> IF c \in C THEN m ELSE @[c]],
              !.npc = [c \in Char |-> IF c \in C THEN None ELSE @[c]],
              !.arena = Entered(Left(@, C), C)]

LEMMA MovedFields ==
    ASSUME NEW S, Shape(S), NEW C, NEW m \in Map
    PROVE  LET T == Moved(S, C, m) IN
           /\ Shape(T) /\ T.unregister = S.unregister /\ T.pet = S.pet /\ T.npcs = S.npcs
           /\ T.object = S.object /\ Arrives(S, T, C, m)
           /\ \A c \in Char : T.npc[c] = IF c \in C THEN None ELSE S.npc[c]
<1> DEFINE w == [c \in Char |-> IF c \in C THEN m ELSE S.where[c]]
           p == [c \in Char |-> IF c \in C THEN None ELSE S.npc[c]]
           a == Entered(Left(S.arena, C), C)
           T == Moved(S, C, m)
<1>1. w \in [Char -> Map \union {None}] /\ p \in [Char -> Object \union {None}]
    BY DEF Shape
<1>2. /\ \A c \in Char : w[c] = IF c \in C THEN m ELSE S.where[c]
      /\ \A c \in Char : p[c] = IF c \in C THEN None ELSE S.npc[c]
    OBVIOUS
<1>3. T = [S EXCEPT !.where = w, !.npc = p, !.arena = a]
    BY DEF Moved
<1> HIDE DEF T
<1>4. a = Entered(Left(S.arena, C), C)
    OBVIOUS
<1> HIDE DEF w, p, a
<1>5. T = [where |-> w, unregister |-> S.unregister, pet |-> S.pet, npc |-> p,
           arena |-> a, npcs |-> S.npcs, object |-> S.object]
    BY <1>3 DEF Shape
<1>6. /\ T.where = w /\ T.unregister = S.unregister /\ T.pet = S.pet /\ T.npc = p
      /\ T.arena = a /\ T.npcs = S.npcs /\ T.object = S.object
    BY <1>5
<1>7. Shape(T)
    BY <1>1, <1>5, <1>6 DEF Shape
<1>8. Arrives(S, T, C, m)
    BY <1>2, <1>4, <1>6 DEF Arrives
<1>9. \A c \in Char : T.npc[c] = IF c \in C THEN None ELSE S.npc[c]
    BY <1>2, <1>6
<1> QED BY <1>6, <1>7, <1>8, <1>9 DEF T

\* What nobody can find is not found either where pets are taken back.
LEMMA UnusedBack ==
    ASSUME NEW S, NEW T, Shape(S), Shape(T), T.unregister = S.unregister, T.object = S.object,
           \A m \in Map : OnMap(T, m) \subseteq OnMap(S, m),
           \A c \in Char : T.pet[c] \in {S.pet[c], None} /\ T.npc[c] \in {S.npc[c], None},
           NEW o \in Object, Unused(S, o)
    PROVE  Unused(T, o)
<1>1. /\ \A m \in Map : o \notin OnMap(S, m)
      /\ \A c \in Char : o \notin S.unregister[c] /\ o # S.pet[c] /\ o # S.npc[c]
    BY ReachedBy DEF Unused
<1>2. o # None
    BY MapsApart
<1>3. ASSUME o \in Reached(T) PROVE FALSE
    <2> DEFINE lists == {ToSet(T.npcs[m]) : m \in Map}
               fought == Range(T.unregister)
               pets == Range(T.pet)
               served == Range(T.npc)
    <2>1. Reached(T) = (UNION (lists \cup fought)) \cup pets \cup served
        BY Zenon DEF Reached
    <2>2. \A x \in lists : \E m \in Map : x = OnMap(T, m)
        BY DEF OnMap
    <2>3. \A x \in fought : \E c \in Char : x = T.unregister[c]
        BY DEF Shape, Range
    <2>4. \A x \in pets : \E c \in Char : x = T.pet[c]
        BY DEF Shape, Range
    <2>5. \A x \in served : \E c \in Char : x = T.npc[c]
        BY DEF Shape, Range
    <2> HIDE DEF lists, fought, pets, served
    <2>6. o \in pets \/ o \in served \/ o \in UNION (lists \cup fought)
        BY <1>3, <2>1
    <2>7. o \in pets \/ o \in served \/ (\E x \in lists : o \in x) \/ \E x \in fought : o \in x
        BY Zenon, <2>6
    <2>8. o \notin pets /\ o \notin served
        BY <1>1, <1>2, <2>4, <2>5
    <2>9. \A x \in lists : o \notin x
        BY <1>1, <2>2
    <2>10. \A x \in fought : o \notin x
        BY <1>1, <2>3
    <2> QED BY <2>7, <2>8, <2>9, <2>10
<1> QED BY <1>3 DEF Unused

\* Character::Warp.
LEMMA ArriveSane ==
    ASSUME NEW S, Sane(S, {}, {}), NEW C, C \subseteq Char, NEW m \in Map,
           NEW T \in Arrive(S, C, m)
    PROVE  /\ Sane(T, {}, {}) /\ Weds(S, T) /\ (Rooted(S) => Rooted(T))
           /\ Arrives(S, T, C, m)
<1> DEFINE had == {c \in C : S.pet[c] # None}
           A == Dismiss(S, had)
           B == Moved(A, C, m)
           unused == {x \in Pet : Unused(S, x)}
<1>1. PICK K \in SUBSET had : \E at \in [K -> unused] : IsInjective(at) /\ T = Called(B, at, m)
    BY DEF Arrive, Moved
<1>2. PICK at \in [K -> unused] : IsInjective(at) /\ T = Called(B, at, m)
    BY <1>1
<1>3. /\ Shape(A) /\ A.where = S.where /\ A.unregister = S.unregister /\ A.npc = S.npc
      /\ A.arena = S.arena /\ A.object = S.object
      /\ \A c \in Char : A.pet[c] = IF c \in had THEN None ELSE S.pet[c]
      /\ \A k \in Map : OnMap(A, k) = OnMap(S, k) \ {S.pet[c] : c \in had}
    BY DismissFields DEF Sane
<1>4. Sane(A, {}, {}) /\ Steady(S, A)
    <2>1. had \subseteq Char /\ \A c \in had : S.pet[c] # None
        OBVIOUS
    <2> HIDE DEF had
    <2> QED BY <2>1, DismissSane
<1>5. \A c \in C : c \in Char /\ A.pet[c] = None
    BY <1>3
<1> HIDE DEF A
<1>6. /\ Shape(B) /\ B.unregister = A.unregister /\ B.pet = A.pet /\ B.npcs = A.npcs
      /\ B.object = A.object /\ Arrives(A, B, C, m)
      /\ \A c \in Char : B.npc[c] = IF c \in C THEN None ELSE A.npc[c]
    BY <1>3, MovedFields
<1> HIDE DEF B
<1>7. Sane(B, {}, {}) /\ Weds(A, B) /\ (Rooted(A) => Rooted(B))
    <2>1. \A c \in Char \ C : B.where[c] = A.where[c] /\ B.npc[c] = A.npc[c]
        BY <1>6 DEF Arrives
    <2>2. \A c \in Char : c \in C => A.pet[c] = None /\ B.npc[c] = None
        BY <1>5, <1>6
    <2>3. \A c \in Char : c \in C /\ B.where[c] = None =>
              /\ A.unregister[c] = {}
              /\ \A k \in Map : \A o \in OnMap(A, k) : A.object[o].killowner # c
        BY <1>6, MapsApart DEF Arrives
    <2> QED BY <1>4, <1>6, <2>1, <2>2, <2>3, MovedSane
<1>8. /\ K \subseteq Char /\ at \in [K -> Pet]
      /\ \A c \in K : c \in C /\ B.pet[c] = None /\ B.where[c] = m
    BY <1>5, <1>6 DEF Arrives
<1>9. ASSUME NEW c \in K PROVE Unused(B, at[c])
    <2>1. at[c] \in Object /\ Unused(S, at[c])
        BY DEF Object
    <2>2. \A k \in Map : OnMap(B, k) \subseteq OnMap(S, k)
        BY <1>3, <1>6 DEF OnMap
    <2>3. \A d \in Char : B.pet[d] \in {S.pet[d], None} /\ B.npc[d] \in {S.npc[d], None}
        BY <1>3, <1>6
    <2>4. B.unregister = S.unregister /\ B.object = S.object /\ Shape(S)
        BY <1>3, <1>6 DEF Sane
    <2> QED BY <1>6, <2>1, <2>2, <2>3, <2>4, UnusedBack
<1>10. Sane(T, {}, {}) /\ Steady(B, T)
    BY <1>2, <1>7, <1>8, <1>9, CalledSane
<1>11. Weds(S, T)
    BY <1>4, <1>7, <1>10 DEF Weds, Steady, Quiet
<1>12. Rooted(S) => Rooted(T)
    BY <1>4, <1>7, <1>10 DEF Steady
<1>13. Arrives(S, T, C, m)
    BY <1>3, <1>6, <1>10 DEF Arrives, Steady, Quiet, Stay
<1> QED BY <1>10, <1>11, <1>12, <1>13

\* The arena before those in C arrive at m, where they may be expected.
Ring(S, C, m) ==
    LET a == S.arena IN
    /\ a = [members |-> a.members, next |-> a.next, occupants |-> a.occupants,
            enabled |-> a.enabled]
    /\ a.members \subseteq Char /\ a.next \subseteq C /\ a.enabled \in BOOLEAN
    /\ a.occupants \in Int
    /\ \A c \in a.members : S.where[c] = ArenaMap
    /\ a.next # {} => m = ArenaMap
    /\ a.enabled = TRUE => a.occupants = Cardinality(a.members)
    /\ a.enabled = FALSE => a.members = {} /\ a.next = {}

LEMMA CountedRing ==
    ASSUME NEW S, Counted(S), NEW C, NEW m
    PROVE  Ring(S, C, m)
    BY DEF Counted, Ring

LEMMA RingFields ==
    ASSUME NEW a, NEW C,
           a = [members |-> a.members, next |-> a.next, occupants |-> a.occupants,
                enabled |-> a.enabled]
    PROVE  LET b == Entered(Left(a, C), C) IN
           b = [members |-> (a.members \ C) \union (C \intersect a.next), next |-> a.next \ C,
                occupants |-> (a.occupants - Cardinality(C \intersect a.members))
                                  + Cardinality(C \intersect a.next),
                enabled |-> a.enabled]
<1> DEFINE l == Left(a, C)
           gone == a.occupants - Cardinality(C \intersect a.members)
           stay == a.members \ C
<1>1. l = [a EXCEPT !.members = stay, !.occupants = gone]
    BY DEF Left
<1> DEFINE g == gone
           s == stay
<1> HIDE DEF l, g, s
<1>2. l = [members |-> s, next |-> a.next, occupants |-> g, enabled |-> a.enabled]
    BY <1>1 DEF g, s
<1>3. l.members = s /\ l.next = a.next /\ l.occupants = g /\ l.enabled = a.enabled
    BY <1>2
<1> DEFINE e == Entered(l, C)
           in == s \union (C \intersect a.next)
           n == a.next \ C
           k == g + Cardinality(C \intersect a.next)
<1>4. e = [l EXCEPT !.members = in, !.next = n, !.occupants = k]
    BY <1>3 DEF Entered
<1> HIDE DEF e, in, n, k
<1>5. e = [members |-> in, next |-> n, occupants |-> k, enabled |-> a.enabled]
    BY <1>2, <1>4
<1> QED BY <1>5 DEF e, in, n, k, s, g, l

\* Those who come are counted, and those who leave are not any more.
LEMMA ArriveCounted ==
    ASSUME NEW S, NEW T, NEW C, C \subseteq Char, NEW m, Ring(S, C, m), Arrives(S, T, C, m)
    PROVE  Counted(T)
<1> DEFINE a == S.arena
           b == T.arena
           in == C \intersect a.next
<1>1. /\ a = [members |-> a.members, next |-> a.next, occupants |-> a.occupants,
              enabled |-> a.enabled]
      /\ a.members \subseteq Char /\ a.next \subseteq C /\ a.enabled \in BOOLEAN
      /\ a.occupants \in Int
      /\ \A c \in a.members : S.where[c] = ArenaMap
      /\ a.next # {} => m = ArenaMap
      /\ a.enabled = TRUE => a.occupants = Cardinality(a.members)
      /\ a.enabled = FALSE => a.members = {} /\ a.next = {}
    BY DEF Ring
<1>2. b = Entered(Left(a, C), C)
    BY DEF Arrives
<1>3. \A c \in Char : T.where[c] = IF c \in C THEN m ELSE S.where[c]
    BY DEF Arrives
<1> HIDE DEF a, b
<1>4. b = [members |-> (a.members \ C) \union in, next |-> a.next \ C,
           occupants |-> (a.occupants - Cardinality(C \intersect a.members)) + Cardinality(in),
           enabled |-> a.enabled]
    BY <1>1, <1>2, RingFields
<1>5. /\ b.members = (a.members \ C) \union in /\ b.next = a.next \ C
      /\ b.occupants = (a.occupants - Cardinality(C \intersect a.members)) + Cardinality(in)
      /\ b.enabled = a.enabled
      /\ b = [members |-> b.members, next |-> b.next, occupants |-> b.occupants,
              enabled |-> b.enabled]
    BY <1>4
<1>6. b.members \subseteq Char /\ b.next = {} /\ b.enabled \in BOOLEAN
    BY <1>1, <1>5
<1>7. \A c \in b.members : T.where[c] = ArenaMap
    BY <1>1, <1>3, <1>5
<1>8. Cardinality(b.members)
        = (Cardinality(a.members) - Cardinality(C \intersect a.members)) + Cardinality(in)
    <2> DEFINE stay == a.members \ C
               members == a.members
    <2>1. IsFiniteSet(members) /\ IsFiniteSet(in)
        <3>1. in \subseteq Char /\ members \subseteq Char
            BY <1>1
        <3> HIDE DEF in, members
        <3> QED BY <3>1, CharsAreFinite, FS_Subset
    <2>2. stay \intersect in = {} /\ members \intersect C = C \intersect members
        OBVIOUS
    <2>3. IsFiniteSet(stay) /\ Cardinality(stay) = Cardinality(members) - Cardinality(members \intersect C)
        <3> HIDE DEF members
        <3>1. stay = members \ C
            BY DEF members
        <3> HIDE DEF stay
        <3> QED BY <2>1, <3>1, FS_Difference
    <2>4. b.members = stay \union in
        BY <1>5
    <2> HIDE DEF stay, in
    <2>5. Cardinality(b.members) = Cardinality(stay) + Cardinality(in) - Cardinality({})
        BY <2>1, <2>2, <2>3, <2>4, FS_Union
    <2>6. /\ Cardinality({}) = 0 /\ Cardinality(stay) \in Nat /\ Cardinality(in) \in Nat
        BY <2>1, <2>3, FS_EmptySet, FS_CardinalityType
    <2>7. Cardinality(b.members) = Cardinality(stay) + Cardinality(in)
        BY <2>5, <2>6
    <2> QED BY <2>2, <2>3, <2>7
<1>9. b.enabled = TRUE => b.occupants = Cardinality(b.members)
    BY <1>1, <1>5, <1>8
<1>10. b.enabled = FALSE => b.members = {}
    BY <1>1, <1>5
<1>11. b.occupants \in Int
    <2> DEFINE out == C \intersect a.members
    <2>1. in \subseteq Char /\ out \subseteq Char
        BY <1>1
    <2> HIDE DEF in, out
    <2>2. Cardinality(in) \in Nat /\ Cardinality(out) \in Nat
        BY <2>1, CharsAreFinite, FS_Subset, FS_CardinalityType
    <2>3. b.occupants = (a.occupants - Cardinality(out)) + Cardinality(in)
        BY <1>5 DEF in, out
    <2> QED BY <1>1, <2>2, <2>3
<1> QED BY <1>5, <1>6, <1>7, <1>9, <1>10, <1>11 DEF Counted, b

LEMMA ArriveKeeps ==
    ASSUME NEW S, Sane(S, {}, {}), NEW C, C \subseteq Char, NEW m \in Map,
           NEW T \in Arrive(S, C, m)
    PROVE  Keeps(S, T)
<1>1. /\ Sane(T, {}, {}) /\ Weds(S, T) /\ (Rooted(S) => Rooted(T))
      /\ Arrives(S, T, C, m)
    BY ArriveSane
<1>2. Counted(S) => Counted(T)
    BY <1>1, CountedRing, ArriveCounted
<1> QED BY <1>1, <1>2, WedsParts DEF Keeps

\* Character::Warp of those who are expected in the arena or sent out of it.
LEMMA RingKeeps ==
    ASSUME Kept(Memory), NEW a, NEW C, C \subseteq Char, NEW m \in Map,
           Ring([Memory EXCEPT !.arena = a], C, m),
           NEW T \in Arrive([Memory EXCEPT !.arena = a], C, m)
    PROVE  Keeps(Memory, T)
<1> DEFINE S == [Memory EXCEPT !.arena = a]
<1>1. /\ S.where = Memory.where /\ S.unregister = Memory.unregister /\ S.pet = Memory.pet
      /\ S.npc = Memory.npc /\ S.npcs = Memory.npcs /\ S.object = Memory.object
      /\ S = [where |-> S.where, unregister |-> S.unregister, pet |-> S.pet, npc |-> S.npc,
              arena |-> S.arena, npcs |-> S.npcs, object |-> S.object]
    BY DEF Memory
<1> HIDE DEF S
<1>2. Shape(S)
    BY <1>1 DEF Kept, Sane, Shape
<1>3. \A k : OnMap(S, k) = OnMap(Memory, k)
    BY <1>1 DEF OnMap
<1>4. Sane(S, {}, {})
    <2>1. Matched(S) /\ Placed(S) /\ Talking(S)
        BY <1>1, <1>3 DEF Kept, Sane, Matched, Placed, Talking
    <2>2. Followed(S, {})
        BY <1>1, <1>3 DEF Kept, Sane, Followed
    <2>3. Owned(S, {})
        BY <1>1, <1>3 DEF Kept, Sane, Owned
    <2> QED BY <1>2, <2>1, <2>2, <2>3 DEF Sane
<1>5. Weds(Memory, S) /\ (Rooted(Memory) => Rooted(S))
    BY <1>1, <1>3 DEF Weds, Rooted
<1>6. /\ Sane(T, {}, {}) /\ Weds(S, T) /\ (Rooted(S) => Rooted(T))
      /\ Arrives(S, T, C, m)
    BY <1>4, ArriveSane DEF S
<1>7. Counted(T)
    BY <1>6, ArriveCounted DEF S
<1>8. Parts(Memory, T)
    BY <1>5, <1>6, WedsParts DEF Weds
<1> QED BY <1>5, <1>6, <1>7, <1>8 DEF Keeps

(***************************************************************************)
(* What is done to one NPC.                                                *)
(***************************************************************************)

\* An NPC is changed, and nothing else.
Changed(S, T, o, k) ==
    /\ Shape(T) /\ Others(S, T) /\ T.object[o] = k
    /\ \A x \in Object \ {o} : T.object[x] = S.object[x]

LEMMA ChangeFields ==
    ASSUME NEW S, Shape(S), NEW o \in Object, NEW k \in NpcState
    PROVE  Changed(S, [S EXCEPT !.object[o] = k], o, k)
<1> DEFINE f == [S.object EXCEPT ![o] = k]
           T == [S EXCEPT !.object = f]
<1>1. [S EXCEPT !.object[o] = k] = T
    BY DEF Shape
<1>2. /\ f \in [Object -> NpcState \union {Free}] /\ f[o] = k
      /\ \A x \in Object \ {o} : f[x] = S.object[x]
    BY DEF Shape
<1> HIDE DEF f
<1>3. Shape(T) /\ Others(S, T) /\ T.object = f
    BY <1>2, ObjectFields
<1> QED BY <1>1, <1>2, <1>3 DEF Changed

LEMMA ChangeSane ==
    ASSUME NEW S, NEW T, NEW P, NEW E, Sane(S, P, E), NEW o \in Object, NEW k \in NpcState,
           Changed(S, T, o, k), Fits(S.object[o], k, o, P, E, E)
    PROVE  /\ Sane(T, P, E)
           /\ k.marriage \in {S.object[o].marriage, None} /\ S.object[o] # Free => Steady(S, T)
<1>1. /\ Shape(T) /\ Others(S, T) /\ T.object[o] = k
      /\ \A x \in Object \ {o} : T.object[x] = S.object[x]
    BY DEF Changed
<1>2. ASSUME NEW x \in Object PROVE Fits(S.object[x], T.object[x], x, P, E, E)
    <2>1. CASE x = o
        BY <1>1, <2>1
    <2>2. CASE x # o
        BY <1>1, <2>2 DEF Fits
    <2> QED BY <2>1, <2>2
<1>3. Sane(T, P, E)
    BY <1>1, <1>2, ObjectsSane DEF Others
<1>4. ASSUME k.marriage \in {S.object[o].marriage, None}, S.object[o] # Free PROVE Steady(S, T)
    <2>1. Weds(S, T)
        BY <1>1, <1>4 DEF Weds
    <2>2. OnMap(T, Home) = OnMap(S, Home)
        BY <1>1 DEF OnMap, Others
    <2> QED BY <1>1, <2>1, <2>2 DEF Steady, Quiet, Stay, Rooted, Others
<1> QED BY <1>3, <1>4

\* NPC::Damage, up to the death of the NPC.
Hits(S, o, c, n) ==
    [S EXCEPT !.object[o] = n,
              !.unregister[c] = IF c \in Opponents(n) THEN @ \cup {o} ELSE @]

\* What a hit leaves of an NPC.
Hurt(n, k, c) ==
    /\ k \in NpcState /\ k.owner = n.owner /\ k.marriage = n.marriage /\ k.alive = n.alive
    /\ \A d \in Char \ {c} : k.damage[d] = n.damage[d]
    /\ n.damage[c] # None => k.damage[c] # None
    /\ k.killowner = n.killowner \/ (k.killowner = c /\ k.damage[c] # None)

IsHit(S, T, o, c, n) ==
    /\ Shape(T) /\ T.where = S.where /\ T.pet = S.pet /\ T.npc = S.npc /\ T.arena = S.arena
    /\ T.npcs = S.npcs /\ T.object[o] = n
    /\ \A x \in Object \ {o} : T.object[x] = S.object[x]
    /\ \A d \in Char \ {c} : T.unregister[d] = S.unregister[d]
    /\ T.unregister[c] = IF n.damage[c] # None THEN S.unregister[c] \union {o}
                         ELSE S.unregister[c]

LEMMA HitFields ==
    ASSUME NEW S, Shape(S), NEW o \in Object, NEW c \in Char, NEW n \in NpcState
    PROVE  IsHit(S, Hits(S, o, c, n), o, c, n)
<1> DEFINE f == [S.object EXCEPT ![o] = n]
           u == [S.unregister EXCEPT ![c] = IF n.damage[c] # None THEN S.unregister[c] \union {o}
                                            ELSE S.unregister[c]]
           T == Hits(S, o, c, n)
<1>1. T = [S EXCEPT !.object = f, !.unregister = u]
    <2>1. c \in Opponents(n) <=> n.damage[c] # None
        BY DEF Opponents
    <2> QED BY <2>1 DEF Hits, Shape
<1>2. /\ f \in [Object -> NpcState \union {Free}] /\ f[o] = n
      /\ \A x \in Object \ {o} : f[x] = S.object[x]
    BY DEF Shape
<1>3. /\ u \in [Char -> SUBSET Object]
      /\ \A d \in Char \ {c} : u[d] = S.unregister[d]
      /\ u[c] = IF n.damage[c] # None THEN S.unregister[c] \union {o} ELSE S.unregister[c]
    BY DEF Shape
<1> HIDE DEF T, f, u
<1>4. T = [where |-> S.where, unregister |-> u, pet |-> S.pet, npc |-> S.npc,
           arena |-> S.arena, npcs |-> S.npcs, object |-> f]
    BY <1>1 DEF Shape
<1>5. /\ T.where = S.where /\ T.pet = S.pet /\ T.npc = S.npc /\ T.arena = S.arena
      /\ T.npcs = S.npcs /\ T.unregister = u /\ T.object = f
    BY <1>4
<1>6. Shape(T)
    BY <1>2, <1>3, <1>4, <1>5 DEF Shape
<1> QED BY <1>2, <1>3, <1>5, <1>6 DEF IsHit, T

LEMMA HitSane ==
    ASSUME NEW S, NEW T, Sane(S, {}, {}), NEW o \in Object, NEW c \in Char, NEW n,
           S.object[o] # Free, S.where[c] # None, Hurt(S.object[o], n, c), IsHit(S, T, o, c, n)
    PROVE  Sane(T, {}, {}) /\ Steady(S, T)
<1> USE DEF Sane
<1>1. /\ Shape(T) /\ T.where = S.where /\ T.pet = S.pet /\ T.npc = S.npc /\ T.arena = S.arena
      /\ T.npcs = S.npcs /\ T.object[o] = n
      /\ \A x \in Object \ {o} : T.object[x] = S.object[x]
      /\ \A d \in Char \ {c} : T.unregister[d] = S.unregister[d]
      /\ T.unregister[c] = IF n.damage[c] # None THEN S.unregister[c] \union {o}
                           ELSE S.unregister[c]
    BY DEF IsHit
<1>2. /\ n # Free /\ n.owner = S.object[o].owner /\ n.marriage = S.object[o].marriage
      /\ n.alive = S.object[o].alive
      /\ \A d \in Char \ {c} : n.damage[d] = S.object[o].damage[d]
      /\ S.object[o].damage[c] # None => n.damage[c] # None
      /\ n.killowner = S.object[o].killowner \/ (n.killowner = c /\ n.damage[c] # None)
    BY NotFree DEF Hurt
<1>3. \A m : OnMap(T, m) = OnMap(S, m)
    BY <1>1 DEF OnMap
<1>4. \A m \in Map : \A x \in OnMap(S, m) : x \in Object
    BY OnMapObjects
<1>5. Matched(T)
    <2> SUFFICES ASSUME NEW d \in Char
                 PROVE  /\ T.where[d] = None => T.unregister[d] = {}
                        /\ \A x \in T.unregister[d] :
                              T.object[x] # Free /\ T.object[x].damage[d] # None
                        /\ \A x \in Object : T.object[x] # Free /\ T.object[x].damage[d] # None =>
                              x \in T.unregister[d]
        BY DEF Matched
    <2>1. /\ S.where[d] = None => S.unregister[d] = {}
          /\ \A x \in S.unregister[d] : /\ x \in Object
                                        /\ S.object[x] # Free /\ S.object[x].damage[d] # None
          /\ \A x \in Object : S.object[x] # Free /\ S.object[x].damage[d] # None =>
                x \in S.unregister[d]
        BY DEF Matched, Shape
    <2>2. CASE d # c
        <3>1. \A x \in Object : /\ T.object[x] # Free <=> S.object[x] # Free
                                /\ S.object[x] # Free =>
                                      T.object[x].damage[d] = S.object[x].damage[d]
            BY <1>1, <1>2, <2>2
        <3> QED BY <1>1, <2>1, <2>2, <3>1
    <2>3. CASE d = c
        <3>1. \A x \in T.unregister[c] : T.object[x] # Free /\ T.object[x].damage[c] # None
            BY <1>1, <1>2, <2>1, <2>3
        <3>2. \A x \in Object : T.object[x] # Free /\ T.object[x].damage[c] # None =>
                  x \in T.unregister[c]
            BY <1>1, <1>2, <2>1, <2>3
        <3> QED BY <1>1, <2>3, <3>1, <3>2
    <2> QED BY <2>2, <2>3
<1>6. \A x \in Object : /\ T.object[x] = Free <=> S.object[x] = Free
                        /\ S.object[x] # Free => /\ T.object[x].alive = S.object[x].alive
                                                 /\ T.object[x].owner = S.object[x].owner
                                                 /\ T.object[x].marriage = S.object[x].marriage
    BY <1>1, <1>2
<1>7. Placed(T)
    BY <1>3, <1>4, <1>6, KindsAreApart DEF Placed, Object
<1>8. Followed(T, {})
    <2>1. \A d \in Char : S.pet[d] # None => S.pet[d] \in Object
        BY DEF Shape, Object
    <2>2. \A m \in Map : \A x \in OnMap(S, m) : T.object[x].owner = S.object[x].owner
        BY <1>4, <1>6 DEF Placed
    <2> QED BY <1>1, <1>3, <1>6, <2>1, <2>2 DEF Followed
<1>9. Talking(T)
    BY <1>1, <1>3, <1>6 DEF Talking, Shape
<1>10. Owned(T, {})
    <2> SUFFICES ASSUME NEW m \in Map, NEW x \in OnMap(T, m), T.object[x].killowner # None
                 PROVE  LET k == T.object[x] IN
                        /\ T.where[k.killowner] # None
                        /\ k.alive = TRUE /\ x \notin Child /\ x \notin {} =>
                              k.damage[k.killowner] # None
        BY DEF Owned
    <2>1. x \in OnMap(S, m) /\ x \in Object
        BY <1>3, <1>4
    <2>2. S.object[x].killowner # None =>
            /\ S.where[S.object[x].killowner] # None
            /\ S.object[x].alive = TRUE /\ x \notin Child =>
                  S.object[x].damage[S.object[x].killowner] # None
        BY <2>1 DEF Owned
    <2>3. CASE x # o
        BY <1>1, <2>1, <2>2, <2>3
    <2>4. CASE x = o /\ n.killowner = c /\ n.damage[c] # None
        BY <1>1, <2>4
    <2>5. CASE x = o /\ n.killowner = S.object[o].killowner
        <3>1. n.killowner \in Char
            BY <1>1, <2>5, NotFree DEF Hurt, NpcState
        <3>2. S.object[o].damage[n.killowner] # None => n.damage[n.killowner] # None
            BY <1>2, <3>1
        <3> QED BY <1>1, <1>2, <2>2, <2>5, <3>2
    <2> QED BY <1>2, <2>3, <2>4, <2>5
<1>11. Weds(S, T)
    BY <1>6 DEF Weds
<1> QED BY <1>1, <1>3, <1>5, <1>7, <1>8, <1>9, <1>10, <1>11 DEF Steady, Quiet, Stay, Rooted

LEMMA PetFields ==
    ASSUME NEW S, Shape(S), NEW c \in Char
    PROVE  LET T == [S EXCEPT !.pet[c] = None] IN
           /\ Shape(T) /\ T.where = S.where /\ T.unregister = S.unregister /\ T.npc = S.npc
           /\ T.arena = S.arena /\ T.npcs = S.npcs /\ T.object = S.object
           /\ T.pet[c] = None /\ \A d \in Char \ {c} : T.pet[d] = S.pet[d]
<1> DEFINE p == [S.pet EXCEPT ![c] = None]
           T == [S EXCEPT !.pet[c] = None]
<1>1. T = [S EXCEPT !.pet = p]
    BY DEF Shape
<1>2. /\ p \in [Char -> Pet \union {None}]
      /\ p[c] = None /\ \A d \in Char \ {c} : p[d] = S.pet[d]
    BY DEF Shape
<1> HIDE DEF T, p
<1>3. T = [where |-> S.where, unregister |-> S.unregister, pet |-> p, npc |-> S.npc,
           arena |-> S.arena, npcs |-> S.npcs, object |-> S.object]
    BY <1>1 DEF Shape
<1>4. /\ T.where = S.where /\ T.unregister = S.unregister /\ T.npc = S.npc
      /\ T.arena = S.arena /\ T.npcs = S.npcs /\ T.object = S.object /\ T.pet = p
    BY <1>3
<1>5. Shape(T)
    BY <1>2, <1>3, <1>4 DEF Shape
<1> QED BY <1>2, <1>4, <1>5 DEF T

\* A pet that is about to die is nobody's any more.
LEMMA LostSane ==
    ASSUME NEW S, Sane(S, {}, {}), NEW o \in Pet, S.object[o] # Free,
           NEW m \in Map, o \in OnMap(S, m)
    PROVE  LET T == [S EXCEPT !.pet[S.object[o].owner] = None] IN
           /\ Sane(T, {o}, {o}) /\ Steady(S, T) /\ T.object = S.object /\ T.npcs = S.npcs
<1> USE DEF Sane
<1> DEFINE c == S.object[o].owner
           T == [S EXCEPT !.pet[c] = None]
<1>1. c \in Char /\ S.pet[c] = o
    BY DEF Followed
<1>2. \A d \in Char : S.pet[d] = o => d = c
    BY MapsApart DEF Followed, Object
<1> HIDE DEF c
<1>3. /\ Shape(T) /\ T.where = S.where /\ T.unregister = S.unregister /\ T.npc = S.npc
      /\ T.arena = S.arena /\ T.npcs = S.npcs /\ T.object = S.object
      /\ T.pet[c] = None /\ \A d \in Char \ {c} : T.pet[d] = S.pet[d]
    BY <1>1, PetFields
<1> HIDE DEF T
<1>4. \A k : OnMap(T, k) = OnMap(S, k)
    BY <1>3 DEF OnMap
<1>5. Matched(T) /\ Placed(T) /\ Talking(T)
    BY <1>3, <1>4 DEF Matched, Placed, Talking
<1>6. Owned(T, {o})
    BY <1>3, <1>4 DEF Owned
<1>7. Followed(T, {o})
    <2>1. ASSUME NEW d \in Char, T.pet[d] # None
          PROVE  /\ T.where[d] # None /\ T.pet[d] \notin {o}
                 /\ T.object[T.pet[d]] = Free => RemoteReloads
                 /\ T.object[T.pet[d]] # Free =>
                      /\ T.pet[d] \in OnMap(T, T.where[d]) /\ T.object[T.pet[d]].alive = TRUE
                      /\ T.object[T.pet[d]].owner = d
        <3>1. d # c /\ T.pet[d] = S.pet[d] /\ S.pet[d] # o
            BY <1>2, <1>3, <2>1
        <3> QED BY <1>3, <1>4, <2>1, <3>1 DEF Followed
    <2>2. ASSUME NEW k \in Map, NEW x \in (OnMap(T, k) \intersect Pet) \ {o}
          PROVE  LET d == T.object[x].owner IN d \in Char /\ T.pet[d] = x /\ T.where[d] = k
        <3>1. LET d == S.object[x].owner IN d \in Char /\ S.pet[d] = x /\ S.where[d] = k
            BY <1>4, <2>2 DEF Followed
        <3>2. S.object[x].owner # c
            BY <1>1, <2>2, <3>1
        <3> QED BY <1>3, <3>1, <3>2
    <2> QED BY <2>1, <2>2 DEF Followed
<1>8. Weds(S, T)
    BY <1>3 DEF Weds
<1> QED BY <1>3, <1>4, <1>5, <1>6, <1>7, <1>8 DEF Steady, Quiet, Stay, Rooted, T, c

LEMMA OwnedLess ==
    ASSUME NEW S, NEW P, NEW E, Sane(S, P, {})
    PROVE  Sane(S, P, E)
    BY DEF Sane, Owned

\* NPC::Damage.
LEMMA DamageSane ==
    ASSUME NEW S, Sane(S, {}, {}), NEW o \in Object, NEW m \in Map, o \in OnMap(S, m),
           NEW c \in Char, S.where[c] # None, NEW amount \in Int
    PROVE  Sane(Damage(S, o, c, amount), {}, {}) /\ Steady(S, Damage(S, o, c, amount))
<1> DEFINE n == Struck(S.object[o], o, c, amount)
           hit == Hits(S, o, c, n)
           lost == IF o \in Pet THEN [hit EXCEPT !.pet[n.owner] = None] ELSE hit
<1>1. S.object[o] # Free /\ S.object[o] \in NpcState
    BY DEF Sane, Placed, Shape
<1>2. Damage(S, o, c, amount) = IF n.hp > 0 THEN hit ELSE Killed(lost, o)
    BY DEF Damage, Hits
<1>3. Hurt(S.object[o], n, c)
    BY <1>1, StruckState DEF Hurt
<1> HIDE DEF n
<1>4. n \in NpcState /\ n # Free
    BY <1>3, NotFree DEF Hurt
<1>5. IsHit(S, hit, o, c, n)
    BY <1>4, HitFields DEF Sane
<1> HIDE DEF hit
<1>6. Sane(hit, {}, {}) /\ Steady(S, hit)
    BY <1>1, <1>3, <1>5, HitSane
<1>7. hit.object[o] = n /\ o \in OnMap(hit, m)
    BY <1>5 DEF IsHit, OnMap
<1>8. Sane(lost, {o} \intersect Pet, {o}) /\ Steady(hit, lost)
      /\ lost.object[o] # Free /\ o \in OnMap(lost, m)
    <2>1. CASE o \in Pet
        <3>1. lost = [hit EXCEPT !.pet[hit.object[o].owner] = None]
            BY <1>7, <2>1
        <3>2. /\ Sane(lost, {o}, {o}) /\ Steady(hit, lost) /\ lost.object = hit.object
              /\ lost.npcs = hit.npcs
            BY <1>4, <1>6, <1>7, <2>1, <3>1, LostSane
        <3>3. {o} \intersect Pet = {o}
            BY <2>1
        <3> QED BY <1>4, <1>7, <3>2, <3>3 DEF OnMap
    <2>2. CASE o \notin Pet
        <3>1. lost = hit /\ {o} \intersect Pet = {}
            BY <2>2
        <3>2. Steady(hit, hit)
            BY DEF Steady, Quiet, Weds, Stay
        <3> HIDE DEF lost
        <3> QED BY <1>4, <1>6, <1>7, <3>1, <3>2, OwnedLess
    <2> QED BY <2>1, <2>2
<1> HIDE DEF lost
<1>9. Sane(Killed(lost, o), {}, {}) /\ Steady(lost, Killed(lost, o))
    BY <1>8, KilledSane
<1>10. CASE n.hp > 0
    BY <1>2, <1>6, <1>10
<1>11. CASE ~(n.hp > 0)
    BY <1>2, <1>6, <1>8, <1>9, <1>11, SteadyTwice
<1> QED BY <1>10, <1>11

(***************************************************************************)
(* NPCs that come back.                                                    *)
(***************************************************************************)

\* NPC::Spawn, of one that is nobody's kill.
LEMMA SpawnSane ==
    ASSUME NEW S, NEW P, Sane(S, P, {}), NEW o \in Object \ Pet, S.object[o] # Free,
           S.object[o].killowner = None
    PROVE  Sane(Spawn(S, o), P, {}) /\ Steady(S, Spawn(S, o))
<1> DEFINE brought == IF o \notin Boss THEN {} ELSE {x \in OnMap(S, Home) \intersect Child : ~Alive(S, x)}
           f == [x \in Object |->
                    IF x = o THEN Spawned(S.object[x], None)
                    ELSE IF x \in brought THEN Spawned(S.object[x], o) ELSE S.object[x]]
           T == [S EXCEPT !.object = f]
<1>1. Spawn(S, o) = T
    BY DEF Spawn, Sane, Shape
<1>2. /\ brought \subseteq Child
      /\ \A x \in brought : x \in Object /\ x \notin Pet /\ S.object[x] # Free
    <2>1. brought \subseteq Child /\ brought \subseteq OnMap(S, Home)
        OBVIOUS
    <2>2. \A x \in OnMap(S, Home) : x \in Object /\ S.object[x] # Free
        BY MapsApart, OnMapObjects DEF Sane, Placed
    <2> HIDE DEF brought
    <2> QED BY <2>1, <2>2, KindsAreApart
<1> HIDE DEF brought
<1>3. \A x \in Object : S.object[x] # Free => S.object[x] \in NpcState
    BY DEF Sane, Shape
<1>4. /\ \A x \in Object : x \notin brought /\ x # o => f[x] = S.object[x]
      /\ \A x \in brought : x # o => f[x] = Spawned(S.object[x], o)
      /\ f[o] = Spawned(S.object[o], None)
    BY <1>2
<1>5. ASSUME NEW x \in Object, NEW p \in Object \union {None}, S.object[x] # Free
      PROVE  LET n == S.object[x] k == Spawned(n, p) IN
             /\ k \in NpcState /\ Alike(n, k) /\ k.alive = TRUE /\ k.killowner = n.killowner
             /\ k # Free
    BY <1>3, <1>5, SpawnedState, NotFree
<1>6. ASSUME NEW x \in Object
      PROVE  /\ f[x] \in NpcState \union {Free}
             /\ Fits(S.object[x], f[x], x, P, {}, {})
             /\ f[x] = S.object[x] \/ (S.object[x] # Free /\ Alike(S.object[x], f[x]))
    <2>1. CASE x = o
        <3>1. LET n == S.object[o] k == f[o] IN
              /\ k \in NpcState /\ Alike(n, k) /\ k.alive = TRUE /\ k.killowner = n.killowner
              /\ k # Free
            BY <1>4, <1>5
        <3> QED BY <2>1, <3>1 DEF Fits, Alike
    <2>2. CASE x \in brought /\ x # o
        <3>1. LET n == S.object[x] k == f[x] IN
              /\ k \in NpcState /\ Alike(n, k) /\ k.alive = TRUE /\ k.killowner = n.killowner
              /\ k # Free
            BY <1>2, <1>4, <1>5, <2>2
        <3> QED BY <1>2, <2>2, <3>1 DEF Fits, Alike
    <2>3. CASE x \notin brought /\ x # o
        BY <1>3, <1>4, <2>3 DEF Fits
    <2> QED BY <2>1, <2>2, <2>3
<1>7. f = [x \in Object |-> f[x]]
    OBVIOUS
<1> HIDE DEF f
<1>8. Shape(T) /\ Others(S, T) /\ T.object = f
    <2>1. f \in [Object -> NpcState \union {Free}]
        BY <1>6, <1>7
    <2> QED BY <2>1, ObjectFields DEF Sane
<1> HIDE DEF T
<1>9. Sane(T, P, {})
    <2>1. \A x \in Object : Fits(S.object[x], T.object[x], x, P, {}, {})
        BY <1>6, <1>8
    <2> QED BY <1>8, <2>1, ObjectsSane DEF Others
<1>10. Weds(S, T)
    BY <1>6, <1>8 DEF Weds, Alike
<1>11. OnMap(T, Home) = OnMap(S, Home)
    BY <1>8 DEF OnMap, Others
<1> QED BY <1>1, <1>8, <1>9, <1>10, <1>11 DEF Steady, Quiet, Stay, Rooted, Others

\* Quests and commands spawn NPCs at home.
LEMMA TemporarySane ==
    ASSUME NEW S, Sane(S, {}, {}), NEW o \in Temporary, Unused(S, o)
    PROVE  LET T == Spawn([S EXCEPT !.object[o] = Fresh(None),
                                    !.npcs[Home] = Append(@, o)], o)
           IN  Sane(T, {}, {}) /\ Steady(S, T)
<1> DEFINE k == Spawned(Fresh(None), None)
           f == [S.object EXCEPT ![o] = k]
           g == [S.object EXCEPT ![o] = Fresh(None)]
           list == Append(S.npcs[Home], o)
           lists == [S.npcs EXCEPT ![Home] = list]
           A == [S EXCEPT !.object[o] = Fresh(None), !.npcs[Home] = Append(@, o)]
           T == Spawn(A, o)
<1>1. /\ o \in Object /\ o \notin Npc /\ o \notin Pet /\ o \notin Boss /\ Home \in Map
      /\ Elsewhere \in Map /\ Home # Elsewhere
    BY KindsAreApart, MapsApart DEF Object
<1>2. /\ Fresh(None) \in NpcState /\ Fresh(None).marriage = None
      /\ Fresh(None).killowner = None /\ \A d \in Char : Fresh(None).damage[d] = None
    BY FreshState
<1>3. k \in NpcState /\ New(k)
    BY <1>2, SpawnedState, NotFree DEF Alike, New
<1>4. /\ g \in [Object -> NpcState \union {Free}] /\ g[o] = Fresh(None)
      /\ \A x \in Object \ {o} : g[x] = S.object[x]
      /\ lists \in [Map -> Seq(Object)]
      /\ lists[Home] = list /\ \A m \in Map \ {Home} : lists[m] = S.npcs[m]
      /\ ToSet(list) = ToSet(S.npcs[Home]) \union {o}
    <2>1. S.npcs[Home] \in Seq(Object) /\ S.npcs \in [Map -> Seq(Object)]
        BY <1>1 DEF Sane, Shape
    <2>2. <<o>> \in Seq(Object) /\ ToSet(<<o>>) = {o} /\ list = S.npcs[Home] \o <<o>>
        BY <1>1, <2>1 DEF ToSet
    <2>3. list \in Seq(Object) /\ ToSet(list) = ToSet(S.npcs[Home]) \union {o}
        <3> HIDE DEF list
        <3> QED BY <2>1, <2>2, AppendedList
    <2> HIDE DEF list
    <2>4. /\ lists \in [Map -> Seq(Object)]
          /\ lists[Home] = list /\ \A m \in Map \ {Home} : lists[m] = S.npcs[m]
        BY <1>1, <2>1, <2>3
    <2>5. /\ g \in [Object -> NpcState \union {Free}] /\ g[o] = Fresh(None)
          /\ \A x \in Object \ {o} : g[x] = S.object[x]
        BY <1>1, <1>2 DEF Sane, Shape
    <2> QED BY <2>3, <2>4, <2>5
<1>5. A = [S EXCEPT !.object = g, !.npcs = lists]
    BY DEF Sane, Shape
<1> HIDE DEF g, list, lists, A
<1>6. A = [where |-> S.where, unregister |-> S.unregister, pet |-> S.pet, npc |-> S.npc,
           arena |-> S.arena, npcs |-> lists, object |-> g]
    BY <1>5 DEF Sane, Shape
<1> DEFINE h == [x \in Object |-> IF x = o THEN Spawned(A.object[x], None) ELSE A.object[x]]
<1>7. T = [A EXCEPT !.object = h]
    <2>1. \A x \in Object : x \notin {}
        OBVIOUS
    <2> QED BY <1>1, <1>6, <2>1 DEF Spawn
<1>8. h \in [Object -> NpcState \union {Free}] /\ h[o] = k
      /\ \A x \in Object \ {o} : h[x] = S.object[x]
    <2>1. A.object = g
        BY <1>6
    <2> HIDE DEF k
    <2>2. \A x \in Object : h[x] = IF x = o THEN Spawned(Fresh(None), None) ELSE S.object[x]
        BY <1>4, <2>1
    <2> HIDE DEF h
    <2>3. h = [x \in Object |-> h[x]]
        BY DEF h
    <2>4. h[o] = k /\ \A x \in Object \ {o} : h[x] = S.object[x]
        BY <1>1, <2>2 DEF k
    <2>5. \A x \in Object : S.object[x] \in NpcState \union {Free}
        BY DEF Sane, Shape
    <2> QED BY <1>3, <2>3, <2>4, <2>5
<1> HIDE DEF h, T
<1>9. T = [where |-> S.where, unregister |-> S.unregister, pet |-> S.pet, npc |-> S.npc,
           arena |-> S.arena, npcs |-> lists, object |-> h]
    BY <1>6, <1>7
<1>10. /\ T.where = S.where /\ T.unregister = S.unregister /\ T.pet = S.pet /\ T.npc = S.npc
       /\ T.arena = S.arena /\ T.npcs = lists /\ T.object = h
    BY <1>9
<1>11. Shape(T)
    BY <1>4, <1>8, <1>9, <1>10 DEF Sane, Shape
<1>12. /\ OnMap(T, Home) = OnMap(S, Home) \union {o}
       /\ \A m \in Map \ {Home} : OnMap(T, m) = OnMap(S, m)
    BY <1>4, <1>10 DEF OnMap
<1>13. Appears(S, T, {o}, Home)
    <2>1. \A c \in Char : T.pet[c] = S.pet[c]
        BY <1>10
    <2>2. \A x \in {o} : New(T.object[x]) /\ Unused(S, x)
        BY <1>3, <1>8, <1>10
    <2>3. \A x \in Object \ {o} : T.object[x] = S.object[x]
        BY <1>8, <1>10
    <2>4. {o} \subseteq Object /\ {o} \intersect Pet = {} /\ Home # Elsewhere
        BY <1>1
    <2> HIDE DEF k
    <2> QED BY <1>10, <1>12, <2>1, <2>2, <2>3, <2>4 DEF Appears
<1>14. Sane(T, {}, {}) /\ Weds(S, T) /\ (Rooted(S) => Rooted(T))
    BY <1>1, <1>11, <1>13, AppearSane
<1>15. Steady(S, T)
    BY <1>10, <1>14 DEF Steady, Quiet, Stay
<1> QED BY <1>14, <1>15 DEF T, A

(***************************************************************************)
(* Maps that are read again.                                               *)
(***************************************************************************)

\* Map::Unload.
LEMMA UnloadSane ==
    ASSUME NEW S, Sane(S, {}, {}), NEW m \in Map,
           RemoteReloads \/ \A c \in Char : S.pet[c] \notin OnMap(S, m)
    PROVE  LET T == Unload(S, m) IN
           /\ Sane(T, {}, {}) /\ Quiet(S, T)
           /\ OnMap(T, m) = {} /\ \A k \in Map \ {m} : OnMap(T, k) = OnMap(S, k) \ OnMap(S, m)
           /\ \A o \in OnMap(S, m) : T.object[o] = Free
<1> DEFINE D == OnMap(S, m)
           A == Forget(S, D)
           T == Delete(A, D)
<1>1. Unload(S, m) = T
    BY DEF Unload
<1>2. InMemory(S, D)
    BY OnMapObjects DEF InMemory, Sane, Placed
<1>3. \A k : A.npcs = S.npcs => OnMap(A, k) = OnMap(S, k)
    BY DEF OnMap
<1> HIDE DEF D
<1>4. Sane(A, {}, D) /\ Quiet(S, A) /\ Forgets(S, A, D)
    <2>1. D = {} \union D
        OBVIOUS
    <2> QED BY <1>2, <2>1, ForgetSane
<1> HIDE DEF A
<1>5. /\ A.npcs = S.npcs /\ A.pet = S.pet /\ D \subseteq Object
      /\ \A o \in D : \A c \in Char : A.object[o].damage[c] = None
      /\ \A k \in Map : OnMap(A, k) = OnMap(S, k)
    BY <1>2, <1>3, <1>4 DEF Forgets, InMemory
<1>6. /\ \A o \in D : \E k \in Map : o \in OnMap(A, k)
      /\ RemoteReloads \/ \A c \in Char : A.pet[c] \notin D
    BY <1>5 DEF D
<1>7. Sane(T, {} \ D, D \ D) /\ Quiet(A, T) /\ Deletes(A, T, D)
    <2>1. D \subseteq Object
        BY <1>5
    <2>2. \A o \in D : /\ \A c \in Char : A.object[o].damage[c] = None
                      /\ \E k \in Map : o \in OnMap(A, k)
        BY <1>5, <1>6
    <2>3. RemoteReloads \/ \A c \in Char : A.pet[c] \notin D
        BY <1>6
    <2>4. Sane(A, {}, D) /\ Idle(A, D)
        BY <1>4, <2>1, <2>2, <2>3 DEF Idle
    <2> QED BY <2>4, DeleteSane
<1> HIDE DEF T
<1>8. {} \ D = {} /\ D \ D = {}
    OBVIOUS
<1>9. Sane(T, {}, {})
    BY <1>7, <1>8
<1>10. OnMap(T, m) = {} /\ \A k \in Map \ {m} : OnMap(T, k) = OnMap(S, k) \ OnMap(S, m)
    BY <1>5, <1>7 DEF D, Deletes
<1>11. \A o \in D : T.object[o] = Free
    BY <1>5, <1>7 DEF Deletes
<1> QED BY <1>1, <1>4, <1>7, <1>9, <1>10, <1>11, QuietTwice DEF D

\* Map::Load, of a map that is empty.
LEMMA LoadSane ==
    ASSUME NEW S, Sane(S, {}, {}), NEW m \in Map, OnMap(S, m) = {},
           \A o \in Npc : o \in OnMap(S, Home) \/ S.object[o] = Free
    PROVE  /\ Sane(Load(S, m), {}, {}) /\ Quiet(S, Load(S, m))
           /\ m = Home \/ Rooted(S) => Rooted(Load(S, m))
<1>1. CASE m # Home
    <2>1. Load(S, m) = S
        BY <1>1 DEF Load
    <2>2. Quiet(S, S)
        BY DEF Quiet, Weds, Stay
    <2> QED BY <1>1, <2>1, <2>2
<1>2. CASE m = Home
    <2> DEFINE n == Spawned(Fresh(None), None)
               f == [o \in Object |-> IF o \in Npc THEN n ELSE S.object[o]]
               lists == [S.npcs EXCEPT ![m] = Order]
               T == [S EXCEPT !.npcs = lists, !.object = f]
    <2>1. Load(S, m) = T
        BY <1>2 DEF Load, Sane, Shape
    <2>2. n \in NpcState /\ New(n)
        <3>1. /\ Fresh(None) \in NpcState /\ Fresh(None).marriage = None
              /\ Fresh(None).killowner = None /\ \A d \in Char : Fresh(None).damage[d] = None
            BY FreshState
        <3> QED BY <3>1, SpawnedState, NotFree DEF Alike, New
    <2> HIDE DEF n
    <2>3. /\ f \in [Object -> NpcState \union {Free}]
          /\ \A o \in Npc : f[o] = n
          /\ \A o \in Object \ Npc : f[o] = S.object[o]
        BY <2>2 DEF Sane, Shape, Object
    <2>4. Order \in Seq(Object) /\ ToSet(Order) = Npc
        BY OrderIsOfNpcs DEF Object
    <2>5. /\ lists \in [Map -> Seq(Object)] /\ lists[Home] = Order
          /\ \A k \in Map \ {Home} : lists[k] = S.npcs[k]
        BY <1>2, <2>4 DEF Sane, Shape
    <2> HIDE DEF f, lists
    <2>20. T = [S EXCEPT !.npcs = lists, !.object = f]
        OBVIOUS
    <2> HIDE DEF T
    <2>6. T = [where |-> S.where, unregister |-> S.unregister, pet |-> S.pet, npc |-> S.npc,
               arena |-> S.arena, npcs |-> lists, object |-> f]
        <3>1. Shape(S)
            BY DEF Sane
        <3> QED BY <2>20, <3>1 DEF Shape
    <2>7. /\ T.where = S.where /\ T.unregister = S.unregister /\ T.pet = S.pet
          /\ T.npc = S.npc /\ T.arena = S.arena /\ T.npcs = lists /\ T.object = f
        BY <2>6
    <2>8. Shape(T)
        BY <2>3, <2>5, <2>6, <2>7 DEF Sane, Shape
    <2>9. /\ OnMap(T, Home) = Npc /\ OnMap(S, Home) = {}
          /\ \A k \in Map \ {Home} : OnMap(T, k) = OnMap(S, k)
        BY <1>2, <2>4, <2>5, <2>7 DEF OnMap
    <2>10. /\ \A o \in Npc : o \in Object /\ S.object[o] = Free /\ New(T.object[o])
           /\ \A o \in Object \ Npc : T.object[o] = S.object[o]
        BY <2>2, <2>3, <2>7, <2>9 DEF Object
    <2>11. \A k \in Map : \A o \in OnMap(S, k) : o \in Object /\ o \notin Npc /\ S.object[o] # Free
        BY <2>10, OnMapObjects DEF Sane, Placed
    <2>12. \A k \in Map : \A o \in OnMap(T, k) :
               \/ k = Home /\ o \in Npc
               \/ k # Home /\ o \in OnMap(S, k) /\ o \in Object /\ o \notin Npc
        BY <2>9, <2>11
    <2>13. Matched(T)
        <3> SUFFICES ASSUME NEW c \in Char
                     PROVE  /\ T.where[c] = None => T.unregister[c] = {}
                            /\ \A o \in T.unregister[c] :
                                  T.object[o] # Free /\ T.object[o].damage[c] # None
                            /\ \A o \in Object : T.object[o] # Free
                                  /\ T.object[o].damage[c] # None => o \in T.unregister[c]
            BY DEF Matched
        <3>1. /\ S.where[c] = None => S.unregister[c] = {}
              /\ \A o \in S.unregister[c] : /\ o \in Object
                                            /\ S.object[o] # Free /\ S.object[o].damage[c] # None
              /\ \A o \in Object : S.object[o] # Free /\ S.object[o].damage[c] # None =>
                    o \in S.unregister[c]
            BY DEF Sane, Matched, Shape
        <3> QED BY <2>7, <2>10, <3>1 DEF New
    <2>14. Placed(T)
        <3>1. \A k \in Map : \A o \in OnMap(T, k) : T.object[o] # Free
            BY <2>10, <2>11, <2>12 DEF New
        <3>2. OnMap(T, Elsewhere) \subseteq Pet
            BY <2>9, MapsApart DEF Sane, Placed
        <3>3. \A o \in Temporary : S.object[o] = Free /\ T.object[o] = Free
            BY <2>9, <2>10, KindsAreApart DEF Sane, Placed, Object
        <3> QED BY <3>1, <3>2, <3>3 DEF Placed
    <2>15. Followed(T, {})
        <3>1. \A o \in Pet : o \in Object /\ T.object[o] = S.object[o] /\ o \notin Npc
            BY <2>10, KindsAreApart DEF Object
        <3>2. ASSUME NEW c \in Char, T.pet[c] # None
              PROVE  /\ T.where[c] # None /\ T.pet[c] \notin {}
                     /\ T.object[T.pet[c]] = Free => RemoteReloads
                     /\ T.object[T.pet[c]] # Free =>
                          /\ T.pet[c] \in OnMap(T, T.where[c]) /\ T.object[T.pet[c]].alive = TRUE
                          /\ T.object[T.pet[c]].owner = c
            <4>1. S.pet[c] \in Pet /\ S.where[c] \in Map
                BY <2>7, <3>2 DEF Sane, Shape, Followed
            <4> QED BY <2>7, <2>9, <3>1, <3>2, <4>1 DEF Sane, Followed
        <3>3. ASSUME NEW k \in Map, NEW o \in (OnMap(T, k) \intersect Pet) \ {}
              PROVE  LET c == T.object[o].owner IN c \in Char /\ T.pet[c] = o /\ T.where[c] = k
            BY <2>7, <2>12, <3>1, <3>3 DEF Sane, Followed
        <3> QED BY <3>2, <3>3 DEF Followed
    <2>16. Talking(T)
        <3> SUFFICES ASSUME NEW c \in Char, T.npc[c] # None
                     PROVE  /\ T.where[c] # None /\ T.object[T.npc[c]] # Free
                            /\ T.npc[c] \notin Pet => T.npc[c] \in OnMap(T, T.where[c])
                            /\ \A k \in Map : T.npc[c] \in OnMap(T, k) => T.where[c] = k
            BY DEF Talking
        <3>1. /\ S.npc[c] \in Object /\ S.where[c] \in Map /\ S.object[S.npc[c]] # Free
              /\ S.npc[c] \notin Pet => S.npc[c] \in OnMap(S, S.where[c])
              /\ \A k \in Map : S.npc[c] \in OnMap(S, k) => S.where[c] = k
            BY <2>7 DEF Sane, Shape, Talking
        <3>2. S.npc[c] \notin Npc
            BY <2>10, <3>1
        <3>3. S.npc[c] \in Pet
            BY <2>9, <3>1, MapsApart DEF Sane, Placed
        <3>4. T.object[S.npc[c]] # Free
            BY <2>10, <3>1, <3>2
        <3>5. \A k \in Map : S.npc[c] \in OnMap(T, k) => S.npc[c] \in OnMap(S, k)
            BY <2>12, <3>2
        <3> QED BY <2>7, <3>1, <3>3, <3>4, <3>5, MapsApart
    <2>17. Owned(T, {})
        <3> SUFFICES ASSUME NEW k \in Map, NEW o \in OnMap(T, k), T.object[o].killowner # None
                     PROVE  LET x == T.object[o] IN
                            /\ T.where[x.killowner] # None
                            /\ x.alive = TRUE /\ o \notin Child /\ o \notin {} =>
                                  x.damage[x.killowner] # None
            BY DEF Owned
        <3>1. o \notin Npc
            BY <2>10 DEF New
        <3>2. o \in OnMap(S, k) /\ T.object[o] = S.object[o]
            BY <2>10, <2>12, <3>1
        <3> QED BY <2>7, <3>2 DEF Sane, Owned
    <2>18. Weds(S, T)
        BY <2>10 DEF Weds, New
    <2>19. Sane(T, {}, {}) /\ Quiet(S, T) /\ Rooted(T)
        BY <2>7, <2>8, <2>9, <2>13, <2>14, <2>15, <2>16, <2>17, <2>18
           DEF Sane, Quiet, Stay, Rooted
    <2> QED BY <2>1, <2>19
<1> QED BY <1>1, <1>2

(***************************************************************************)
(* Who logs out.                                                           *)
(***************************************************************************)

\* What the logout of c makes of an NPC.
Rid(n, k, c, found) ==
    /\ k \in NpcState /\ k # Free /\ k.owner = n.owner /\ k.alive = n.alive
    /\ k.damage[c] = None /\ \A d \in Char \ {c} : k.damage[d] = n.damage[d]
    /\ k.killowner = IF found /\ n.killowner = c THEN None ELSE n.killowner
    /\ k.marriage # None => n.marriage # None /\ \A i \in 1..2 :
          k.marriage.partner[i] \in {n.marriage.partner[i], Dangling}

\* ... in its list, and as the owner of the kill.
Unlisted(n, c) ==
    IF n.damage[c] = None THEN n
    ELSE [n EXCEPT !.total = @ - n.damage[c], !.damage[c] = None]
Unowned(n, c, found) ==
    IF found THEN [n EXCEPT !.killowner = IF @ = c THEN None ELSE @] ELSE n

LEMMA RidState ==
    ASSUME NEW n \in NpcState, NEW c \in Char, NEW found \in BOOLEAN
    PROVE  Rid(n, Parted(Unowned(Unlisted(n, c), c, found), c), c, found)
<1> DEFINE l == Unlisted(n, c)
           f == Unowned(l, c, found)
           k == Parted(f, c)
<1>0. /\ l = IF n.damage[c] = None THEN n
              ELSE [n EXCEPT !.total = @ - n.damage[c], !.damage[c] = None]
      /\ f = IF found THEN [l EXCEPT !.killowner = IF @ = c THEN None ELSE @] ELSE l
    BY DEF Unlisted, Unowned
<1> HIDE DEF l, f
<1>1. /\ l \in NpcState /\ l.owner = n.owner /\ l.marriage = n.marriage
      /\ l.killowner = n.killowner /\ l.alive = n.alive
      /\ l.damage[c] = None /\ \A d \in Char \ {c} : l.damage[d] = n.damage[d]
    <2>1. CASE n.damage[c] = None
        BY <1>0, <2>1
    <2>2. CASE n.damage[c] # None
        BY <1>0, <2>2, LeftState
    <2> QED BY <2>1, <2>2
<1> DEFINE o == IF found /\ l.killowner = c THEN None ELSE l.killowner
<1>2. f = [l EXCEPT !.killowner = o] /\ o \in Char \union {None}
    BY <1>0, <1>1 DEF NpcState
<1> HIDE DEF o
<1>3. f \in NpcState /\ Alike(l, f) /\ f.alive = l.alive /\ f.killowner = o
    BY <1>1, <1>2 DEF NpcState, Alike
<1>4. /\ k \in NpcState /\ k.owner = f.owner /\ k.damage = f.damage
      /\ k.killowner = f.killowner /\ k.alive = f.alive
      /\ k.marriage # None => f.marriage # None /\ k.marriage.partner =
             [i \in 1..2 |-> IF f.marriage.partner[i] = c THEN Dangling
                             ELSE f.marriage.partner[i]]
    BY <1>3, PartedState
<1> HIDE DEF k
<1>5. k.marriage # None => n.marriage # None /\ \A i \in 1..2 :
          k.marriage.partner[i] \in {n.marriage.partner[i], Dangling}
    BY <1>1, <1>3, <1>4 DEF Alike
<1>6. k.killowner = IF found /\ n.killowner = c THEN None ELSE n.killowner
    BY <1>1, <1>3, <1>4 DEF o
<1>7. /\ k \in NpcState /\ k # Free /\ k.owner = n.owner /\ k.alive = n.alive
      /\ k.damage[c] = None /\ \A d \in Char \ {c} : k.damage[d] = n.damage[d]
    BY <1>1, <1>3, <1>4, NotFree DEF Alike
<1>8. Rid(n, k, c, found)
    BY <1>5, <1>6, <1>7 DEF Rid
<1> QED BY <1>8 DEF k, f, l

IsRid(S, T, c) ==
    /\ Shape(T) /\ T.where = S.where /\ T.pet = S.pet /\ T.npc = S.npc /\ T.arena = S.arena
    /\ T.npcs = S.npcs
    /\ T.unregister[c] = {} /\ \A d \in Char \ {c} : T.unregister[d] = S.unregister[d]
    /\ \A o \in Object : /\ S.object[o] = Free => T.object[o] = Free
                         /\ S.object[o] # Free =>
                               Rid(S.object[o], T.object[o], c, \E m \in Map : o \in OnMap(S, m))

LEMMA RidSane ==
    ASSUME NEW S, NEW T, Sane(S, {}, {}), NEW c \in Char, IsRid(S, T, c)
    PROVE  /\ Sane(T, {}, {}) /\ Parts(S, T) /\ (Rooted(S) => Rooted(T))
           /\ \A m \in Map : \A o \in OnMap(T, m) : T.object[o].killowner # c
<1> USE DEF Sane
<1>1. /\ Shape(T) /\ T.where = S.where /\ T.pet = S.pet /\ T.npc = S.npc /\ T.arena = S.arena
      /\ T.npcs = S.npcs
      /\ T.unregister[c] = {} /\ \A d \in Char \ {c} : T.unregister[d] = S.unregister[d]
    BY DEF IsRid
<1>2. \A m : OnMap(T, m) = OnMap(S, m)
    BY <1>1 DEF OnMap
<1>3. \A o \in Object : /\ S.object[o] = Free <=> T.object[o] = Free
                        /\ S.object[o] # Free =>
                              /\ T.object[o].owner = S.object[o].owner
                              /\ T.object[o].alive = S.object[o].alive
                              /\ T.object[o].damage[c] = None
                              /\ \A d \in Char \ {c} :
                                    T.object[o].damage[d] = S.object[o].damage[d]
    BY DEF IsRid, Rid
<1>4. \A m \in Map : \A o \in OnMap(S, m) :
          /\ o \in Object /\ S.object[o] # Free
          /\ T.object[o].killowner = IF S.object[o].killowner = c THEN None
                                     ELSE S.object[o].killowner
    <2> SUFFICES ASSUME NEW m \in Map, NEW o \in OnMap(S, m)
                 PROVE  /\ o \in Object /\ S.object[o] # Free
                        /\ T.object[o].killowner = IF S.object[o].killowner = c THEN None
                                                   ELSE S.object[o].killowner
        OBVIOUS
    <2>1. o \in Object /\ S.object[o] # Free
        BY OnMapObjects DEF Placed
    <2> QED BY <2>1 DEF IsRid, Rid
<1>5. Matched(T)
    <2> SUFFICES ASSUME NEW d \in Char
                 PROVE  /\ T.where[d] = None => T.unregister[d] = {}
                        /\ \A o \in T.unregister[d] :
                              T.object[o] # Free /\ T.object[o].damage[d] # None
                        /\ \A o \in Object : T.object[o] # Free /\ T.object[o].damage[d] # None =>
                              o \in T.unregister[d]
        BY DEF Matched
    <2>1. CASE d = c
        BY <1>1, <1>3, <2>1
    <2>2. CASE d # c
        <3>1. /\ S.where[d] = None => S.unregister[d] = {}
              /\ \A o \in S.unregister[d] : /\ o \in Object
                                            /\ S.object[o] # Free /\ S.object[o].damage[d] # None
              /\ \A o \in Object : S.object[o] # Free /\ S.object[o].damage[d] # None =>
                    o \in S.unregister[d]
            BY DEF Matched, Shape
        <3> QED BY <1>1, <1>3, <2>2, <3>1
    <2> QED BY <2>1, <2>2
<1>6. Placed(T)
    BY <1>2, <1>3, <1>4, KindsAreApart DEF Placed, Object
<1>7. Followed(T, {})
    <2>1. \A d \in Char : S.pet[d] # None => S.pet[d] \in Object
        BY DEF Shape, Object
    <2> QED BY <1>1, <1>2, <1>3, <1>4, <2>1 DEF Followed
<1>8. Talking(T)
    BY <1>1, <1>2, <1>3 DEF Talking, Shape
<1>9. Owned(T, {})
    <2> SUFFICES ASSUME NEW m \in Map, NEW o \in OnMap(T, m), T.object[o].killowner # None
                 PROVE  LET n == T.object[o] IN
                        /\ T.where[n.killowner] # None
                        /\ n.alive = TRUE /\ o \notin Child /\ o \notin {} =>
                              n.damage[n.killowner] # None
        BY DEF Owned
    <2>1. /\ o \in OnMap(S, m) /\ o \in Object /\ S.object[o] # Free
          /\ S.object[o].killowner # c /\ T.object[o].killowner = S.object[o].killowner
        BY <1>2, <1>4
    <2>2. /\ S.where[S.object[o].killowner] # None
          /\ S.object[o].alive = TRUE /\ o \notin Child =>
                S.object[o].damage[S.object[o].killowner] # None
        BY <2>1 DEF Owned
    <2>3. S.object[o].killowner \in Char
        BY <2>1 DEF Shape, NpcState
    <2> QED BY <1>1, <1>3, <2>1, <2>2, <2>3
<1>10. Parts(S, T)
    BY <1>3 DEF Parts, IsRid, Rid
<1>11. \A m \in Map : \A o \in OnMap(T, m) : T.object[o].killowner # c
    BY <1>2, <1>4, MapsApart
<1> QED BY <1>1, <1>2, <1>5, <1>6, <1>7, <1>8, <1>9, <1>10, <1>11 DEF Rooted

\* Character::Logout.
LEMMA LogoutKept ==
    ASSUME Kept(Memory), NEW c \in Char, Logout(c)
    PROVE  Kept(Memory') /\ Parts(Memory, Memory')
<1> DEFINE S == Memory
           Leaves(n, o) == IF o \notin unregister[c] THEN n
                           ELSE [n EXCEPT !.total = @ - n.damage[c], !.damage[c] = None]
           Frees(n, o) == IF \A m \in Map : o \notin OnMap(Memory, m) THEN n
                          ELSE [n EXCEPT !.killowner = IF @ = c THEN None ELSE @]
           f == [o \in Object |-> IF S.object[o] = Free THEN Free
                                  ELSE Parted(Frees(Leaves(S.object[o], o), o), c)]
           left == [S EXCEPT !.object = f]
           alone == IF pet[c] = None THEN left ELSE Dismiss(left, {c})
           U == [alone EXCEPT !.where[c] = None, !.unregister[c] = {}, !.npc[c] = None,
                              !.arena = Left(@, {c})]
<1>1. Become(U)
    BY DEF Logout, Memory
<1>2. Sane(S, {}, {}) /\ Shape(S) /\ S.pet = pet /\ S.unregister = unregister
      /\ S.object = object
    BY DEF Kept, Sane, Memory
<1> HIDE DEF S
<1>3. ASSUME NEW o \in Object, S.object[o] # Free
      PROVE  Rid(S.object[o], f[o], c, \E m \in Map : o \in OnMap(S, m))
    <2> DEFINE n == S.object[o]
               found == \E m \in Map : o \in OnMap(S, m)
               l == Leaves(n, o)
               g == Frees(l, o)
    <2>1. n \in NpcState
        BY <1>2, <1>3 DEF Shape
    <2>2. l = IF n.damage[c] = None THEN n
              ELSE [n EXCEPT !.total = @ - n.damage[c], !.damage[c] = None]
        <3>1. o \in unregister[c] <=> n.damage[c] # None
            BY <1>2, <1>3 DEF Sane, Matched
        <3> QED BY <3>1
    <2>3. g = IF found THEN [l EXCEPT !.killowner = IF @ = c THEN None ELSE @] ELSE l
        BY DEF S
    <2>4. f[o] = Parted(g, c)
        BY <1>3
    <2>5. found \in BOOLEAN
        OBVIOUS
    <2> HIDE DEF n, l, g, found, f
    <2>6. f[o] = Parted(Unowned(Unlisted(n, c), c, found), c)
        BY <2>2, <2>3, <2>4 DEF Unlisted, Unowned
    <2>7. Rid(n, Parted(Unowned(Unlisted(n, c), c, found), c), c, found)
        BY <2>1, <2>5, RidState
    <2> QED BY <2>6, <2>7 DEF n, found
<1>4. /\ \A o \in Object : S.object[o] = Free => f[o] = Free
      /\ f = [o \in Object |-> f[o]]
    <2>1. \A o \in Object : S.object[o] = Free => f[o] = Free
        OBVIOUS
    <2> DEFINE g(o) == IF S.object[o] = Free THEN Free
                       ELSE Parted(Frees(Leaves(S.object[o], o), o), c)
    <2>2. f = [o \in Object |-> f[o]]
        <3>1. f = [o \in Object |-> g(o)]
            OBVIOUS
        <3> HIDE DEF f, g
        <3> QED BY <3>1
    <2> QED BY <2>1, <2>2
<1> HIDE DEF f
<1>5. f \in [Object -> NpcState \union {Free}]
    BY <1>3, <1>4 DEF Rid
<1> DEFINE out == [left EXCEPT !.unregister[c] = {}]
           u == [S.unregister EXCEPT ![c] = {}]
<1>6. Shape(left) /\ Others(S, left) /\ left.object = f
    BY <1>2, <1>5, ObjectFields
<1> HIDE DEF left
<1>7. out = [where |-> S.where, unregister |-> u, pet |-> S.pet, npc |-> S.npc,
             arena |-> S.arena, npcs |-> S.npcs, object |-> f]
    <2>1. left = [where |-> S.where, unregister |-> S.unregister, pet |-> S.pet, npc |-> S.npc,
                  arena |-> S.arena, npcs |-> S.npcs, object |-> f]
        BY <1>6 DEF Shape, Others
    <2>2. out = [left EXCEPT !.unregister = u]
        BY <2>1
    <2> HIDE DEF u, out
    <2> QED BY <2>1, <2>2
<1>8. /\ out.where = S.where /\ out.unregister = u /\ out.pet = S.pet /\ out.npc = S.npc
      /\ out.arena = S.arena /\ out.npcs = S.npcs /\ out.object = f
    BY <1>7
<1>9. /\ u \in [Char -> SUBSET Object] /\ u[c] = {}
      /\ \A d \in Char \ {c} : u[d] = S.unregister[d]
    BY <1>2 DEF Shape
<1> HIDE DEF u
<1>10. IsRid(S, out, c)
    <2>1. Shape(out)
        BY <1>2, <1>5, <1>7, <1>8, <1>9 DEF Shape
    <2> QED BY <1>3, <1>4, <1>8, <1>9, <2>1 DEF IsRid
<1>11. /\ Sane(out, {}, {}) /\ Parts(S, out) /\ (Rooted(S) => Rooted(out))
       /\ \A m \in Map : \A o \in OnMap(out, m) : out.object[o].killowner # c
    BY <1>2, <1>10, RidSane
<1> DEFINE away == IF pet[c] = None THEN out ELSE Dismiss(out, {c})
<1>12. Sane(away, {}, {}) /\ Steady(out, away) /\ away.pet[c] = None
    <2>1. CASE pet[c] = None
        <3>1. Steady(out, out)
            BY DEF Steady, Quiet, Weds, Stay
        <3> QED BY <1>2, <1>8, <1>11, <2>1, <3>1
    <2>2. CASE pet[c] # None
        <3>1. {c} \subseteq Char /\ \A d \in {c} : out.pet[d] # None
            BY <1>2, <1>8, <2>2
        <3>2. Sane(Dismiss(out, {c}), {}, {}) /\ Steady(out, Dismiss(out, {c}))
            BY <1>11, <3>1, DismissSane
        <3>3. Dismiss(out, {c}).pet[c] = None
            <4>1. Shape(out)
                BY <1>11 DEF Sane
            <4> HIDE DEF out
            <4> QED BY <4>1, DismissFields
        <3> QED BY <2>2, <3>2, <3>3
    <2> QED BY <2>1, <2>2
<1>13. /\ away.where = out.where /\ away.unregister = out.unregister /\ away.npc = out.npc
       /\ away.arena = out.arena /\ away.object = out.object
       /\ \A m \in Map : OnMap(away, m) \subseteq OnMap(out, m)
    <2>1. CASE pet[c] = None
        BY <2>1
    <2>2. CASE pet[c] # None
        <3>1. Shape(out) /\ away = Dismiss(out, {c})
            BY <1>11, <2>2 DEF Sane
        <3> HIDE DEF out, away
        <3> QED BY <3>1, DismissFields
    <2> QED BY <2>1, <2>2
<1>14. Shape(alone) /\ away = [alone EXCEPT !.unregister[c] = {}] /\ alone.unregister = S.unregister
    <2>1. CASE pet[c] = None
        BY <1>6, <2>1 DEF Others
    <2>2. CASE pet[c] # None
        <3> DEFINE lists == [m \in Map |-> Erased(S.npcs[m], {S.pet[d] : d \in {c}})]
                   p == [d \in Char |-> IF d \in {c} THEN None ELSE S.pet[d]]
        <3>1. Dismiss(left, {c}) = [left EXCEPT !.npcs = lists, !.pet = p]
            BY <1>6 DEF Dismiss, Shape, Others
        <3>2. Dismiss(out, {c}) = [out EXCEPT !.npcs = lists, !.pet = p]
            <4> HIDE DEF out, u
            <4> QED BY <1>2, <1>7, <1>8 DEF Dismiss, Shape
        <3> HIDE DEF lists, p
        <3>3. Shape(Dismiss(left, {c}))
            BY <1>6, DismissFields
        <3>4. /\ Dismiss(left, {c}) =
                    [where |-> S.where, unregister |-> S.unregister, pet |-> p,
                     npc |-> S.npc, arena |-> S.arena, npcs |-> lists, object |-> f]
              /\ Dismiss(out, {c}) =
                    [where |-> S.where, unregister |-> u, pet |-> p,
                     npc |-> S.npc, arena |-> S.arena, npcs |-> lists, object |-> f]
            <4>1. left = [where |-> S.where, unregister |-> S.unregister, pet |-> S.pet,
                          npc |-> S.npc, arena |-> S.arena, npcs |-> S.npcs, object |-> f]
                BY <1>6 DEF Shape, Others
            <4> HIDE DEF out, u
            <4>2. Dismiss(left, {c}) =
                    [where |-> S.where, unregister |-> S.unregister, pet |-> p,
                     npc |-> S.npc, arena |-> S.arena, npcs |-> lists, object |-> f]
                BY <3>1, <4>1
            <4>3. Dismiss(out, {c}) =
                    [where |-> S.where, unregister |-> u, pet |-> p,
                     npc |-> S.npc, arena |-> S.arena, npcs |-> lists, object |-> f]
                BY <1>7, <3>2
            <4> QED BY <4>2, <4>3
        <3> QED BY <2>2, <3>3, <3>4 DEF u
    <2> QED BY <2>1, <2>2
<1> HIDE DEF alone, away, out
<1> DEFINE w == [away.where EXCEPT ![c] = None]
           t == [away.npc EXCEPT ![c] = None]
           a == Left(away.arena, {c})
<1>15. U = [away EXCEPT !.where = w, !.npc = t, !.arena = a]
    <2>1. away.where = alone.where /\ away.npc = alone.npc /\ away.arena = alone.arena
        BY <1>14 DEF Shape
    <2> DEFINE v == [alone.unregister EXCEPT ![c] = {}]
    <2>0. alone = [where |-> alone.where, unregister |-> alone.unregister,
                  pet |-> alone.pet, npc |-> alone.npc, arena |-> alone.arena,
                  npcs |-> alone.npcs, object |-> alone.object]
        BY <1>14 DEF Shape
    <2>2. away = [where |-> alone.where, unregister |-> v,
                  pet |-> alone.pet, npc |-> alone.npc, arena |-> alone.arena,
                  npcs |-> alone.npcs, object |-> alone.object]
        <3>1. away = [alone EXCEPT !.unregister = v]
            BY <1>14, <2>0
        <3> HIDE DEF v
        <3> QED BY <2>0, <3>1
    <2> HIDE DEF a, w, t, v
    <2>3. [away EXCEPT !.where = w, !.npc = t, !.arena = a]
            = [where |-> w, unregister |-> v,
               pet |-> alone.pet, npc |-> t, arena |-> a,
               npcs |-> alone.npcs, object |-> alone.object]
        <3> DEFINE x == [away EXCEPT !.where = w]
                   y == [x EXCEPT !.npc = t]
                   z == [y EXCEPT !.arena = a]
        <3>1. x = [where |-> w, unregister |-> v, pet |-> alone.pet, npc |-> alone.npc,
                   arena |-> alone.arena, npcs |-> alone.npcs, object |-> alone.object]
            BY <2>2
        <3> HIDE DEF x
        <3>2. y = [where |-> w, unregister |-> v, pet |-> alone.pet, npc |-> t,
                   arena |-> alone.arena, npcs |-> alone.npcs, object |-> alone.object]
            BY <3>1
        <3> HIDE DEF y
        <3>3. z = [where |-> w, unregister |-> v, pet |-> alone.pet, npc |-> t,
                   arena |-> a, npcs |-> alone.npcs, object |-> alone.object]
            BY <3>2
        <3> QED BY <3>3 DEF x, y
    <2>4. a = Left(alone.arena, {c})
        BY <2>1 DEF a
    <2>5. U = [where |-> w, unregister |-> v,
               pet |-> alone.pet, npc |-> t, arena |-> a,
               npcs |-> alone.npcs, object |-> alone.object]
        <3>1. U = [alone EXCEPT !.where = w, !.unregister = v, !.npc = t, !.arena = a]
            <4>1. /\ w = [alone.where EXCEPT ![c] = None] /\ t = [alone.npc EXCEPT ![c] = None]
                  /\ v = [alone.unregister EXCEPT ![c] = {}]
                BY <2>1 DEF w, t, v
            <4> QED BY <2>0, <2>4, <4>1
        <3> HIDE DEF U
        <3> QED BY <2>0, <3>1
    <2> QED BY <2>3, <2>5
<1>16. /\ w \in [Char -> Map \union {None}] /\ w[c] = None
       /\ \A d \in Char \ {c} : w[d] = away.where[d]
       /\ t \in [Char -> Object \union {None}] /\ t[c] = None
       /\ \A d \in Char \ {c} : t[d] = away.npc[d]
    BY <1>12 DEF Sane, Shape
<1> HIDE DEF w, t, U
<1>17. U = [where |-> w, unregister |-> away.unregister, pet |-> away.pet, npc |-> t,
            arena |-> a, npcs |-> away.npcs, object |-> away.object]
    <2> HIDE DEF a
    <2>1. Shape(away)
        BY <1>12 DEF Sane
    <2> QED BY <1>15, <2>1 DEF Shape
<1>18. /\ U.where = w /\ U.unregister = away.unregister /\ U.pet = away.pet /\ U.npc = t
       /\ U.arena = a /\ U.npcs = away.npcs /\ U.object = away.object
    BY <1>17
<1>19. Shape(U)
    <2>1. Shape(away)
        BY <1>12 DEF Sane
    <2> HIDE DEF a
    <2> QED BY <1>16, <1>17, <1>18, <2>1 DEF Shape
<1>20. Sane(U, {}, {}) /\ Weds(away, U) /\ (Rooted(away) => Rooted(U))
    <2>1. \A d \in Char \ {c} : U.where[d] = away.where[d] /\ U.npc[d] = away.npc[d]
        BY <1>16, <1>18
    <2>2. \A d \in Char : d \in {c} => away.pet[d] = None /\ U.npc[d] = None
        BY <1>12, <1>16, <1>18
    <2>3. \A d \in Char : d \in {c} /\ U.where[d] = None =>
              /\ away.unregister[d] = {}
              /\ \A m \in Map : \A o \in OnMap(away, m) : away.object[o].killowner # d
        BY <1>8, <1>9, <1>11, <1>13
    <2> QED BY <1>12, <1>18, <1>19, <2>1, <2>2, <2>3, MovedSane
<1>21. Counted(U)
    <2>1. Counted(S) /\ S.arena = away.arena /\ S.where = away.where
        BY <1>8, <1>13 DEF Kept, S
    <2>2. Arrives(S, U, {c}, None)
        <3>1. \A d \in Char : U.where[d] = IF d \in {c} THEN None ELSE S.where[d]
            BY <1>16, <1>18, <2>1
        <3> DEFINE l == Left(S.arena, {c})
        <3>2. Entered(l, {c}) = l
            <4> DEFINE e == S.arena
                       g == e.occupants - Cardinality({c} \intersect e.members)
            <4>1. l = [e EXCEPT !.members = e.members \ {c}, !.occupants = g]
                BY DEF Left
            <4>2. g \in Int
                <5> DEFINE out2 == {c} \intersect e.members
                <5>1. out2 \subseteq Char
                    OBVIOUS
                <5> HIDE DEF out2
                <5>2. Cardinality(out2) \in Nat
                    BY <5>1, CharsAreFinite, FS_Subset, FS_CardinalityType
                <5>3. e.occupants \in Int
                    BY <2>1 DEF Counted
                <5> QED BY <5>2, <5>3 DEF out2
            <4> HIDE DEF g, l
            <4>3. l = [members |-> e.members \ {c}, next |-> e.next, occupants |-> g,
                       enabled |-> e.enabled] /\ e.next = {}
                BY <2>1, <4>1 DEF Counted
            <4>4. l.members = e.members \ {c} /\ l.next = {} /\ l.occupants = g
                BY <4>3
            <4>5. /\ l.members \union ({c} \intersect l.next) = l.members
                  /\ l.next \ {c} = l.next /\ {c} \intersect l.next = {}
                BY <4>4
            <4>6. l.occupants + Cardinality({}) = l.occupants
                BY <4>2, <4>4, FS_EmptySet
            <4> QED BY <4>3, <4>5, <4>6 DEF Entered
        <3> QED BY <1>18, <2>1, <3>1, <3>2 DEF Arrives
    <2>3. Ring(S, {c}, None)
        BY <2>1, CountedRing
    <2> QED BY <2>2, <2>3, ArriveCounted
<1>22. Kept(U)
    BY <1>11, <1>12, <1>20, <1>21 DEF Kept, Steady, S
<1>23. Parts(S, U)
    BY <1>11, <1>12, <1>20, WedsParts, PartsTwice DEF Steady, Quiet
<1> QED BY <1>1, <1>22, <1>23, BecomeKept, PartsTwice DEF S

(***************************************************************************)
(* Who talks to whom.                                                      *)
(***************************************************************************)

\* Some end their talk, and some begin one with an NPC of their map.
Talks(S, T) ==
    /\ Shape(T) /\ T.where = S.where /\ T.unregister = S.unregister /\ T.pet = S.pet
    /\ T.arena = S.arena /\ T.npcs = S.npcs /\ T.object = S.object
    /\ \A d \in Char : \/ T.npc[d] \in {S.npc[d], None}
                       \/ S.where[d] # None /\ T.npc[d] \in OnMap(S, S.where[d])

\* No NPC is on two maps.
LEMMA OneMap ==
    ASSUME NEW S, NEW P, NEW E, Sane(S, P, E), NEW m \in Map, NEW o \in OnMap(S, m), o \notin P
    PROVE  \A k \in Map : o \in OnMap(S, k) => k = m
<1> SUFFICES ASSUME NEW k \in Map, o \in OnMap(S, k), k # m PROVE FALSE
    OBVIOUS
<1>1. o \in Pet
    BY MapsApart DEF Sane, Placed
<1>2. S.where[S.object[o].owner] = m /\ S.where[S.object[o].owner] = k
    BY <1>1 DEF Sane, Followed
<1> QED BY <1>2

LEMMA TalksSane ==
    ASSUME NEW S, NEW T, Sane(S, {}, {}), Talks(S, T)
    PROVE  Sane(T, {}, {}) /\ Steady(S, T)
<1>1. \A k : OnMap(T, k) = OnMap(S, k)
    BY DEF OnMap, Talks
<1>2. Shape(T) /\ Matched(T) /\ Placed(T)
    BY <1>1 DEF Sane, Talks, Matched, Placed
<1>3. Followed(T, {})
    BY <1>1 DEF Sane, Talks, Followed
<1>4. Owned(T, {})
    BY <1>1 DEF Sane, Talks, Owned
<1>5. Talking(T)
    <2> SUFFICES ASSUME NEW d \in Char, T.npc[d] # None
                 PROVE  /\ T.where[d] # None /\ T.object[T.npc[d]] # Free
                        /\ T.npc[d] \notin Pet => T.npc[d] \in OnMap(T, T.where[d])
                        /\ \A m \in Map : T.npc[d] \in OnMap(T, m) => T.where[d] = m
        BY DEF Talking
    <2>0. T.where = S.where /\ T.object = S.object
        BY DEF Talks
    <2>1. CASE T.npc[d] = S.npc[d]
        BY <1>1, <2>0, <2>1 DEF Sane, Talking
    <2>2. CASE S.where[d] # None /\ T.npc[d] \in OnMap(S, S.where[d])
        <3>1. S.where[d] \in Map
            BY <2>2 DEF Sane, Shape
        <3>2. \A k \in Map : T.npc[d] \in OnMap(S, k) => k = S.where[d]
            BY <2>2, <3>1, OneMap
        <3>3. S.object[T.npc[d]] # Free
            BY <2>2, <3>1 DEF Sane, Placed
        <3> QED BY <1>1, <2>0, <2>2, <3>2, <3>3
    <2> QED BY <2>1, <2>2 DEF Talks
<1>6. Weds(S, T)
    BY DEF Weds, Talks
<1> QED BY <1>1, <1>2, <1>3, <1>4, <1>5, <1>6
        DEF Sane, Steady, Quiet, Stay, Rooted, Talks

LEMMA TalkFields ==
    ASSUME NEW S, Sane(S, {}, {}), NEW c \in Char, NEW o,
           o = None \/ (S.where[c] # None /\ o \in OnMap(S, S.where[c]))
    PROVE  LET T == [S EXCEPT !.npc[c] = o] IN Talks(S, T)
<1> DEFINE t == [S.npc EXCEPT ![c] = o]
           T == [S EXCEPT !.npc = t]
<1>1. Shape(S)
    BY DEF Sane
<1>2. o \in Object \union {None}
    BY <1>1, OnMapObjects DEF Shape
<1>3. [S EXCEPT !.npc[c] = o] = T
    BY <1>1 DEF Shape
<1>4. t \in [Char -> Object \union {None}] /\ t[c] = o /\ \A d \in Char \ {c} : t[d] = S.npc[d]
    BY <1>1, <1>2 DEF Shape
<1> HIDE DEF t
<1>5. T = [where |-> S.where, unregister |-> S.unregister, pet |-> S.pet, npc |-> t,
           arena |-> S.arena, npcs |-> S.npcs, object |-> S.object]
    BY <1>1 DEF Shape
<1> HIDE DEF T
<1>6. /\ T.where = S.where /\ T.unregister = S.unregister /\ T.pet = S.pet /\ T.npc = t
      /\ T.arena = S.arena /\ T.npcs = S.npcs /\ T.object = S.object
    BY <1>5
<1>7. Shape(T)
    BY <1>1, <1>4, <1>5, <1>6 DEF Shape
<1>8. \A d \in Char : \/ T.npc[d] \in {S.npc[d], None}
                      \/ S.where[d] # None /\ T.npc[d] \in OnMap(S, S.where[d])
    BY <1>4, <1>6
<1> QED BY <1>3, <1>6, <1>7, <1>8 DEF Talks

(***************************************************************************)
(* Handlers and timers, one by one.                                        *)
(***************************************************************************)

LEMMA MemoryFields ==
    /\ Memory.where = where /\ Memory.unregister = unregister /\ Memory.pet = pet
    /\ Memory.npc = npc /\ Memory.arena = arena /\ Memory.npcs = npcs
    /\ Memory.object = object
    BY DEF Memory

\* A handler that keeps everything but a few of the pointers.
LEMMA SteadyKept ==
    ASSUME Kept(Memory), NEW S, Sane(S, {}, {}), Steady(Memory, S), Become(S)
    PROVE  Kept(Memory') /\ Parts(Memory, Memory')
    BY SteadyKeeps, BecomeKeeps

LEMMA OpenKept ==
    ASSUME Kept(Memory), NEW c \in Char, NEW o \in Object, Open(c, o)
    PROVE  Kept(Memory') /\ Parts(Memory, Memory')
<1> DEFINE T == [Memory EXCEPT !.npc[c] = o]
<1>1. Memory.where[c] # None /\ o \in OnMap(Memory, Memory.where[c]) /\ Become(T)
    BY MemoryFields DEF Open, Here
<1>2. Sane(Memory, {}, {})
    BY DEF Kept
<1> HIDE DEF T
<1>3. Talks(Memory, T)
    BY <1>1, <1>2, TalkFields DEF T
<1> QED BY <1>1, <1>2, <1>3, TalksSane, SteadyKept

LEMMA WalkKept ==
    ASSUME Kept(Memory), NEW c \in Char, Walk(c)
    PROVE  Kept(Memory') /\ Parts(Memory, Memory')
<1> DEFINE T == [Memory EXCEPT !.npc[c] = None]
<1>1. Become(T)
    BY DEF Walk
<1>2. Sane(Memory, {}, {})
    BY DEF Kept
<1> HIDE DEF T
<1>3. Talks(Memory, T)
    BY <1>2, TalkFields DEF T
<1> QED BY <1>1, <1>2, <1>3, TalksSane, SteadyKept

LEMMA WarpKept ==
    ASSUME Kept(Memory), NEW c \in Char, NEW m \in Map, Warp(c, m)
    PROVE  Kept(Memory') /\ Parts(Memory, Memory')
<1>1. PICK T \in Arrive(Memory, {c}, m) : Become(T)
    BY DEF Warp
<1>2. Keeps(Memory, T)
    BY ArriveKeeps DEF Kept
<1> QED BY <1>1, <1>2, BecomeKeeps

LEMMA AttackKept ==
    ASSUME Kept(Memory), NEW c \in Char, NEW o \in Object, NEW amount \in 0..MaxHp,
           Attack(c, o, amount) \/ PetAttack(c, o, amount)
    PROVE  Kept(Memory') /\ Parts(Memory, Memory')
<1> DEFINE T == Damage(Memory, o, c, amount)
<1>1. /\ Memory.where[c] # None /\ o \in OnMap(Memory, Memory.where[c]) /\ Become(T)
    BY MemoryFields DEF Attack, PetAttack, Here
<1>2. Sane(Memory, {}, {}) /\ Memory.where[c] \in Map /\ amount \in Int
    BY <1>1, MaxHpIsPositive DEF Kept, Sane, Shape
<1> HIDE DEF T
<1>3. Sane(T, {}, {}) /\ Steady(Memory, T)
    BY <1>1, <1>2, DamageSane DEF T
<1> QED BY <1>1, <1>3, SteadyKept

LEMMA CallSane ==
    ASSUME NEW S, Sane(S, {}, {}), NEW c \in Char, S.where[c] # None, NEW o \in Pet, Unused(S, o)
    PROVE  Sane(Call(S, c, o), {}, {}) /\ Steady(S, Call(S, c, o))
<1> DEFINE C == {c} \cap {x \in Char : S.pet[x] # None}
           back == Dismiss(S, C)
           at == [x \in {c} |-> o]
           m == S.where[c]
<1>1. C \subseteq Char /\ (\A d \in C : S.pet[d] # None) /\ (c \notin C => S.pet[c] = None)
      /\ Shape(S) /\ m \in Map
    BY DEF Sane, Shape
<1>2. Call(S, c, o) = Called(back, at, m)
    BY DEF Call
<1>3. at \in [{c} -> Pet] /\ at[c] = o /\ IsInjective(at)
    BY DEF IsInjective
<1> HIDE DEF C, at, m
<1>4. Sane(back, {}, {}) /\ Steady(S, back)
    BY <1>1, DismissSane
<1>5. /\ Shape(back) /\ back.where = S.where /\ back.unregister = S.unregister
      /\ back.npc = S.npc /\ back.object = S.object
      /\ \A d \in Char : back.pet[d] = IF d \in C THEN None ELSE S.pet[d]
      /\ \A k \in Map : OnMap(back, k) = OnMap(S, k) \ {S.pet[d] : d \in C}
    BY <1>1, DismissFields
<1> HIDE DEF back
<1>6. Unused(back, o)
    <2>1. \A k \in Map : OnMap(back, k) \subseteq OnMap(S, k)
        BY <1>5
    <2>2. \A d \in Char : back.pet[d] \in {S.pet[d], None} /\ back.npc[d] \in {S.npc[d], None}
        BY <1>5
    <2>3. o \in Object
        BY DEF Object
    <2> QED BY <1>1, <1>5, <2>1, <2>2, <2>3, UnusedBack
<1>7. back.pet[c] = None /\ back.where[c] = m
    BY <1>1, <1>5 DEF m
<1>8. Sane(Called(back, at, m), {}, {}) /\ Steady(back, Called(back, at, m))
    <2>1. \A d \in {c} : back.pet[d] = None /\ back.where[d] = m /\ Unused(back, at[d])
        BY <1>3, <1>6, <1>7
    <2> QED BY <1>1, <1>3, <1>4, <2>1, CalledSane
<1> QED BY <1>2, <1>4, <1>8, SteadyTwice

\* CallPet, DismissPet and PetStrays.
LEMMA PetKept ==
    ASSUME Kept(Memory), NEW c \in Char, CallPet(c) \/ DismissPet(c) \/ PetStrays(c)
    PROVE  Kept(Memory') /\ Parts(Memory, Memory')
<1>0. Sane(Memory, {}, {}) /\ Memory.where[c] # None
    BY MemoryFields DEF Kept, CallPet, DismissPet, PetStrays, InWorld
<1>1. \/ \E o \in Pet : Unused(Memory, o) /\ Become(Call(Memory, c, o))
      \/ Memory.pet[c] # None /\ Become(Dismiss(Memory, {c}))
    BY MemoryFields DEF CallPet, DismissPet, PetStrays
<1>2. ASSUME NEW o \in Pet, Unused(Memory, o), Become(Call(Memory, c, o))
      PROVE  Kept(Memory') /\ Parts(Memory, Memory')
    BY <1>0, <1>2, CallSane, SteadyKept
<1>3. ASSUME Memory.pet[c] # None, Become(Dismiss(Memory, {c}))
      PROVE  Kept(Memory') /\ Parts(Memory, Memory')
    <2>1. {c} \subseteq Char /\ \A d \in {c} : Memory.pet[d] # None
        BY <1>3
    <2>2. Sane(Dismiss(Memory, {c}), {}, {}) /\ Steady(Memory, Dismiss(Memory, {c}))
        BY <1>0, <2>1, DismissSane
    <2> QED BY <1>3, <2>2, SteadyKept
<1> QED BY <1>1, <1>2, <1>3

\* One NPC becomes another state of it, of which others know no more.
LEMMA ChangeKept ==
    ASSUME NEW S, Sane(S, {}, {}), NEW o \in Object, S.object[o] # Free, NEW k \in NpcState,
           Alike(S.object[o], k), k.alive = S.object[o].alive,
           k.killowner \in {S.object[o].killowner, None}
    PROVE  LET T == [S EXCEPT !.object[o] = k] IN
           Sane(T, {}, {}) /\ Steady(S, T) /\ Changed(S, T, o, k)
<1> DEFINE T == [S EXCEPT !.object[o] = k]
<1>1. Shape(S)
    BY DEF Sane
<1>2. Changed(S, T, o, k)
    BY <1>1, ChangeFields
<1> HIDE DEF T
<1>3. Fits(S.object[o], k, o, {}, {}, {})
    BY NotFree DEF Fits, Alike
<1>4. k.marriage \in {S.object[o].marriage, None}
    BY DEF Alike
<1>5. Sane(T, {}, {}) /\ Steady(S, T)
    BY <1>2, <1>3, <1>4, ChangeSane
<1> QED BY <1>2, <1>5 DEF T

LEMMA RecoverKept ==
    ASSUME Kept(Memory), NEW o \in Object, Recover(o)
    PROVE  Kept(Memory') /\ Parts(Memory, Memory')
<1>1. Memory.object[o] # Free /\ Memory.object[o] = object[o] /\ Sane(Memory, {}, {})
    BY MemoryFields DEF Recover, Alive, Kept
<1>2. object[o] \in NpcState
    BY <1>1 DEF Sane, Shape
<1>3. PICK hp \in (object[o].hp + 1)..MaxHp : Become([Memory EXCEPT !.object[o].hp = hp])
    BY DEF Recover
<1>4. hp \in Int
    BY <1>2, MaxHpIsPositive DEF NpcState
<1> DEFINE k == [object[o] EXCEPT !.hp = hp]
           T == [Memory EXCEPT !.object[o] = k]
<1>5. k \in NpcState /\ Alike(object[o], k) /\ k.alive = object[o].alive
      /\ k.killowner = object[o].killowner
    BY <1>2, <1>4, HealedState
<1>6. Become(T)
    BY <1>1, <1>3 DEF Memory
<1> HIDE DEF k
<1>7. Sane(T, {}, {}) /\ Steady(Memory, T)
    BY <1>1, <1>5, ChangeKept
<1> QED BY <1>6, <1>7, SteadyKept

LEMMA RespawnKept ==
    ASSUME Kept(Memory), NEW o \in Object, Respawn(o)
    PROVE  Kept(Memory') /\ Parts(Memory, Memory')
<1>1. /\ Sane(Memory, {}, {}) /\ o \in OnMap(Memory, Home) /\ ~Alive(Memory, o)
      /\ Memory.object[o] = object[o]
      /\ Become(Spawn([Memory EXCEPT !.object[o].killowner = None], o))
    BY MemoryFields DEF Respawn, Kept
<1>2. Memory.object[o] # Free /\ Memory.object[o] \in NpcState
    BY <1>1, MapsApart DEF Sane, Placed, Shape
<1>3. o \notin Pet
    <2> SUFFICES ASSUME o \in Pet PROVE FALSE
        OBVIOUS
    <2> DEFINE c == Memory.object[o].owner
    <2>1. c \in Char /\ Memory.pet[c] = o /\ o # None
        BY <1>1, MapsApart DEF Sane, Followed
    <2> HIDE DEF c
    <2>2. Followed(Memory, {})
        BY <1>1 DEF Sane
    <2>3. Memory.object[Memory.pet[c]].alive = TRUE
        BY <1>2, <2>1, <2>2 DEF Followed
    <2> QED BY <1>1, <1>2, <2>1, <2>3 DEF Alive
<1> DEFINE k == [object[o] EXCEPT !.killowner = None]
           S == [Memory EXCEPT !.object[o] = k]
<1>4. k \in NpcState /\ Alike(object[o], k) /\ k.alive = object[o].alive /\ k.killowner = None
    BY <1>1, <1>2, OwnedState
<1>5. [Memory EXCEPT !.object[o].killowner = None] = S
    BY DEF Memory
<1> HIDE DEF k
<1>6. Sane(S, {}, {}) /\ Steady(Memory, S) /\ Changed(Memory, S, o, k)
    BY <1>1, <1>2, <1>4, ChangeKept
<1>7. S.object[o] # Free /\ S.object[o].killowner = None
    BY <1>4, <1>6, NotFree DEF Changed
<1> HIDE DEF S
<1>8. Sane(Spawn(S, o), {}, {}) /\ Steady(S, Spawn(S, o))
    BY <1>3, <1>6, <1>7, SpawnSane
<1> QED BY <1>1, <1>5, <1>6, <1>8, SteadyTwice, SteadyKept

LEMMA SpawnTemporaryKept ==
    ASSUME Kept(Memory), NEW o \in Temporary, SpawnTemporary(o)
    PROVE  Kept(Memory') /\ Parts(Memory, Memory')
<1> DEFINE T == Spawn([Memory EXCEPT !.object[o] = Fresh(None),
                                     !.npcs[Home] = Append(@, o)], o)
<1>1. Sane(Memory, {}, {}) /\ Unused(Memory, o) /\ Become(T)
    BY DEF SpawnTemporary, Kept
<1>2. Sane(T, {}, {}) /\ Steady(Memory, T)
    BY <1>1, TemporarySane
<1> HIDE DEF T
<1> QED BY <1>1, <1>2, SteadyKept

LEMMA DespawnKept ==
    ASSUME Kept(Memory), DespawnNPC
    PROVE  Kept(Memory') /\ Parts(Memory, Memory')
<1> DEFINE D == {o \in OnMap(Memory, Home) \cap Temporary : Alive(Memory, o)}
           T == Die(Memory, D)
<1>1. Sane(Memory, {}, {}) /\ Become(T)
    BY DEF DespawnNPC, Kept
<1>2. D \subseteq Object \ Pet /\ \A o \in D : Memory.object[o] # Free
    BY KindsAreApart DEF Object, Alive
<1> HIDE DEF D
<1>3. Sane(T, {}, {}) /\ Steady(Memory, T)
    BY <1>1, <1>2, DieSane
<1> HIDE DEF T
<1> QED BY <1>1, <1>3, SteadyKept

LEMMA ReloadKept ==
    ASSUME Kept(Memory), NEW c \in Char, NEW m \in Map, ReloadMap(c, m)
    PROVE  Kept(Memory') /\ Parts(Memory, Memory')
<1> DEFINE C == {x \in Char : where[x] = where[c] /\ pet[x] # None}
           back == Dismiss(Memory, C)
           S == Unload(back, m)
           T == Load(S, m)
<1>1. Sane(Memory, {}, {}) /\ Rooted(Memory) /\ where[c] # None
      /\ (m = where[c] \/ RemoteReloads) /\ (Become(back) \/ Become(T))
    BY DEF ReloadMap, Kept, InWorld
<1>2. C \subseteq Char /\ \A d \in C : Memory.pet[d] # None
    BY MemoryFields
<1>3. \A x \in Char : x \notin C => where[x] # where[c] \/ pet[x] = None
    OBVIOUS
<1> HIDE DEF C
<1>4. Sane(back, {}, {}) /\ Steady(Memory, back)
    BY <1>1, <1>2, DismissSane
<1>5. back.where = where /\ \A d \in Char : back.pet[d] = IF d \in C THEN None ELSE pet[d]
    <2>1. Shape(Memory)
        BY <1>1 DEF Sane
    <2> QED BY <2>1, DismissFields, MemoryFields
<1> HIDE DEF back
<1>6. RemoteReloads \/ \A x \in Char : back.pet[x] \notin OnMap(back, m)
    <2> SUFFICES ASSUME m = where[c], NEW x \in Char, back.pet[x] \in OnMap(back, m) PROVE FALSE
        BY <1>1
    <2> DEFINE o == back.pet[x]
    <2>1. o \in Object /\ o # None /\ back.object[o] # Free
        BY <1>4, OnMapObjects, MapsApart DEF Sane, Placed
    <2>2. o \in OnMap(back, back.where[x]) /\ back.where[x] # None
        BY <1>4, <2>1 DEF Sane, Followed
    <2>3. back.where[x] \in Map
        BY <1>4, <2>2 DEF Sane, Shape
    <2>4. back.where[x] = m
        BY <1>4, <2>2, <2>3, OneMap
    <2> QED BY <1>3, <1>5, <2>1, <2>4
<1>7. /\ Sane(S, {}, {}) /\ Quiet(back, S) /\ OnMap(S, m) = {}
      /\ \A k \in Map \ {m} : OnMap(S, k) = OnMap(back, k) \ OnMap(back, m)
      /\ \A o \in OnMap(back, m) : S.object[o] = Free
    BY <1>4, <1>6, UnloadSane
<1>8. Npc \subseteq OnMap(back, Home)
    BY <1>1, <1>4 DEF Steady, Rooted
<1> HIDE DEF S
<1>9. (\A o \in Npc : o \in OnMap(S, Home) \/ S.object[o] = Free) /\ (m = Home \/ Rooted(S))
    <2>1. CASE m = Home
        BY <1>7, <1>8, <2>1
    <2>2. CASE m # Home
        <3>1. m = Elsewhere /\ Npc \intersect Pet = {}
            BY <2>2, MapsApart, KindsAreApart
        <3>2. OnMap(back, m) \subseteq Pet
            BY <1>4, <3>1 DEF Sane, Placed
        <3>3. OnMap(S, Home) = OnMap(back, Home) \ OnMap(back, m)
            BY <1>7, <2>2, MapsApart
        <3> QED BY <1>8, <3>1, <3>2, <3>3 DEF Rooted
    <2> QED BY <2>1, <2>2
<1>10. Sane(T, {}, {}) /\ Quiet(S, T) /\ Rooted(T)
    BY <1>7, <1>9, LoadSane
<1> HIDE DEF T
<1>11. Steady(Memory, T)
    BY <1>4, <1>7, <1>10, QuietTwice DEF Steady
<1>12. CASE Become(back)
    BY <1>4, <1>12, SteadyKept
<1>13. CASE Become(T)
    BY <1>10, <1>11, <1>13, SteadyKept
<1> QED BY <1>1, <1>12, <1>13

\* What a child and an owner of a kill are minded to do.
LEMMA MindedState ==
    ASSUME Kept(Memory), NEW o \in Object, object[o] \in NpcState, NEW bored \in BOOLEAN
    PROVE  LET k == Minded(object[o], o, bored) IN
           /\ k \in NpcState /\ Alike(object[o], k) /\ k.alive = object[o].alive
           /\ k.killowner \in {object[o].killowner, None}
<1> DEFINE n == object[o]
           list == npcs[Home]
           bosses == {i \in DOMAIN list : list[i] \in Boss}
           first == list[CHOOSE i \in bosses : \A j \in bosses : i <= j]
           mother == IF o \in Child /\ n.parent = None /\ bosses # {} THEN first ELSE n.parent
           owner == IF n.killowner \in Opponents(n) /\ (bored \/ where[n.killowner] # Home)
                    THEN None ELSE n.killowner
           k == Minded(n, o, bored)
<1>1. list \in Seq(Object)
    BY MapsApart, MemoryFields DEF Kept, Sane, Shape
<1>2. bosses # {} => first \in Object
    <2>1. bosses \subseteq Nat /\ \A i \in bosses : list[i] \in Object
        BY <1>1
    <2> HIDE DEF bosses, list
    <2> SUFFICES ASSUME bosses # {} PROVE first \in Object
        OBVIOUS
    <2>2. \E i \in bosses : \A j \in bosses : i <= j
        BY <2>1, LeastOf
    <2> QED BY <2>1, <2>2
<1>3. mother \in Object \union {None}
    BY <1>2 DEF NpcState
<1>4. owner \in {n.killowner, None} /\ owner \in Char \union {None}
    BY DEF NpcState
<1>5. k = [n EXCEPT !.parent = mother, !.killowner = owner]
    BY DEF Minded, NpcState
<1> HIDE DEF mother, owner, k
<1>6. /\ k \in NpcState /\ Alike(n, k) /\ k.alive = n.alive /\ k.killowner = owner
    BY <1>3, <1>4, <1>5 DEF NpcState, Alike
<1> QED BY <1>4, <1>6 DEF k

LEMMA ActKept ==
    ASSUME Kept(Memory), NEW o \in Object, Act(o)
    PROVE  Kept(Memory') /\ Parts(Memory, Memory')
<1>1. /\ Sane(Memory, {}, {}) /\ o \notin Pet
      /\ Memory.object[o] # Free /\ Memory.object[o] = object[o]
    BY MemoryFields DEF Act, Alive, Kept
<1>2. object[o] \in NpcState
    BY <1>1 DEF Sane, Shape
<1> DEFINE State(bored) == [Memory EXCEPT !.object[o] = Minded(object[o], o, bored)]
           Does(S) ==
               \/ Become(S)
               \/ \E c \in Here(o), m \in Map : \E T \in Arrive(S, {c}, m) : Become(T)
               \/ \E c \in Here(o), amount \in 1..MaxHp :
                     /\ pet[c] # None /\ Alive(S, pet[c])
                     /\ Become(Damage(S, pet[c], c, amount))
<1>3. PICK bored \in BOOLEAN : Does(State(bored))
    <2>1. \A bored \in BOOLEAN :
              State(bored) = [Memory EXCEPT !.object[o] = Minded(@, o, bored)]
        BY DEF Memory
    <2> HIDE DEF State
    <2> QED BY <2>1 DEF Act
<1> DEFINE k == Minded(object[o], o, bored)
           S == [Memory EXCEPT !.object[o] = k]
<1>4. Does(S)
    BY <1>3
<1>5. /\ k \in NpcState /\ Alike(object[o], k) /\ k.alive = object[o].alive
      /\ k.killowner \in {object[o].killowner, None}
    BY <1>2, MindedState
<1> HIDE DEF k, State
<1>6. Sane(S, {}, {}) /\ Steady(Memory, S) /\ Changed(Memory, S, o, k)
    BY <1>1, <1>5, ChangeKept
<1> HIDE DEF S, Does
<1>7. Keeps(Memory, S)
    BY <1>6, SteadyKeeps
<1>8. ASSUME Become(S) PROVE Kept(Memory') /\ Parts(Memory, Memory')
    BY <1>7, <1>8, BecomeKeeps
<1>9. ASSUME NEW c \in Here(o), NEW m \in Map, NEW T \in Arrive(S, {c}, m), Become(T)
      PROVE  Kept(Memory') /\ Parts(Memory, Memory')
    <2>1. {c} \subseteq Char
        BY DEF Here
    <2>2. Keeps(S, T)
        BY <1>6, <2>1, ArriveKeeps
    <2> QED BY <1>7, <1>9, <2>2, KeepsTwice, BecomeKeeps
<1>10. ASSUME NEW c \in Here(o), NEW amount \in 1..MaxHp, pet[c] # None, Alive(S, pet[c]),
              Become(Damage(S, pet[c], c, amount))
       PROVE  Kept(Memory') /\ Parts(Memory, Memory')
    <2> DEFINE T == Damage(S, pet[c], c, amount)
    <2>1. c \in Char /\ amount \in Int
        BY MaxHpIsPositive DEF Here
    <2>2. S.pet = pet /\ S.object[pet[c]] # Free
        BY <1>6, <1>10, MemoryFields DEF Changed, Others, Alive
    <2>3. /\ S.where[c] # None /\ pet[c] \in OnMap(S, S.where[c])
        BY <1>6, <1>10, <2>1, <2>2 DEF Sane, Followed
    <2>4. S.where[c] \in Map /\ pet[c] \in Object
        BY <1>6, <1>10, <2>1, <2>2, <2>3 DEF Sane, Shape, Object
    <2> HIDE DEF T
    <2>5. Sane(T, {}, {}) /\ Steady(S, T)
        BY <1>6, <2>1, <2>3, <2>4, DamageSane DEF T
    <2>6. Become(T)
        BY <1>10 DEF T
    <2> QED BY <1>6, <2>5, <2>6, SteadyTwice, SteadyKept
<1> QED BY <1>4, <1>8, <1>9, <1>10 DEF Does

\* Who comes back is known to nobody.
LEMMA EnterKept ==
    ASSUME NEW S, Kept(S), NEW c \in Char, S.where[c] = None, NEW m \in Map
    PROVE  LET U == [S EXCEPT !.where[c] = m, !.unregister[c] = {}] IN Kept(U) /\ Parts(S, U)
<1> DEFINE w == [S.where EXCEPT ![c] = m]
           u == [S.unregister EXCEPT ![c] = {}]
           T == [S EXCEPT !.where = w]
           U == [S EXCEPT !.where[c] = m, !.unregister[c] = {}]
<1>1. Sane(S, {}, {}) /\ Shape(S)
    BY DEF Kept, Sane
<1>2. S.unregister[c] = {} /\ S.pet[c] = None /\ S.npc[c] = None
    BY <1>1 DEF Sane, Matched, Followed, Talking
<1>3. u = S.unregister
    BY <1>1, <1>2 DEF Shape
<1>4. U = T
    <2>1. U = [S EXCEPT !.where = w, !.unregister = u]
        BY <1>1 DEF Shape
    <2> HIDE DEF w, u, U
    <2>2. S = [where |-> S.where, unregister |-> S.unregister, pet |-> S.pet, npc |-> S.npc,
               arena |-> S.arena, npcs |-> S.npcs, object |-> S.object]
        BY <1>1 DEF Shape
    <2>3. T = [where |-> w, unregister |-> S.unregister, pet |-> S.pet, npc |-> S.npc,
               arena |-> S.arena, npcs |-> S.npcs, object |-> S.object]
        BY <2>2
    <2> HIDE DEF T
    <2>4. U = [T EXCEPT !.unregister = u]
        BY <2>1 DEF T
    <2> QED BY <1>3, <2>3, <2>4
<1>5. w \in [Char -> Map \union {None}] /\ w[c] = m /\ \A d \in Char \ {c} : w[d] = S.where[d]
    BY <1>1 DEF Shape
<1> HIDE DEF w, u, U
<1>6. T = [where |-> w, unregister |-> S.unregister, pet |-> S.pet, npc |-> S.npc,
           arena |-> S.arena, npcs |-> S.npcs, object |-> S.object]
    <2>1. S = [where |-> S.where, unregister |-> S.unregister, pet |-> S.pet, npc |-> S.npc,
               arena |-> S.arena, npcs |-> S.npcs, object |-> S.object]
        BY <1>1 DEF Shape
    <2> QED BY <2>1
<1> HIDE DEF T
<1>7. /\ T.where = w /\ T.unregister = S.unregister /\ T.pet = S.pet /\ T.npc = S.npc
      /\ T.arena = S.arena /\ T.npcs = S.npcs /\ T.object = S.object
    BY <1>6
<1>8. Shape(T)
    BY <1>1, <1>5, <1>6, <1>7 DEF Shape
<1>9. Sane(T, {}, {}) /\ Weds(S, T) /\ (Rooted(S) => Rooted(T))
    <2>1. \A d \in Char \ {c} : T.where[d] = S.where[d] /\ T.npc[d] = S.npc[d]
        BY <1>5, <1>7
    <2>2. \A d \in Char : d \in {c} => S.pet[d] = None /\ T.npc[d] = None
        BY <1>2, <1>7
    <2>3. \A d \in Char : d \in {c} /\ T.where[d] = None =>
              /\ S.unregister[d] = {}
              /\ \A k \in Map : \A o \in OnMap(S, k) : S.object[o].killowner # d
        BY <1>5, <1>7, MapsApart
    <2> QED BY <1>1, <1>7, <1>8, <2>1, <2>2, <2>3, MovedSane
<1>10. Counted(T)
    <2>1. \A d \in S.arena.members : d # c
        BY MapsApart DEF Kept, Counted
    <2>2. \A d \in S.arena.members : T.where[d] = ArenaMap
        BY <1>5, <1>7, <2>1 DEF Kept, Counted
    <2> QED BY <1>7, <2>2 DEF Kept, Counted
<1>11. Kept(T) /\ Parts(S, T)
    BY <1>9, <1>10, WedsParts DEF Kept
<1> QED BY <1>4, <1>11 DEF U

LEMMA LoginKept ==
    ASSUME Kept(Memory), NEW c \in Char, Login(c)
    PROVE  /\ Kept(Memory')
           /\ ReusesMemory = FALSE => Parts(Memory, Memory')
<1>1. PICK m \in Map, S \in Allocated(c) :
          Become([S EXCEPT !.where[c] = m, !.unregister[c] = {}])
    BY DEF Login
<1>2. Memory.where[c] = None /\ Sane(Memory, {}, {})
    BY MemoryFields DEF Login, InWorld, Kept
<1>3. CASE S = Memory
    <2> DEFINE U == [Memory EXCEPT !.where[c] = m, !.unregister[c] = {}]
    <2>1. Kept(U) /\ Parts(Memory, U)
        BY <1>2, EnterKept
    <2>2. Become(U)
        BY <1>1, <1>3
    <2> HIDE DEF U
    <2> QED BY <2>1, <2>2, BecomeKept, PartsTwice
<1>4. ASSUME S # Memory
      PROVE  ReusesMemory # FALSE /\ Kept(Memory')
    <2>1. PICK x \in Places : /\ ReusesMemory
                              /\ S = [Memory EXCEPT !.object[x[1]].marriage.partner[x[2]] = c]
        BY <1>4 DEF Allocated
    <2> DEFINE o == x[1]
               i == x[2]
               n == Memory.object[o]
               p == [n.marriage.partner EXCEPT ![i] = c]
               m2 == [n.marriage EXCEPT !.partner = p]
               k == [n EXCEPT !.marriage = m2]
    <2>2. o \in Object /\ i \in 1..2 /\ n # Free /\ n.marriage # None
        BY MemoryFields DEF Places
    <2>3. n \in NpcState
        BY <1>2, <2>2 DEF Sane, Shape
    <2>4. n.marriage \in Marriages
        BY <2>2, <2>3 DEF NpcState
    <2>5. S = [Memory EXCEPT !.object[o] = k]
        BY <2>1 DEF Memory
    <2>6. p \in [1..2 -> Char \union {Dangling}]
        BY <2>2, <2>4 DEF Marriages
    <2> HIDE DEF p, o, i
    <2>7. m2 \in Marriages
        BY <2>4, <2>6 DEF Marriages
    <2> HIDE DEF m2
    <2>8. /\ k \in NpcState /\ k.damage = n.damage /\ k.owner = n.owner /\ k.alive = n.alive
          /\ k.killowner = n.killowner
        BY <2>3, <2>7, WedState DEF Alike
    <2> HIDE DEF k, n
    <2>9. Changed(Memory, S, o, k)
        BY <1>2, <2>2, <2>5, <2>8, ChangeFields DEF Sane
    <2>10. Fits(Memory.object[o], k, o, {}, {}, {})
        BY <2>2, <2>8, NotFree DEF Fits, n
    <2>11. Sane(S, {}, {})
        BY <1>2, <2>2, <2>8, <2>9, <2>10, ChangeSane
    <2>12. S.where = Memory.where /\ S.arena = Memory.arena /\ S.npcs = Memory.npcs
        BY <2>9 DEF Changed, Others
    <2>13. Kept(S)
        BY <2>11, <2>12 DEF Kept, Rooted, OnMap, Counted
    <2> DEFINE U == [S EXCEPT !.where[c] = m, !.unregister[c] = {}]
    <2>14. Kept(U) /\ Become(U)
        BY <1>1, <1>2, <2>12, <2>13, EnterKept
    <2> HIDE DEF U
    <2> QED BY <2>1, <2>14, BecomeKept
<1> QED BY <1>3, <1>4

LEMMA NextKept ==
    ASSUME Kept(Memory), Next
    PROVE  /\ Kept(Memory')
           /\ ReusesMemory = FALSE => Parts(Memory, Memory')
<1>1. ASSUME NEW c \in Char, Login(c)
      PROVE  Kept(Memory') /\ (ReusesMemory = FALSE => Parts(Memory, Memory'))
    BY <1>1, LoginKept
<1>2. ASSUME NEW c \in Char, \/ Logout(c) \/ CallPet(c) \/ DismissPet(c) \/ PetStrays(c)
                             \/ Walk(c)
      PROVE  Kept(Memory') /\ Parts(Memory, Memory')
    BY <1>2, LogoutKept, PetKept, WalkKept
<1>3. ASSUME NEW c \in Char, NEW o \in Object, Open(c, o)
      PROVE  Kept(Memory') /\ Parts(Memory, Memory')
    BY <1>3, OpenKept
<1>4. ASSUME NEW c \in Char, NEW m \in Map, Warp(c, m) \/ ReloadMap(c, m)
      PROVE  Kept(Memory') /\ Parts(Memory, Memory')
    BY <1>4, WarpKept, ReloadKept
<1>5. ASSUME NEW c \in Char, NEW o \in Object, NEW amount \in 0..MaxHp,
             Attack(c, o, amount) \/ PetAttack(c, o, amount)
      PROVE  Kept(Memory') /\ Parts(Memory, Memory')
    BY <1>5, AttackKept
<1>6. ASSUME NEW o \in Object, Act(o) \/ Recover(o) \/ Respawn(o)
      PROVE  Kept(Memory') /\ Parts(Memory, Memory')
    BY <1>6, ActKept, RecoverKept, RespawnKept
<1>7. ASSUME NEW o \in Temporary, SpawnTemporary(o)
      PROVE  Kept(Memory') /\ Parts(Memory, Memory')
    BY <1>7, SpawnTemporaryKept
<1>8. ASSUME DespawnNPC PROVE Kept(Memory') /\ Parts(Memory, Memory')
    BY <1>8, DespawnKept
<1> QED BY <1>1, <1>2, <1>3, <1>4, <1>5, <1>6, <1>7, <1>8 DEF Next

\* What games take from RingKeeps.
LEMMA ArenaFields ==
    ASSUME NEW a
    PROVE  LET S == [Memory EXCEPT !.arena = a] IN S.arena = a /\ S.where = where
    BY DEF Memory

LEMMA GamesKept ==
    ASSUME Kept(Memory), Games
    PROVE  Kept(Memory') /\ Parts(Memory, Memory')
<1>0. Sane(Memory, {}, {}) /\ Counted(Memory) /\ Memory.arena = arena /\ Memory.where = where
      /\ ArenaMap \in Map
    BY MemoryFields, MapsApart DEF Kept
<1>00. /\ arena = [members |-> arena.members, next |-> arena.next,
                   occupants |-> arena.occupants, enabled |-> arena.enabled]
       /\ arena.members \subseteq Char /\ arena.next = {} /\ arena.enabled \in BOOLEAN
       /\ arena.occupants \in Int
       /\ \A c \in arena.members : where[c] = ArenaMap
       /\ arena.enabled = TRUE => arena.occupants = Cardinality(arena.members)
       /\ arena.enabled = FALSE => arena.members = {}
    BY <1>0 DEF Counted
<1>1. ASSUME NEW C \in SUBSET Char, Spawns(C)
      PROVE  Kept(Memory') /\ Parts(Memory, Memory')
    <2> DEFINE a == [arena EXCEPT !.next = C]
               S == [Memory EXCEPT !.arena = a]
    <2>1. PICK T \in Arrive([Memory EXCEPT !.arena.next = @ \cup C], C, ArenaMap) : Become(T)
        BY <1>1 DEF Spawns
    <2>2. [Memory EXCEPT !.arena.next = @ \cup C] = S
        <3>1. Memory.arena.next \cup C = C
            BY <1>0, <1>00
        <3> QED BY <1>0, <3>1 DEF Memory
    <2>3. a = [members |-> arena.members, next |-> C, occupants |-> arena.occupants,
               enabled |-> arena.enabled]
        BY <1>00
    <2>4. arena.enabled = TRUE
        BY <1>1, <1>00 DEF Spawns
    <2> HIDE DEF a
    <2>5. S.arena = a /\ S.where = where
        BY ArenaFields
    <2> HIDE DEF S
    <2>6. /\ a = [members |-> a.members, next |-> a.next, occupants |-> a.occupants,
                  enabled |-> a.enabled]
          /\ a.members = arena.members /\ a.next = C /\ a.occupants = arena.occupants
          /\ a.enabled = TRUE
        BY <2>3, <2>4
    <2>7. Ring(S, C, ArenaMap)
        <3>1. /\ a.members \subseteq Char /\ a.next \subseteq C /\ a.enabled \in BOOLEAN
              /\ a.occupants \in Int
            BY <1>00, <2>6
        <3>2. \A c \in a.members : S.where[c] = ArenaMap
            <4>1. \A c \in arena.members : where[c] = ArenaMap
                BY <1>00
            <4>2. a.members = arena.members
                BY <2>6
            <4> QED BY <2>5, <4>1, <4>2
        <3>3. a.occupants = Cardinality(a.members) /\ ~(a.enabled = FALSE)
            <4>1. arena.occupants = Cardinality(arena.members)
                BY <1>00, <2>4
            <4>2. a.members = arena.members /\ a.occupants = arena.occupants /\ a.enabled = TRUE
                BY <2>6
            <4> QED BY <4>1, <4>2
        <3> QED BY <2>5, <2>6, <3>1, <3>2, <3>3 DEF Ring
    <2>8. Keeps(Memory, T)
        BY <1>0, <2>1, <2>2, <2>7, RingKeeps DEF S
    <2> QED BY <2>1, <2>8, BecomeKeeps
<1>2. ASSUME NEW c \in Char, NEW d \in Char, Hit(c, d)
      PROVE  Kept(Memory') /\ Parts(Memory, Memory')
    <2> DEFINE out == IF arena.occupants = 2 THEN {c, d} ELSE {d}
    <2>1. PICK T \in Arrive(Memory, out, ArenaMap) : Become(T)
        BY <1>2 DEF Hit
    <2>2. out \subseteq Char
        OBVIOUS
    <2> HIDE DEF out
    <2>3. Keeps(Memory, T)
        BY <1>0, <2>1, <2>2, ArriveKeeps
    <2> QED BY <2>1, <2>3, BecomeKeeps
<1>3. ASSUME NEW enabled \in BOOLEAN, LoadArena(enabled)
      PROVE  Kept(Memory') /\ Parts(Memory, Memory')
    <2> DEFINE staying == {c \in arena.members : where[c] = ArenaMap}
               in == IF enabled THEN staying ELSE {}
               number == Cardinality(staying)
               a == [arena EXCEPT !.enabled = enabled, !.members = in, !.occupants = number]
               out == IF enabled THEN {} ELSE staying
               S == [Memory EXCEPT !.arena = a]
    <2>1. PICK T \in Arrive(S, out, ArenaMap) : Become(T)
        BY <1>3 DEF LoadArena
    <2>2. /\ staying \subseteq Char /\ out \subseteq Char
          /\ in \subseteq Char /\ (\A c \in in : where[c] = ArenaMap)
          /\ (enabled = TRUE => in = staying) /\ (enabled = FALSE => in = {})
        BY <1>00
    <2>3. number \in Int
        <3> HIDE DEF staying
        <3> QED BY <2>2, CharsAreFinite, FS_Subset, FS_CardinalityType
    <2>4. enabled = TRUE => number = Cardinality(in)
        BY <2>2
    <2> HIDE DEF in, number, out, staying
    <2>5. a = [members |-> in, next |-> {}, occupants |-> number, enabled |-> enabled]
        <3> DEFINE x == [arena EXCEPT !.enabled = enabled]
                   y == [x EXCEPT !.members = in]
        <3>1. x = [members |-> arena.members, next |-> {}, occupants |-> arena.occupants,
                   enabled |-> enabled]
            BY <1>00
        <3> HIDE DEF x
        <3>2. y = [members |-> in, next |-> {}, occupants |-> arena.occupants,
                   enabled |-> enabled]
            BY <3>1
        <3> HIDE DEF y
        <3>3. [y EXCEPT !.occupants = number] =
                  [members |-> in, next |-> {}, occupants |-> number, enabled |-> enabled]
            BY <3>2
        <3> QED BY <3>3 DEF x, y
    <2> HIDE DEF a
    <2>6. S.arena = a /\ S.where = where
        BY ArenaFields
    <2> HIDE DEF S
    <2>7. Ring(S, out, ArenaMap)
        <3>1. /\ a.members = in /\ a.next = {} /\ a.occupants = number /\ a.enabled = enabled
              /\ a = [members |-> a.members, next |-> a.next, occupants |-> a.occupants,
                      enabled |-> a.enabled]
            BY <2>5
        <3> QED BY <2>2, <2>3, <2>4, <2>6, <3>1 DEF Ring
    <2>8. Keeps(Memory, T)
        BY <1>0, <2>1, <2>2, <2>7, RingKeeps DEF S
    <2> QED BY <2>1, <2>8, BecomeKeeps
<1> QED BY <1>1, <1>2, <1>3 DEF Games

(***************************************************************************)
(* Marriage.                                                               *)
(***************************************************************************)

\* A priest's ceremony becomes another one.
LEMMA WeddingKept ==
    ASSUME NEW S, Kept(S), NEW o \in Object, S.object[o] # Free, NEW m \in Marriages
    PROVE  LET T == [S EXCEPT !.object[o].marriage = m] IN
           /\ Kept(T) /\ T.object[o].marriage = m
           /\ \A x \in Object \ {o} : T.object[x] = S.object[x]
<1> DEFINE n == S.object[o]
           k == [n EXCEPT !.marriage = m]
           T == [S EXCEPT !.object[o].marriage = m]
<1>1. Sane(S, {}, {}) /\ Shape(S)
    BY DEF Kept, Sane
<1>2. n \in NpcState
    BY <1>1 DEF Shape
<1>3. T = [S EXCEPT !.object[o] = k]
    BY <1>1 DEF Shape
<1>4. /\ k \in NpcState /\ k.marriage = m /\ k.damage = n.damage /\ k.owner = n.owner
      /\ k.alive = n.alive /\ k.killowner = n.killowner
    BY <1>2, WedState
<1> HIDE DEF k, T, n
<1>5. Changed(S, T, o, k)
    BY <1>1, <1>3, <1>4, ChangeFields
<1>6. Fits(S.object[o], k, o, {}, {}, {})
    BY <1>4, NotFree DEF Fits, n
<1>7. Sane(T, {}, {})
    BY <1>1, <1>4, <1>5, <1>6, ChangeSane
<1>8. T.where = S.where /\ T.arena = S.arena /\ T.npcs = S.npcs
    BY <1>5 DEF Changed, Others
<1>9. Kept(T)
    BY <1>7, <1>8 DEF Kept, Rooted, OnMap, Counted
<1> QED BY <1>4, <1>5, <1>9 DEF Changed, T

\* Who talks to a priest stands before it.
LEMMA AtThePriest ==
    ASSUME NEW S, Kept(S), NEW c \in Char, S.npc[c] \in Priest
    PROVE  /\ S.npc[c] \in Object /\ S.object[S.npc[c]] # Free
           /\ S.where[c] # None /\ S.npc[c] \in OnMap(S, S.where[c])
<1>1. S.npc[c] \in Npc /\ S.npc[c] \notin Pet /\ S.npc[c] # None
    BY PriestsServe, KindsAreApart, MapsApart DEF Object
<1> QED BY <1>1 DEF Kept, Sane, Talking, Object

LEMMA RequestKept ==
    ASSUME Kept(Memory), NEW c \in Char, NEW d \in Char, Priest_Request(c, d)
    PROVE  \E U : /\ Kept(U) /\ Become(U)
                  /\ U.object[npc[c]].marriage = [partner |-> <<c, d>>,
                        accepted |-> <<FALSE, FALSE>>, begun |-> FALSE, state |-> 1]
                  /\ \A x \in Object \ {npc[c]} : U.object[x] = object[x]
<1> DEFINE m == [partner |-> <<c, d>>, accepted |-> <<FALSE, FALSE>>, begun |-> FALSE,
                 state |-> 1]
           o == npc[c]
           S == [Memory EXCEPT !.npc[d] = o]
           T == [S EXCEPT !.object[o].marriage = m]
<1>1. /\ Become([Memory EXCEPT !.npc[d] = npc[c], !.object[npc[c]].marriage = m])
      /\ npc[c] \in Priest /\ where[d] = where[c]
    BY DEF Priest_Request
<1>2. /\ o \in Object /\ Memory.object[o] # Free
      /\ Memory.where[d] # None /\ o \in OnMap(Memory, Memory.where[d])
    BY <1>1, AtThePriest, MemoryFields
<1>3. m \in Marriages
    <2> DEFINE p == <<c, d>>
               q == <<FALSE, FALSE>>
    <2>1. p \in [1..2 -> Char \union {Dangling}]
        OBVIOUS
    <2>2. q \in [1..2 -> BOOLEAN]
        <3> DEFINE no == FALSE
        <3>1. no \in BOOLEAN
            OBVIOUS
        <3> HIDE DEF no
        <3>2. <<no, no>> \in [1..2 -> BOOLEAN]
            BY <3>1
        <3> QED BY <3>2 DEF no
    <2>3. m = [partner |-> p, accepted |-> q, begun |-> FALSE, state |-> 1]
        OBVIOUS
    <2> HIDE DEF p, q, m
    <2> QED BY <2>1, <2>2, <2>3 DEF Marriages
<1>4. [Memory EXCEPT !.npc[d] = npc[c], !.object[npc[c]].marriage = m] = T
    BY DEF Memory
<1> HIDE DEF m, o
<1>5. Talks(Memory, S)
    BY <1>2, TalkFields DEF Kept
<1> HIDE DEF S
<1>6. Sane(S, {}, {}) /\ Steady(Memory, S)
    BY <1>5, TalksSane DEF Kept
<1>7. Kept(S) /\ S.object = object
    BY <1>5, <1>6, SteadyKeeps, MemoryFields DEF Kept, Keeps, Talks
<1>8. Kept(T) /\ T.object[o].marriage = m /\ \A x \in Object \ {o} : T.object[x] = S.object[x]
    BY <1>2, <1>3, <1>7, WeddingKept, MemoryFields
<1> HIDE DEF T
<1>9. Kept(T) /\ Become(T) /\ T.object[npc[c]].marriage = m
      /\ \A x \in Object \ {npc[c]} : T.object[x] = object[x]
    BY <1>1, <1>4, <1>7, <1>8 DEF o
<1> QED BY <1>9 DEF m

\* Priest_Accept and Priest_Use: who is led through the ceremony stays the same.
LEMMA AnswerKept ==
    ASSUME Kept(Memory), NEW c \in Char, Priest_Accept(c) \/ Priest_Use(c)
    PROVE  Kept(Memory') /\ Parts(Memory, Memory')
<1> DEFINE o == npc[c]
           m == Marriage(o)
           said == [i \in 1..2 |-> m.accepted[i] \/ m.partner[i] = c]
           k1 == [m EXCEPT !.begun = TRUE, !.state = 1]
           k2 == [m EXCEPT !.accepted = said]
<1>1. o \in Object /\ Memory.object[o] # Free /\ m # None /\ Memory.object[o].marriage = m
      /\ object[o] \in NpcState
    <2>1. o \in Priest /\ m # None
        BY DEF Priest_Accept, Priest_Use
    <2>2. o \in Object /\ Memory.object[o] # Free
        BY <2>1, AtThePriest, MemoryFields
    <2> QED BY <2>1, <2>2, MemoryFields DEF Marriage, Kept, Sane, Shape
<1>2. m \in Marriages
    BY <1>1, MemoryFields DEF NpcState
<1>3. Married(o, k1) \/ Married(o, k2)
    <2>1. CASE Priest_Accept(c)
        BY <2>1 DEF Priest_Accept
    <2>2. CASE Priest_Use(c)
        BY <2>2, <1>2 DEF Priest_Use, Marriages
    <2> QED BY <2>1, <2>2
<1>4. k1 \in Marriages /\ k1.partner = m.partner
    <2> HIDE DEF m
    <2> DEFINE k == [m EXCEPT !.begun = TRUE]
    <2>1. k \in Marriages /\ k.partner = m.partner
        BY <1>2 DEF Marriages
    <2> HIDE DEF k
    <2>2. [k EXCEPT !.state = 1] \in Marriages /\ [k EXCEPT !.state = 1].partner = k.partner
        BY <2>1 DEF Marriages
    <2> QED BY <2>1, <2>2 DEF k
<1>5. k2 \in Marriages /\ k2.partner = m.partner
    <2>1. said \in [1..2 -> BOOLEAN]
        <3>1. \A i \in 1..2 : (m.accepted[i] \/ m.partner[i] = c) \in BOOLEAN
            OBVIOUS
        <3> QED BY <3>1
    <2> HIDE DEF said
    <2> QED BY <1>2, <2>1 DEF Marriages
<1> HIDE DEF o, m, said, k1, k2
<1>6. ASSUME NEW k \in Marriages, k.partner = m.partner, Married(o, k)
      PROVE  Kept(Memory') /\ Parts(Memory, Memory')
    <2> DEFINE T == [Memory EXCEPT !.object[o].marriage = k]
    <2>1. Kept(T) /\ T.object[o].marriage = k
          /\ \A x \in Object \ {o} : T.object[x] = Memory.object[x]
        BY <1>1, WeddingKept
    <2>2. Become(T)
        BY <1>6 DEF Married
    <2> HIDE DEF T
    <2>3. Parts(Memory, T)
        <3> SUFFICES ASSUME NEW x \in Object, T.object[x] # Free, T.object[x].marriage # None
                     PROVE  /\ Memory.object[x] # Free /\ Memory.object[x].marriage # None
                            /\ \A i \in 1..2 : T.object[x].marriage.partner[i] \in
                                  {Memory.object[x].marriage.partner[i], Dangling}
            BY DEF Parts
        <3>1. CASE x = o
            BY <1>1, <1>6, <2>1, <3>1
        <3>2. CASE x # o
            BY <2>1, <3>2
        <3> QED BY <3>1, <3>2
    <2> QED BY <2>1, <2>2, <2>3, BecomeKept, PartsTwice
<1> QED BY <1>3, <1>4, <1>5, <1>6

\* The next step of a ceremony, if there is one, leads the same two.
LEMMA ExecuteState ==
    ASSUME NEW m \in Marriages \union {None}, NEW late
    PROVE  LET k == Execute(m, late) IN
           /\ k \in Marriages \union {None}
           /\ k # None => m # None /\ k.partner = m.partner /\ ~Finishes(m, late)
<1> DEFINE next == IF m.state = 10 THEN 12 ELSE m.state + 1
           k == Execute(m, late)
<1>1. CASE k = None
    BY <1>1
<1>2. CASE k = m
    <2>1. k # None => ~Finishes(m, late)
        BY <1>2 DEF Execute, Finishes
    <2> QED BY <1>2, <2>1
<1>3. CASE k # None /\ k # m
    <2>1. m # None /\ m \in Marriages /\ k = [m EXCEPT !.state = next] /\ ~Finishes(m, late)
        BY <1>3 DEF Execute, Finishes
    <2>2. next \in Int
        BY <2>1 DEF Marriages
    <2> HIDE DEF next, k
    <2>3. k \in Marriages /\ k.partner = m.partner
        BY <2>1, <2>2 DEF Marriages
    <2> QED BY <2>1, <2>3 DEF k
<1> QED BY <1>1, <1>2, <1>3

\* The ceremonies after a step of all.
Executed(late) ==
    [o \in Object |-> IF o \in OnMap(Memory, Home)
                      THEN [object[o] EXCEPT !.marriage = Execute(@, o \in late)]
                      ELSE object[o]]

LEMMA ExecuteKept ==
    ASSUME Kept(Memory), NEW late, object' = Executed(late),
           UNCHANGED <<where, unregister, pet, npc, arena, npcs>>
    PROVE  /\ Kept(Memory') /\ Parts(Memory, Memory')
           /\ \A o \in OnMap(Memory, Home) :
                 Memory'.object[o].marriage # None => ~Finishes(Marriage(o), o \in late)
<1> DEFINE S == Memory
           T == Memory'
<1>1. Sane(S, {}, {}) /\ Shape(S)
    BY DEF Kept, Sane
<1>2. T = [where |-> S.where, unregister |-> S.unregister, pet |-> S.pet, npc |-> S.npc,
           arena |-> S.arena, npcs |-> S.npcs, object |-> object']
    BY DEF Memory
<1>3. S.object = object
    BY MemoryFields
<1>4. \A o \in OnMap(S, Home) : o \in Object /\ object[o] # Free
    BY <1>1, <1>3, OnMapObjects, MapsApart DEF Sane, Placed
<1>5. \A o \in Object \ OnMap(S, Home) : object'[o] = object[o]
    BY DEF Executed
<1>6. ASSUME NEW o \in OnMap(S, Home)
      PROVE  /\ object'[o] \in NpcState /\ object[o] \in NpcState
             /\ object'[o].damage = object[o].damage /\ object'[o].owner = object[o].owner
             /\ object'[o].alive = object[o].alive
             /\ object'[o].killowner = object[o].killowner
             /\ object'[o].marriage # None =>
                   /\ object[o].marriage # None
                   /\ object'[o].marriage.partner = object[o].marriage.partner
                   /\ ~Finishes(Marriage(o), o \in late)
    <2> DEFINE n == object[o]
               k == Execute(n.marriage, o \in late)
    <2>1. n \in NpcState /\ o \in Object
        BY <1>1, <1>3, <1>4 DEF Shape
    <2>2. object'[o] = [n EXCEPT !.marriage = k]
        BY <2>1 DEF Executed
    <2>3. n.marriage \in Marriages \union {None} /\ Marriage(o) = n.marriage
        BY <2>1 DEF NpcState, Marriage
    <2> HIDE DEF n
    <2>4. /\ k \in Marriages \union {None}
          /\ k # None => n.marriage # None /\ k.partner = n.marriage.partner
                         /\ ~Finishes(n.marriage, o \in late)
        BY <2>3, ExecuteState
    <2> HIDE DEF k
    <2>5. LET h == [n EXCEPT !.marriage = k] IN
          /\ h \in NpcState /\ h.marriage = k /\ h.damage = n.damage /\ h.owner = n.owner
          /\ h.alive = n.alive /\ h.killowner = n.killowner
        BY <2>1, <2>4, WedState
    <2> QED BY <2>1, <2>2, <2>3, <2>4, <2>5 DEF n
<1> HIDE DEF S, T
<1>7. object' \in [Object -> NpcState \union {Free}]
    <2>1. \A o \in Object : object'[o] \in NpcState \union {Free}
        BY <1>1, <1>3, <1>5, <1>6 DEF Shape
    <2>2. object' = [o \in Object |-> object'[o]]
        BY DEF Executed
    <2> QED BY <2>1, <2>2
<1>8. /\ Others(S, T) /\ T.object = object'
    BY <1>2 DEF Others
<1>9. Shape(T)
    BY <1>1, <1>2, <1>7, <1>8 DEF Shape, Others
<1>10. \A o \in Object : Fits(S.object[o], T.object[o], o, {}, {}, {})
    BY <1>3, <1>4, <1>5, <1>6, <1>8, NotFree DEF Fits
<1>11. Sane(T, {}, {})
    BY <1>1, <1>8, <1>9, <1>10, ObjectsSane DEF Others
<1>12. Kept(T)
    BY <1>8, <1>11 DEF Kept, Rooted, OnMap, Counted, Others, S
<1>13. Parts(S, T)
    <2> SUFFICES ASSUME NEW o \in Object, T.object[o] # Free, T.object[o].marriage # None
                 PROVE  /\ S.object[o] # Free /\ S.object[o].marriage # None
                        /\ \A i \in 1..2 : T.object[o].marriage.partner[i] \in
                              {S.object[o].marriage.partner[i], Dangling}
        BY DEF Parts
    <2>1. CASE o \in OnMap(S, Home)
        BY <1>3, <1>4, <1>6, <1>8, <2>1
    <2>2. CASE o \notin OnMap(S, Home)
        BY <1>3, <1>5, <1>8, <2>2
    <2> QED BY <2>1, <2>2
<1> QED BY <1>6, <1>8, <1>12, <1>13 DEF S, T

LEMMA CeremoniesKept ==
    ASSUME Kept(Memory), Ceremonies
    PROVE  Kept(Memory')
<1>1. ASSUME NEW c \in Char, NEW d \in Char, Law_Marriage(c, d) PROVE Kept(Memory')
    <2>1. Memory' = Memory
        BY <1>1 DEF Law_Marriage, vars, Memory
    <2> QED BY <2>1
<1>2. ASSUME NEW c \in Char, Law_Divorce(c) PROVE Kept(Memory')
    <2>1. Memory' = Memory
        BY <1>2 DEF Law_Divorce, vars, Memory
    <2> QED BY <2>1
<1>3. ASSUME NEW c \in Char, NEW d \in Char, Priest_Request(c, d) PROVE Kept(Memory')
    <2>1. \E U : Kept(U) /\ Become(U)
        BY <1>3, RequestKept
    <2> QED BY <2>1, BecomeKept
<1>4. ASSUME NEW c \in Char, Priest_Accept(c) \/ Priest_Use(c) PROVE Kept(Memory')
    BY <1>4, AnswerKept
<1>5. ASSUME ExecuteWeddings PROVE Kept(Memory')
    <2>1. PICK late \in SUBSET Priest : object' = Executed(late)
        BY <1>5, MemoryFields DEF ExecuteWeddings, Executed, OnMap
    <2>2. UNCHANGED <<where, unregister, pet, npc, arena, npcs>>
        BY <1>5 DEF ExecuteWeddings
    <2> QED BY <2>1, <2>2, ExecuteKept
<1> QED BY <1>1, <1>2, <1>3, <1>4, <1>5 DEF Ceremonies

(***************************************************************************)
(* Those in the world.                                                     *)
(***************************************************************************)

LEMMA InitKept ==
    ASSUME Init
    PROVE  Kept(Memory) /\ \A o \in Object : object[o] # Free => object[o].marriage = None
<1> DEFINE n == Spawned(Fresh(None), None)
<1>1. n \in NpcState /\ New(n)
    <2>1. /\ Fresh(None) \in NpcState /\ Fresh(None).marriage = None
          /\ Fresh(None).killowner = None /\ \A d \in Char : Fresh(None).damage[d] = None
        BY FreshState
    <2>2. /\ n \in NpcState /\ Alike(Fresh(None), n) /\ n.alive = TRUE
          /\ n.killowner = Fresh(None).killowner
        BY <2>1, SpawnedState
    <2> QED BY <2>1, <2>2, NotFree DEF New, Alike
<1> HIDE DEF n
<1>2. /\ where = [c \in Char |-> None] /\ pet = [c \in Char |-> None]
      /\ npc = [c \in Char |-> None] /\ unregister = [c \in Char |-> {}]
      /\ arena = [members |-> {}, next |-> {}, occupants |-> 0, enabled |-> TRUE]
      /\ npcs = [m \in Map |-> IF m = Home THEN Order ELSE <<>>]
      /\ object = [o \in Object |-> IF o \in Npc THEN n ELSE Free]
    BY DEF Init, n
<1>3. Order \in Seq(Object) /\ <<>> \in Seq(Object) /\ ToSet(Order) = Npc /\ ToSet(<<>>) = {}
    BY OrderIsOfNpcs DEF Object, ToSet
<1>4. OnMap(Memory, Home) = Npc /\ OnMap(Memory, Elsewhere) = {}
    BY <1>2, <1>3, MapsApart, MemoryFields DEF OnMap
<1>5. Shape(Memory)
    <2>1. /\ Memory.where \in [Char -> Map \union {None}]
          /\ Memory.unregister \in [Char -> SUBSET Object]
          /\ Memory.pet \in [Char -> Pet \union {None}]
          /\ Memory.npc \in [Char -> Object \union {None}]
        BY <1>2, MemoryFields
    <2>2. Memory.npcs \in [Map -> Seq(Object)]
        BY <1>2, <1>3, MemoryFields
    <2>3. Memory.object \in [Object -> NpcState \union {Free}]
        BY <1>1, <1>2, MemoryFields
    <2>4. Memory = [where |-> Memory.where, unregister |-> Memory.unregister,
                    pet |-> Memory.pet, npc |-> Memory.npc, arena |-> Memory.arena,
                    npcs |-> Memory.npcs, object |-> Memory.object]
        BY DEF Memory
    <2> QED BY <2>1, <2>2, <2>3, <2>4 DEF Shape
<1>6. \A o \in Npc : o \in Object /\ o \notin Temporary /\ o \notin Pet
    BY KindsAreApart DEF Object
<1>7. \A o \in Object : Memory.object[o] = IF o \in Npc THEN n ELSE Free
    BY <1>2, MemoryFields
<1>8. \A c \in Char : /\ Memory.where[c] = None /\ Memory.unregister[c] = {}
                      /\ Memory.pet[c] = None /\ Memory.npc[c] = None
    BY <1>2, MemoryFields
<1>9. \A m \in Map : \A o \in OnMap(Memory, m) : o \in Npc
    BY <1>4, MapsApart
<1>10. Sane(Memory, {}, {})
    <2>1. Matched(Memory)
        BY <1>1, <1>7, <1>8 DEF Matched, New
    <2>2. Placed(Memory)
        BY <1>1, <1>4, <1>6, <1>7, <1>9 DEF Placed, New, Object
    <2>3. Followed(Memory, {})
        BY <1>6, <1>8, <1>9 DEF Followed
    <2>4. Talking(Memory)
        BY <1>8 DEF Talking
    <2>5. Owned(Memory, {})
        BY <1>1, <1>6, <1>7, <1>9 DEF Owned, New
    <2> QED BY <1>5, <2>1, <2>2, <2>3, <2>4, <2>5 DEF Sane
<1>11. Counted(Memory)
    <2>1. Memory.arena = [members |-> {}, next |-> {}, occupants |-> 0, enabled |-> TRUE]
        BY <1>2, MemoryFields
    <2>2. Cardinality({}) = 0
        BY FS_EmptySet
    <2> QED BY <2>1, <2>2 DEF Counted
<1> QED BY <1>1, <1>4, <1>7, <1>10, <1>11, MemoryFields DEF Kept, Rooted, New

LEMMA RealmHolds == RealmSpec => []RealmInv
<1>1. RealmInit => RealmInv
    BY InitKept DEF RealmInit, RealmInv
<1>2. RealmInv /\ [RealmNext]_<<vars, vows>> => RealmInv'
    <2> SUFFICES ASSUME RealmInv, [RealmNext]_<<vars, vows>> PROVE Kept(Memory')
        BY DEF RealmInv
    <2>1. Kept(Memory)
        BY DEF RealmInv
    <2>2. CASE Next
        BY <2>1, <2>2, NextKept
    <2>3. CASE Games
        BY <2>1, <2>3, GamesKept
    <2>4. CASE Ceremonies
        BY <2>1, <2>4, CeremoniesKept
    <2>5. ASSUME UNCHANGED <<vars, vows>> PROVE Kept(Memory')
        <3>1. Memory' = Memory
            BY <2>5 DEF vars, Memory
        <3> QED BY <2>1, <3>1
    <2> QED BY <2>2, <2>3, <2>4, <2>5 DEF RealmNext
<1> QED BY <1>1, <1>2, PTL DEF RealmSpec

\* OpponentsMatch: an NPC lists a character as an opponent exactly if the character
\* lists the NPC, which is still in memory.
THEOREM OpponentsAgree == RealmSpec => []OpponentsMatch
<1>1. RealmInv => OpponentsMatch
    BY MemoryFields DEF RealmInv, Kept, Sane, Matched, OpponentsMatch
<1> QED BY <1>1, RealmHolds, PTL

\* KillOwned: a kill belongs to somebody in the world, and to an opponent of the NPC.
THEOREM KillsAreOwned == RealmSpec => []KillOwned
<1>1. RealmInv => KillOwned
    <2> SUFFICES ASSUME RealmInv, NEW m \in Map, NEW o \in OnMap(Memory, m),
                        object[o].killowner # None
                 PROVE  LET n == object[o] IN
                        /\ where[n.killowner] # None
                        /\ n.alive /\ o \notin Child => n.killowner \in Opponents(n)
        BY DEF KillOwned
    <2>1. Owned(Memory, {}) /\ Placed(Memory) /\ Shape(Memory)
        BY DEF RealmInv, Kept, Sane
    <2>2. o \in Object /\ object[o] \in NpcState
        BY <2>1, OnMapObjects, MemoryFields DEF Placed, Shape
    <2>3. object[o].killowner \in Char
        BY <2>2 DEF NpcState
    <2>4. /\ where[object[o].killowner] # None
          /\ object[o].alive = TRUE /\ o \notin Child =>
                object[o].damage[object[o].killowner] # None
        BY <2>1, MemoryFields DEF Owned
    <2> QED BY <2>2, <2>3, <2>4 DEF Opponents
<1> QED BY <1>1, RealmHolds, PTL

\* ServedByLiving: the NPC that a character talks to is in memory.
THEOREM TalkIsToLiving == RealmSpec => []ServedByLiving
<1>1. RealmInv => ServedByLiving
    BY MemoryFields DEF RealmInv, Kept, Sane, Talking, ServedByLiving
<1> QED BY <1>1, RealmHolds, PTL

\* OccupantsCounted: the arena counts exactly those who have a pointer to it.
THEOREM ArenaIsCounted == RealmSpec => []OccupantsCounted
<1>1. RealmInv => OccupantsCounted
    BY MemoryFields DEF RealmInv, Kept, Counted, OccupantsCounted
<1> QED BY <1>1, RealmHolds, PTL

\* PetsFollow: pets are alive on the map of their owners, as long as nobody reloads a map from
\* afar.
THEOREM PetsKeepUp ==
    ASSUME RemoteReloads = FALSE
    PROVE  RealmSpec => []PetsFollow
<1>1. RealmInv => PetsFollow
    <2> SUFFICES ASSUME RealmInv PROVE PetsFollow
        OBVIOUS
    <2>1. Followed(Memory, {}) /\ Placed(Memory)
        BY DEF RealmInv, Kept, Sane
    <2>2. \A c \in Char : pet[c] # None =>
              /\ where[c] # None /\ pet[c] \in OnMap(Memory, where[c])
              /\ Alive(Memory, pet[c]) /\ object[pet[c]].owner = c
        BY <2>1, MemoryFields DEF Followed, Alive
    <2>3. \A m \in Map : \A o \in OnMap(Memory, m) \cap Pet :
              object[o] # Free /\ pet[object[o].owner] = o
        BY <2>1, MemoryFields DEF Followed, Placed
    <2> QED BY <2>2, <2>3 DEF PetsFollow
<1> QED BY <1>1, RealmHolds, PTL

(***************************************************************************)
(* Those who are married.                                                  *)
(***************************************************************************)

\* A marriage ends, on both sides.
LEMMA DivorceMutual ==
    ASSUME vows \in [Char -> Vows], Mutual(vows), NEW c \in Char, vows[c].partner # None,
           NEW v, v = [vows EXCEPT ![c].partner = None, ![vows[c].partner].partner = None]
    PROVE  /\ v \in [Char -> Vows] /\ Mutual(v)
           /\ \A x \in Char : v[x].partner \in {vows[x].partner, None}
<1> DEFINE d == vows[c].partner
<1>1. d \in Char /\ d # c /\ vows[d].partner = c
    BY DEF Vows, Mutual
<1>2. /\ v \in [Char -> Vows] /\ v[c].partner = None /\ v[d].partner = None
      /\ \A x \in Char \ {c, d} : v[x] = vows[x]
    <2> HIDE DEF d
    <2>1. v = [vows EXCEPT ![c].partner = None, ![d].partner = None]
        BY DEF d
    <2> DEFINE nc == [vows[c] EXCEPT !.partner = None]
               nd == [vows[d] EXCEPT !.partner = None]
    <2>2. nc \in Vows /\ nc.partner = None /\ nd \in Vows /\ nd.partner = None
        BY <1>1, KindsAreApart DEF Vows
    <2>3. v = [vows EXCEPT ![c] = nc, ![d] = nd]
        BY <1>1, <2>1
    <2> HIDE DEF nc, nd
    <2> DEFINE x == [vows EXCEPT ![c] = nc]
    <2>4. x \in [Char -> Vows] /\ x[c] = nc /\ \A y \in Char \ {c} : x[y] = vows[y]
        BY <2>2
    <2>5. v = [x EXCEPT ![d] = nd]
        BY <2>3
    <2> HIDE DEF x
    <2>6. v \in [Char -> Vows] /\ v[d] = nd /\ \A y \in Char \ {d} : v[y] = x[y]
        <3>1. d \in Char /\ nd \in Vows
            BY <1>1, <2>2
        <3>2. x \in [Char -> Vows]
            BY <2>4
        <3> QED BY <2>5, <3>1, <3>2
    <2> QED BY <1>1, <2>2, <2>4, <2>6
<1>3. None \notin Char
    BY KindsAreApart
<1>4. Mutual(v)
    <2> SUFFICES ASSUME NEW x \in Char, v[x].partner # None
                 PROVE  LET y == v[x].partner IN
                        y # x /\ v[y].partner = x /\ v[x].fiance = None
        BY DEF Mutual
    <2>1. x \notin {c, d}
        BY <1>2
    <2> DEFINE y == vows[x].partner
    <2>2. v[x] = vows[x] /\ y # None /\ y # x /\ vows[y].partner = x /\ vows[x].fiance = None
        BY <1>2, <2>1 DEF Mutual
    <2>3. y \in Char \ {c, d}
        <3>1. y \in Char
            BY <2>2 DEF Vows
        <3> QED BY <1>1, <2>1, <2>2, <3>1
    <2> QED BY <1>2, <2>2, <2>3
<1> QED BY <1>2, <1>4

LEMMA LawWed ==
    ASSUME DivorcesStale = FALSE, WeddingInv, NEW c \in Char,
           Law_Divorce(c) \/ \E name \in Char : Law_Marriage(c, name)
    PROVE  vows' \in [Char -> Vows] /\ Mutual(vows') /\ Courted(Memory', vows')
<1>0. vows \in [Char -> Vows] /\ Mutual(vows) /\ Courted(Memory, vows)
    BY DEF WeddingInv
<1>1. Memory' = Memory
    BY DEF Law_Divorce, Law_Marriage, vars, Memory
<1>2. /\ vows' \in [Char -> Vows] /\ Mutual(vows')
      /\ \A x \in Char : vows'[x].partner \in {vows[x].partner, None}
    <2>1. CASE Law_Divorce(c)
        <3>1. /\ vows[c].partner # None
              /\ vows' = [vows EXCEPT ![c].partner = None, ![vows[c].partner].partner = None]
            BY <2>1 DEF Law_Divorce
        <3> QED BY <1>0, <3>1, DivorceMutual
    <2>2. ASSUME NEW name \in Char, Law_Marriage(c, name)
          PROVE  /\ vows' \in [Char -> Vows] /\ Mutual(vows')
                 /\ \A x \in Char : vows'[x].partner \in {vows[x].partner, None}
        <3> DEFINE n == [vows[c] EXCEPT !.fiance = name]
        <3>1. vows[c].partner = None /\ vows' = [vows EXCEPT ![c] = n]
            BY <1>0, <2>2 DEF Law_Marriage
        <3>2. n \in Vows /\ n.partner = None
            BY <1>0, <3>1 DEF Vows
        <3> HIDE DEF n
        <3>3. vows' \in [Char -> Vows] /\ vows'[c].partner = None
              /\ \A x \in Char \ {c} : vows'[x] = vows[x]
            BY <1>0, <3>1, <3>2
        <3>4. Mutual(vows')
            <4> SUFFICES ASSUME NEW x \in Char, vows'[x].partner # None
                         PROVE  LET y == vows'[x].partner IN
                                y # x /\ vows'[y].partner = x /\ vows'[x].fiance = None
                BY DEF Mutual
            <4> DEFINE y == vows[x].partner
            <4>1. /\ vows'[x] = vows[x] /\ y # None
                  /\ y # x /\ vows[y].partner = x /\ vows[x].fiance = None
                BY <1>0, <3>3 DEF Mutual
            <4>2. y \in Char /\ y # c
                <5>1. y \in Char
                    BY <1>0, <4>1 DEF Vows
                <5>2. x # None
                    BY KindsAreApart
                <5> QED BY <3>1, <4>1, <5>1, <5>2
            <4> QED BY <3>3, <4>1, <4>2
        <3> QED BY <3>1, <3>3, <3>4
    <2> QED BY <2>1, <2>2
<1>3. Courted(Memory, vows')
    <2> SUFFICES ASSUME NEW o \in Object, Memory.object[o] # Free,
                        Memory.object[o].marriage # None
                 PROVE  LET p == Memory.object[o].marriage.partner IN
                        /\ o \in Priest
                        /\ p[1] = p[2] => p[1] = Dangling
                        /\ \A i \in 1..2 : p[i] \in Char => vows'[p[i]].partner = None
        BY DEF Courted
    <2> DEFINE p == Memory.object[o].marriage.partner
    <2>1. /\ o \in Priest
          /\ p[1] = p[2] => p[1] = Dangling
          /\ \A i \in 1..2 : p[i] \in Char => vows[p[i]].partner = None
        BY <1>0 DEF Courted
    <2> HIDE DEF p
    <2>2. \A i \in 1..2 : p[i] \in Char => vows'[p[i]].partner = None
        BY <1>2, <2>1
    <2> QED BY <2>1, <2>2 DEF p
<1> QED BY <1>1, <1>2, <1>3

LEMMA RequestWed ==
    ASSUME WeddingInv, Kept(Memory), NEW c \in Char, NEW d \in Char, Priest_Request(c, d)
    PROVE  Courted(Memory', vows')
<1>0. vows \in [Char -> Vows] /\ Mutual(vows) /\ Courted(Memory, vows)
    BY DEF WeddingInv
<1>1. /\ npc[c] \in Priest /\ d # c /\ vows[d].partner = None /\ vows' = vows
      /\ vows[c].fiance = d
    BY DEF Priest_Request
<1>2. vows[c].partner = None
    BY <1>0, <1>1, KindsAreApart DEF Mutual
<1>3. PICK U : /\ Kept(U) /\ Become(U)
               /\ U.object[npc[c]].marriage = [partner |-> <<c, d>>,
                     accepted |-> <<FALSE, FALSE>>, begun |-> FALSE, state |-> 1]
               /\ \A x \in Object \ {npc[c]} : U.object[x] = object[x]
    BY RequestKept
<1>4. Courted(U, vows)
    <2> SUFFICES ASSUME NEW o \in Object, U.object[o] # Free, U.object[o].marriage # None
                 PROVE  LET p == U.object[o].marriage.partner IN
                        /\ o \in Priest
                        /\ p[1] = p[2] => p[1] = Dangling
                        /\ \A i \in 1..2 : p[i] \in Char => vows[p[i]].partner = None
        BY DEF Courted
    <2>1. CASE o = npc[c]
        <3>1. U.object[o].marriage.partner = <<c, d>>
            BY <1>3, <2>1
        <3> QED BY <1>1, <1>2, <2>1, <3>1
    <2>2. CASE o # npc[c]
        <3>1. U.object[o] = Memory.object[o]
            BY <1>3, <2>2, MemoryFields
        <3> QED BY <1>0, <3>1 DEF Courted
    <2> QED BY <2>1, <2>2
<1> QED BY <1>1, <1>3, <1>4, BecomeKept, CourtedKept

\* The end of the ceremonies of one step, with one priest.
LEMMA ExecuteWed ==
    ASSUME \A p, q \in Priest : p = q, WeddingInv, Kept(Memory), ExecuteWeddings
    PROVE  vows' \in [Char -> Vows] /\ Mutual(vows') /\ Courted(Memory', vows')
<1>0. vows \in [Char -> Vows] /\ Mutual(vows) /\ Courted(Memory, vows)
    BY DEF WeddingInv
<1> DEFINE list == npcs[Home]
           In(m, c) == c \in {m.partner[1], m.partner[2]}
           Latest(I) == CHOOSE i \in I : \A j \in I : j <= i
<1>1. PICK late \in SUBSET Priest :
          LET Wed(c) == {i \in DOMAIN list : LET m == Marriage(list[i]) IN
                            Finishes(m, list[i] \in late) /\ In(m, c)}
          IN /\ object' = Executed(late)
             /\ vows' = [c \in Char |->
                   IF Wed(c) = {} THEN vows[c]
                   ELSE [fiance |-> None,
                         partner |-> Spouse(Marriage(list[Latest(Wed(c))]), c)]]
             /\ UNCHANGED <<where, unregister, pet, npc, arena, npcs>>
    BY MemoryFields DEF ExecuteWeddings, Executed, OnMap
<1> DEFINE Wed(c) == {i \in DOMAIN list : LET m == Marriage(list[i]) IN
                         Finishes(m, list[i] \in late) /\ In(m, c)}
<1>2. /\ object' = Executed(late)
      /\ vows' = [c \in Char |->
            IF Wed(c) = {} THEN vows[c]
            ELSE [fiance |-> None, partner |-> Spouse(Marriage(list[Latest(Wed(c))]), c)]]
      /\ UNCHANGED <<where, unregister, pet, npc, arena, npcs>>
    BY <1>1
<1>3. /\ Kept(Memory') /\ Parts(Memory, Memory')
      /\ \A o \in OnMap(Memory, Home) :
            Memory'.object[o].marriage # None => ~Finishes(Marriage(o), o \in late)
    BY <1>2, ExecuteKept
<1>4. list \in Seq(Object) /\ ToSet(list) = OnMap(Memory, Home)
    BY MemoryFields, MapsApart DEF Kept, Sane, Shape, OnMap
<1> HIDE DEF list
\* Who is being married, and to whom.
<1> DEFINE Bond(i) == Marriage(list[i]).partner
<1>5. ASSUME NEW i \in DOMAIN list, Finishes(Marriage(list[i]), list[i] \in late)
      PROVE  /\ list[i] \in Priest /\ list[i] \in Object
             /\ object[list[i]] # Free /\ Marriage(list[i]) # None
             /\ Bond(i)[1] \in Char /\ Bond(i)[2] \in Char /\ Bond(i)[1] # Bond(i)[2]
             /\ vows[Bond(i)[1]].partner = None /\ vows[Bond(i)[2]].partner = None
    <2> DEFINE o == list[i]
               m == Marriage(o)
    <2>1. o \in Object /\ o \in OnMap(Memory, Home)
        BY <1>4 DEF ToSet
    <2>2. object[o] # Free /\ object[o] \in NpcState
        BY <2>1, MapsApart, MemoryFields DEF Kept, Sane, Placed, Shape
    <2>3. m # None /\ m \in Marriages /\ ~Missing(m)
        <3>1. m # None /\ ~Missing(m)
            BY <1>5 DEF Finishes
        <3> QED BY <2>2, <3>1 DEF Marriage, NpcState
    <2>4. m.partner[1] \in Char /\ m.partner[2] \in Char
        BY <2>3 DEF Missing, Marriages
    <2>5. /\ o \in Priest /\ (m.partner[1] = m.partner[2] => m.partner[1] = Dangling)
          /\ \A j \in 1..2 : m.partner[j] \in Char => vows[m.partner[j]].partner = None
        BY <1>0, <2>1, <2>2, <2>3, MemoryFields DEF Courted, Marriage
    <2>6. Dangling \notin Char
        BY KindsAreApart
    <2> QED BY <2>1, <2>2, <2>3, <2>4, <2>5, <2>6
<1>6. \A c \in Char : \A i \in Wed(c) :
          /\ i \in DOMAIN list /\ Finishes(Marriage(list[i]), list[i] \in late)
          /\ c \in {Bond(i)[1], Bond(i)[2]}
    OBVIOUS
<1>7. \A c \in Char : \A i \in DOMAIN list :
          (Finishes(Marriage(list[i]), list[i] \in late) /\ c \in {Bond(i)[1], Bond(i)[2]})
              => i \in Wed(c)
    OBVIOUS
<1>8. ASSUME NEW c \in Char, Wed(c) # {} PROVE Latest(Wed(c)) \in Wed(c)
    <2>1. Wed(c) \subseteq 1..Len(list) /\ Len(list) \in Nat
        BY <1>4
    <2> HIDE DEF Wed
    <2> DEFINE I == Wed(c)
    <2>2. \E i \in I : \A j \in I : j <= i
        BY <1>8, <2>1, GreatestOf
    <2> QED BY <2>2
<1> HIDE DEF Wed, Latest
\* There is one couple at most.
<1>9. ASSUME NEW i \in DOMAIN list, NEW j \in DOMAIN list, list[i] \in Priest, list[j] \in Priest
      PROVE  list[i] = list[j]
    BY <1>9
<1>10. ASSUME NEW c \in Char, Wed(c) # {}
       PROVE  \E d \in Char \ {c} :
                 /\ vows'[c] = [fiance |-> None, partner |-> d]
                 /\ vows'[d] = [fiance |-> None, partner |-> c]
    <2> DEFINE i == Latest(Wed(c))
               m == Marriage(list[i])
               d == Spouse(m, c)
    <2>1. i \in Wed(c)
        BY <1>8, <1>10
    <2>2. /\ i \in DOMAIN list /\ Finishes(m, list[i] \in late) /\ c \in {Bond(i)[1], Bond(i)[2]}
        BY <1>6, <2>1
    <2>3. /\ list[i] \in Priest /\ Bond(i)[1] \in Char /\ Bond(i)[2] \in Char
          /\ Bond(i)[1] # Bond(i)[2]
        BY <1>5, <2>2
    <2>4. d \in Char \ {c} /\ d \in {Bond(i)[1], Bond(i)[2]} /\ Spouse(m, d) = c
        BY <2>2, <2>3 DEF Spouse
    <2>5. vows'[c] = [fiance |-> None, partner |-> d]
        BY <1>2, <1>10
    <2>6. i \in Wed(d)
        BY <1>7, <2>2, <2>4
    <2> DEFINE j == Latest(Wed(d))
    <2>7. j \in Wed(d)
        BY <1>8, <2>4, <2>6
    <2>8. list[j] = list[i]
        <3>1. j \in DOMAIN list /\ Finishes(Marriage(list[j]), list[j] \in late)
            BY <1>6, <2>4, <2>7
        <3>2. list[j] \in Priest
            BY <1>5, <3>1
        <3> QED BY <1>9, <2>2, <2>3, <3>1, <3>2
    <2>9. vows'[d] = [fiance |-> None, partner |-> Spouse(Marriage(list[j]), d)]
        BY <1>2, <2>4, <2>6
    <2> QED BY <2>4, <2>5, <2>8, <2>9
<1>11. ASSUME NEW c \in Char, Wed(c) # {} PROVE vows[c].partner = None
    <2>1. PICK i \in Wed(c) : TRUE
        BY <1>11
    <2> QED BY <1>5, <1>6, <2>1
<1>12. \A c \in Char : Wed(c) = {} => vows'[c] = vows[c]
    BY <1>2
<1>13. vows' \in [Char -> Vows]
    <2>1. ASSUME NEW c \in Char PROVE vows'[c] \in Vows
        <3>1. CASE Wed(c) = {}
            BY <1>0, <1>12, <3>1
        <3>2. CASE Wed(c) # {}
            <4>1. PICK d \in Char \ {c} : vows'[c] = [fiance |-> None, partner |-> d]
                BY <1>10, <3>2
            <4> QED BY <4>1 DEF Vows
        <3> QED BY <3>1, <3>2
    <2>2. vows' = [c \in Char |-> vows'[c]]
        BY <1>2
    <2> QED BY <2>1, <2>2
<1>14. Mutual(vows')
    <2> SUFFICES ASSUME NEW c \in Char, vows'[c].partner # None
                 PROVE  LET d == vows'[c].partner IN
                        d # c /\ vows'[d].partner = c /\ vows'[c].fiance = None
        BY DEF Mutual
    <2>1. CASE Wed(c) # {}
        <3>1. PICK d \in Char \ {c} : /\ vows'[c] = [fiance |-> None, partner |-> d]
                                      /\ vows'[d] = [fiance |-> None, partner |-> c]
            BY <1>10, <2>1
        <3>2. vows'[c].partner = d /\ vows'[c].fiance = None /\ vows'[d].partner = c
            BY <3>1
        <3> QED BY <3>1, <3>2
    <2>2. CASE Wed(c) = {}
        <3> DEFINE d == vows[c].partner
        <3>1. vows'[c] = vows[c] /\ d # None
            BY <1>12, <2>2
        <3>2. d # c /\ vows[d].partner = c /\ vows[c].fiance = None /\ d \in Char /\ c # None
            BY <1>0, <3>1, KindsAreApart DEF Mutual, Vows
        <3>3. Wed(d) = {}
            BY <1>11, <3>2
        <3> QED BY <1>12, <3>1, <3>2, <3>3
    <2> QED BY <2>1, <2>2
<1>15. Courted(Memory', vows')
    <2> DEFINE T == Memory'
    <2>1. Courted(T, vows)
        BY <1>0, <1>3, CourtedKept
    <2> SUFFICES ASSUME NEW o \in Object, T.object[o] # Free, T.object[o].marriage # None
                 PROVE  LET p == T.object[o].marriage.partner IN
                        /\ o \in Priest
                        /\ p[1] = p[2] => p[1] = Dangling
                        /\ \A i \in 1..2 : p[i] \in Char => vows'[p[i]].partner = None
        BY DEF Courted
    <2> DEFINE p == T.object[o].marriage.partner
    <2>2. /\ o \in Priest
          /\ p[1] = p[2] => p[1] = Dangling
          /\ \A i \in 1..2 : p[i] \in Char => vows[p[i]].partner = None
        BY <2>1 DEF Courted
    <2>3. ASSUME NEW c \in Char PROVE Wed(c) = {}
        <3> SUFFICES ASSUME NEW i \in Wed(c) PROVE FALSE
            OBVIOUS
        <3>1. i \in DOMAIN list /\ Finishes(Marriage(list[i]), list[i] \in late)
            BY <1>6
        <3>2. list[i] \in Priest /\ list[i] \in OnMap(Memory, Home)
            BY <1>4, <1>5, <3>1 DEF ToSet
        <3>3. list[i] = o
            BY <2>2, <3>2
        <3> QED BY <1>3, <3>1, <3>2, <3>3
    <2> HIDE DEF p, T
    <2>4. \A i \in 1..2 : p[i] \in Char => vows'[p[i]].partner = None
        BY <1>12, <2>2, <2>3
    <2> QED BY <2>2, <2>4 DEF p
<1> QED BY <1>13, <1>14, <1>15

\* Marriages are safe where one priest marries, addresses are not used again, and nobody
\* who is divorced is at the menu.
LEMMA WeddingHolds ==
    ASSUME DivorcesStale = FALSE, ReusesMemory = FALSE, \A p, q \in Priest : p = q
    PROVE  RealmSpec => [](RealmInv /\ WeddingInv)
<1>1. RealmInit => RealmInv /\ WeddingInv
    <2> SUFFICES ASSUME RealmInit PROVE RealmInv /\ WeddingInv
        OBVIOUS
    <2>1. Kept(Memory) /\ \A o \in Object : object[o] # Free => object[o].marriage = None
        BY InitKept DEF RealmInit
    <2>2. Courted(Memory, vows)
        BY <2>1, MemoryFields DEF Courted
    <2> QED BY <2>1, <2>2 DEF RealmInit, RealmInv, WeddingInv
<1>2. RealmInv /\ WeddingInv /\ [RealmNext]_<<vars, vows>> => RealmInv' /\ WeddingInv'
    <2> SUFFICES ASSUME RealmInv, WeddingInv, [RealmNext]_<<vars, vows>>
                 PROVE  /\ Kept(Memory')
                        /\ vows' \in [Char -> Vows] /\ Mutual(vows') /\ Courted(Memory', vows')
        BY DEF RealmInv, WeddingInv
    <2>0. /\ Kept(Memory)
          /\ vows \in [Char -> Vows] /\ Mutual(vows) /\ Courted(Memory, vows)
        BY DEF RealmInv, WeddingInv
    <2>1. ASSUME Next \/ Games, UNCHANGED vows
          PROVE  /\ Kept(Memory')
                 /\ vows' \in [Char -> Vows] /\ Mutual(vows') /\ Courted(Memory', vows')
        <3>1. Kept(Memory') /\ Parts(Memory, Memory')
            BY <2>0, <2>1, NextKept, GamesKept
        <3>2. Courted(Memory', vows)
            BY <2>0, <3>1, CourtedKept
        <3> QED BY <2>0, <2>1, <3>1, <3>2
    <2>2. ASSUME Ceremonies
          PROVE  /\ Kept(Memory')
                 /\ vows' \in [Char -> Vows] /\ Mutual(vows') /\ Courted(Memory', vows')
        <3>0. Kept(Memory')
            BY <2>0, <2>2, CeremoniesKept
        <3>1. ASSUME NEW c \in Char, Law_Divorce(c) \/ \E name \in Char : Law_Marriage(c, name)
              PROVE  vows' \in [Char -> Vows] /\ Mutual(vows') /\ Courted(Memory', vows')
            BY <3>1, LawWed
        <3>2. ASSUME NEW c \in Char, NEW d \in Char, Priest_Request(c, d)
              PROVE  vows' \in [Char -> Vows] /\ Mutual(vows') /\ Courted(Memory', vows')
            <4>1. vows' = vows
                BY <3>2 DEF Priest_Request
            <4>2. Courted(Memory', vows')
                BY <2>0, <3>2, RequestWed
            <4> QED BY <2>0, <4>1, <4>2
        <3>3. ASSUME NEW c \in Char, Priest_Accept(c) \/ Priest_Use(c)
              PROVE  vows' \in [Char -> Vows] /\ Mutual(vows') /\ Courted(Memory', vows')
            <4>1. vows' = vows
                BY <3>3 DEF Priest_Accept, Priest_Use
            <4>2. Parts(Memory, Memory')
                BY <2>0, <3>3, AnswerKept
            <4>3. Courted(Memory', vows)
                BY <2>0, <4>2, CourtedKept
            <4> QED BY <2>0, <4>1, <4>3
        <3>4. ASSUME ExecuteWeddings
              PROVE  vows' \in [Char -> Vows] /\ Mutual(vows') /\ Courted(Memory', vows')
            BY <2>0, <3>4, ExecuteWed
        <3>5. \/ \E c \in Char : Law_Divorce(c) \/ \E name \in Char : Law_Marriage(c, name)
              \/ \E c, d \in Char : Priest_Request(c, d)
              \/ \E c \in Char : Priest_Accept(c) \/ Priest_Use(c)
              \/ ExecuteWeddings
            BY <2>2 DEF Ceremonies
        <3> QED BY <3>0, <3>1, <3>2, <3>3, <3>4, <3>5
    <2>3. ASSUME UNCHANGED <<vars, vows>>
          PROVE  /\ Kept(Memory')
                 /\ vows' \in [Char -> Vows] /\ Mutual(vows') /\ Courted(Memory', vows')
        <3>1. Memory' = Memory /\ vows' = vows
            BY <2>3 DEF vars, Memory
        <3> QED BY <2>0, <3>1
    <2> QED BY <2>1, <2>2, <2>3 DEF RealmNext
<1> QED BY <1>1, <1>2, PTL DEF RealmSpec

\* MarriagesMutual: who is married is so with one who is married to it, and is engaged to
\* nobody.
THEOREM MarriagesAreMutual ==
    ASSUME DivorcesStale = FALSE, ReusesMemory = FALSE, \A p, q \in Priest : p = q
    PROVE  RealmSpec => []MarriagesMutual
<1>1. WeddingInv => MarriagesMutual
    BY DEF WeddingInv, MarriagesMutual
<1> QED BY <1>1, WeddingHolds, PTL

(***************************************************************************)
(* Sums over finite sets, the fold of MapThenSumSet among them.            *)
(***************************************************************************)

\* Induction over numbers, for a set of them.
LEMMA NumbersFollow ==
    ASSUME NEW T, 0 \in T, \A n \in Nat : n \in T => n + 1 \in T
    PROVE  Nat \subseteq T
<1> SUFFICES ASSUME Nat \ T # {} PROVE FALSE
    OBVIOUS
<1>1. PICK n \in Nat \ T : \A k \in Nat \ T : n <= k
    BY LeastOf
<1>2. n # 0 /\ n - 1 \in Nat /\ (n - 1) + 1 = n /\ ~(n <= n - 1)
    OBVIOUS
<1>3. n - 1 \notin T
    BY <1>2
<1> QED BY <1>1, <1>2, <1>3

\* The order in which MapThenSumSet adds, what it adds up, and the functions that do.
Some(S) == CHOOSE x \in S : TRUE
Added(f, sum, S) == IF S = {} THEN 0 ELSE f[Some(S)] + sum[S \ {Some(S)}]
Sums(D, f) == {sum \in [SUBSET D -> Int] : \A S \in SUBSET D : sum[S] = Added(f, sum, S)}

\* One element less.
LEMMA OneLess ==
    ASSUME NEW D, IsFiniteSet(D), NEW S \in SUBSET D
    PROVE  /\ Cardinality(S) \in Nat /\ (Cardinality(S) = 0 <=> S = {})
           /\ S # {} => Some(S) \in S
           /\ \A x \in S : Cardinality(S \ {x}) = Cardinality(S) - 1 /\ S \ {x} \in SUBSET D
<1>1. IsFiniteSet(S)
    BY FS_Subset
<1>2. S # {} => Some(S) \in S
    BY DEF Some
<1>3. \A x \in S : Cardinality(S \ {x}) = Cardinality(S) - 1
    BY <1>1, FS_RemoveElement
<1> QED BY <1>1, <1>2, <1>3, FS_CardinalityType, FS_EmptySet

\* Induction over the subsets of a finite set.
LEMMA SetsFollow ==
    ASSUME NEW D, IsFiniteSet(D), NEW T, {} \in T,
           \A S \in SUBSET D : S # {} /\ (\A x \in S : S \ {x} \in T) => S \in T
    PROVE  SUBSET D \subseteq T
<1> DEFINE N == {n \in Nat : \A S \in SUBSET D : Cardinality(S) <= n => S \in T}
<1>1. 0 \in N
    <2> SUFFICES ASSUME NEW S \in SUBSET D, Cardinality(S) <= 0 PROVE S \in T
        OBVIOUS
    <2>1. S = {}
        BY OneLess
    <2> QED BY Zenon, <2>1
<1>2. ASSUME NEW n \in Nat, n \in N PROVE n + 1 \in N
    <2> SUFFICES ASSUME NEW S \in SUBSET D, Cardinality(S) <= n + 1 PROVE S \in T
        OBVIOUS
    <2>1. \A x \in S : S \ {x} \in SUBSET D /\ Cardinality(S \ {x}) <= n
        BY OneLess
    <2>2. \A x \in S : S \ {x} \in T
        BY <1>2, <2>1
    <2>3. CASE S = {}
        BY Zenon, <2>3
    <2>4. CASE S # {}
        BY Zenon, <2>2, <2>4
    <2> QED BY <2>3, <2>4
<1>3. Nat \subseteq N
    <2> HIDE DEF N
    <2> QED BY <1>1, <1>2, NumbersFollow
<1>4. ASSUME NEW S \in SUBSET D PROVE S \in T
    <2>1. Cardinality(S) \in Nat
        BY OneLess
    <2> QED BY <1>3, <2>1
<1> QED BY <1>4

\* There is a function that adds up.
LEMMA SumExists ==
    ASSUME NEW D, IsFiniteSet(D), NEW f \in [D -> Int]
    PROVE  Sums(D, f) # {}
<1> DEFINE UpTo(n) == {S \in SUBSET D : Cardinality(S) <= n}
           On(g, n) == \A S \in UpTo(n) : g[S] = Added(f, g, S)
           N == {n \in Nat : \E g \in [UpTo(n) -> Int] : On(g, n)}
<1>1. 0 \in N
    <2>1. \A S \in UpTo(0) : S = {}
        BY OneLess
    <2>2. [S \in UpTo(0) |-> 0] \in [UpTo(0) -> Int]
        OBVIOUS
    <2>3. On([S \in UpTo(0) |-> 0], 0)
        BY <2>1 DEF Added
    <2> QED BY <2>2, <2>3
<1>2. ASSUME NEW n \in Nat, n \in N PROVE n + 1 \in N
    <2>1. PICK g \in [UpTo(n) -> Int] : On(g, n)
        BY <1>2
    <2> DEFINE h == [S \in UpTo(n + 1) |-> Added(f, g, S)]
    <2>2. ASSUME NEW S \in UpTo(n + 1), S # {}
          PROVE  S \ {Some(S)} \in UpTo(n) /\ f[Some(S)] \in Int
        <3>1. S \in SUBSET D /\ Cardinality(S) <= n + 1
            OBVIOUS
        <3> QED BY <2>2, <3>1, OneLess
    <2>3. \A S \in UpTo(n) : S \in UpTo(n + 1) /\ h[S] = g[S]
        <3> SUFFICES ASSUME NEW S \in UpTo(n) PROVE S \in UpTo(n + 1) /\ h[S] = g[S]
            OBVIOUS
        <3>1. S \in UpTo(n + 1)
            BY OneLess
        <3> QED BY <2>1, <3>1
    <2>4. h \in [UpTo(n + 1) -> Int]
        BY <2>2 DEF Added
    <2>5. On(h, n + 1)
        BY <2>2, <2>3 DEF Added
    <2> HIDE DEF h, On, UpTo
    <2> QED BY <2>4, <2>5
<1>3. Cardinality(D) \in N
    <2>1. Nat \subseteq N
        <3> HIDE DEF N
        <3> QED BY <1>1, <1>2, NumbersFollow
    <2> HIDE DEF N
    <2> QED BY <2>1, FS_CardinalityType
<1>4. UpTo(Cardinality(D)) = SUBSET D
    BY FS_Subset
<1> QED BY <1>3, <1>4 DEF Sums

\* Whichever element is taken away first, the sum is the same.
LEMMA SumAny ==
    ASSUME NEW D, IsFiniteSet(D), NEW f \in [D -> Int], NEW sum \in Sums(D, f),
           NEW A \in SUBSET D, NEW a \in A
    PROVE  sum[A] = f[a] + sum[A \ {a}]
<1> DEFINE T == {S \in SUBSET D : \A x \in S : sum[S] = f[x] + sum[S \ {x}]}
<1>1. {} \in T
    OBVIOUS
<1>2. ASSUME NEW S \in SUBSET D, S # {}, \A x \in S : S \ {x} \in T PROVE S \in T
    <2> SUFFICES ASSUME NEW x \in S PROVE sum[S] = f[x] + sum[S \ {x}]
        OBVIOUS
    <2> DEFINE y == Some(S)
    <2>1. y \in S
        BY OneLess
    <2>2. sum[S] = f[y] + sum[S \ {y}]
        BY DEF Sums, Added
    <2>3. CASE x = y
        BY <2>2, <2>3
    <2>4. CASE x # y
        <3> HIDE DEF y
        <3>1. sum[S \ {y}] = f[x] + sum[(S \ {y}) \ {x}]
            BY <1>2, <2>1, <2>4
        <3>2. sum[S \ {x}] = f[y] + sum[(S \ {x}) \ {y}]
            BY <1>2, <2>1, <2>4
        <3>3. sum[(S \ {y}) \ {x}] = sum[(S \ {x}) \ {y}]
            <4>1. (S \ {y}) \ {x} = (S \ {x}) \ {y}
                OBVIOUS
            <4> QED BY <4>1
        <3>4. f[x] \in Int /\ f[y] \in Int /\ sum[(S \ {x}) \ {y}] \in Int
            BY <2>1 DEF Sums
        <3> QED BY <2>2, <3>1, <3>2, <3>3, <3>4
    <2> QED BY <2>3, <2>4
<1>3. SUBSET D \subseteq T
    <2> HIDE DEF T
    <2> QED BY <1>1, <1>2, SetsFollow
<1> QED BY <1>3

\* Of nothing the sum is nothing.
LEMMA SumOfNone ==
    ASSUME NEW D, NEW f, NEW sum \in Sums(D, f)
    PROVE  {} \in SUBSET D /\ sum[{}] = 0
<1>1. {} \in SUBSET D /\ Added(f, sum, {}) = 0
    BY DEF Added
<1> QED BY Zenon, <1>1 DEF Sums

\* The sum changes as the one element does whose part of it changes.
LEMMA SumChanges ==
    ASSUME NEW D, IsFiniteSet(D), NEW f \in [D -> Int], NEW g \in [D -> Int], NEW c \in D,
           \A x \in D \ {c} : g[x] = f[x], NEW s \in Sums(D, f), NEW t \in Sums(D, g)
    PROVE  t[D] = s[D] + (g[c] - f[c])
<1> DEFINE T == {S \in SUBSET D : t[S] = s[S] + (IF c \in S THEN g[c] - f[c] ELSE 0)}
<1>1. {} \in T
    <2>1. {} \in SUBSET D /\ s[{}] = 0 /\ t[{}] = 0
        BY SumOfNone
    <2> QED BY <2>1
<1>2. ASSUME NEW S \in SUBSET D, S # {}, \A x \in S : S \ {x} \in T PROVE S \in T
    <2> DEFINE x == Some(S)
    <2>1. x \in S /\ x \in D
        BY <1>2, OneLess
    <2>2. s[S] = f[x] + s[S \ {x}] /\ t[S] = g[x] + t[S \ {x}]
        BY <1>2 DEF Sums, Added
    <2>3. s[S \ {x}] \in Int /\ t[S \ {x}] \in Int /\ f[x] \in Int /\ g[x] \in Int
          /\ f[c] \in Int /\ g[c] \in Int
        BY <2>1 DEF Sums
    <2> HIDE DEF x
    <2>4. t[S \ {x}] = s[S \ {x}] + (IF c \in S \ {x} THEN g[c] - f[c] ELSE 0)
        BY <1>2, <2>1
    <2>5. CASE x = c
        BY <2>1, <2>2, <2>3, <2>4, <2>5
    <2>6. CASE x # c
        <3>1. g[x] = f[x]
            BY <2>1, <2>6
        <3> QED BY <2>1, <2>2, <2>3, <2>4, <2>6, <3>1
    <2> QED BY <2>5, <2>6
<1>3. SUBSET D \subseteq T
    <2> HIDE DEF T
    <2> QED BY <1>1, <1>2, SetsFollow
<1> QED BY <1>3

\* Of zeros the sum is zero.
LEMMA SumOfZeros ==
    ASSUME NEW D, IsFiniteSet(D), NEW f, \A x \in D : f[x] = 0, NEW sum \in Sums(D, f)
    PROVE  \A S \in SUBSET D : sum[S] = 0
<1> DEFINE T == {S \in SUBSET D : sum[S] = 0}
<1>1. {} \in T
    BY SumOfNone
<1>2. ASSUME NEW S \in SUBSET D, S # {}, \A x \in S : S \ {x} \in T PROVE S \in T
    <2>1. Some(S) \in S
        BY <1>2, OneLess
    <2>2. sum[S] = f[Some(S)] + sum[S \ {Some(S)}]
        BY <1>2 DEF Sums, Added
    <2> QED BY <1>2, <2>1, <2>2
<1>3. SUBSET D \subseteq T
    <2> HIDE DEF T
    <2> QED BY <1>1, <1>2, SetsFollow
<1> QED BY <1>3

\* A product of a sum.
LEMMA Distributed ==
    ASSUME NEW a \in Int, NEW x \in Int, NEW y \in Int
    PROVE  a * (x + y) = a * x + a * y /\ (x + 1) * a = x * a + a
OBVIOUS

\* A quotient that is rounded up.
LEMMA RoundedUp ==
    ASSUME NEW a \in Int, NEW n \in Nat, n > 0
    PROVE  LET q == (a + n - 1) \div n IN a <= n * q /\ n * q <= a + (n - 1)
<1> DEFINE q == (a + n - 1) \div n
           r == (a + n - 1) % n
<1>1. a + n - 1 = n * q + r /\ r \in 0..(n - 1) /\ q \in Int
    OBVIOUS
<1> HIDE DEF q, r
<1>2. n * q \in Int
    BY <1>1
<1> QED BY <1>1, <1>2 DEF q

\* Shares of a total that are rounded up: together they are at least what is shared, and
\* each is less than one above its part.
LEMMA SumOfShares ==
    ASSUME NEW D, IsFiniteSet(D), NEW O \in SUBSET D, NEW total \in Nat, total > 0,
           NEW worth \in Nat,
           NEW f \in [D -> Int], \A x \in D \ O : f[x] = 0, NEW s \in Sums(D, f),
           NEW g \in [O -> Int], \A x \in O : g[x] = (worth * f[x] + total - 1) \div total,
           NEW t \in Sums(O, g)
    PROVE  /\ worth * s[D] <= total * t[O]
           /\ total * t[O] <= worth * s[D] + Cardinality(O) * (total - 1)
<1> DEFINE Low(S) == worth * s[S] <= total * t[S \cap O]
           High(S) == total * t[S \cap O] <= worth * s[S] + Cardinality(S \cap O) * (total - 1)
           T == {S \in SUBSET D : Low(S) /\ High(S)}
<1>0. IsFiniteSet(O)
    BY FS_Subset
<1>1. {} \in T
    <2>1. {} \in SUBSET D /\ s[{}] = 0 /\ t[{}] = 0 /\ {} \cap O = {} /\ Cardinality({}) = 0
        BY SumOfNone, FS_EmptySet
    <2> QED BY <2>1
<1>2. ASSUME NEW S \in SUBSET D, S # {}, \A x \in S : S \ {x} \in T PROVE S \in T
    <2> DEFINE x == Some(S)
               R == S \ {x}
    <2>1. x \in S /\ x \in D /\ R \in SUBSET D
        BY <1>2, OneLess
    <2>2. s[S] = f[x] + s[R]
        BY <1>2 DEF Sums, Added
    <2>3. Low(R) /\ High(R)
        BY <1>2, <2>1
    <2>4. s[R] \in Int /\ f[x] \in Int /\ t[R \cap O] \in Int /\ Cardinality(R \cap O) \in Nat
        <3>1. R \cap O \in SUBSET O
            OBVIOUS
        <3> QED BY <1>0, <2>1, <3>1, OneLess DEF Sums
    <2>5. CASE x \notin O
        <3>1. S \cap O = R \cap O /\ f[x] = 0
            BY <2>1, <2>5
        <3>2. s[S] = s[R]
            BY <2>2, <2>4, <3>1
        <3> HIDE DEF x, R
        <3> QED BY <2>3, <3>1, <3>2
    <2>6. CASE x \in O
        <3>1. S \cap O \in SUBSET O /\ x \in S \cap O /\ (S \cap O) \ {x} = R \cap O
            BY <2>1, <2>6
        <3>2. t[S \cap O] = g[x] + t[R \cap O]
            <4> DEFINE U == S \cap O
            <4>1. U \in SUBSET O /\ x \in U /\ U \ {x} = R \cap O
                BY <3>1
            <4> HIDE DEF U, R, x
            <4>2. t[U] = g[x] + t[U \ {x}]
                <5>1. g \in [O -> Int] /\ t \in Sums(O, g)
                    OBVIOUS
                <5> QED BY ONLY <1>0, <4>1, <5>1, SumAny
            <4>3. t[U] = g[x] + t[R \cap O]
                BY Zenon, <4>1, <4>2
            <4> QED BY <4>3 DEF U
        <3>3. Cardinality(S \cap O) = Cardinality(R \cap O) + 1
            <4> DEFINE U == S \cap O
            <4>1. U \in SUBSET O /\ x \in U /\ U \ {x} = R \cap O
                BY <3>1
            <4> HIDE DEF U, R, x
            <4>2. Cardinality(U \ {x}) = Cardinality(U) - 1 /\ Cardinality(U) \in Nat
                BY <1>0, <4>1, OneLess
            <4>3. Cardinality(R \cap O) = Cardinality(U) - 1
                BY Zenon, <4>1, <4>2
            <4>4. Cardinality(U) = Cardinality(R \cap O) + 1
                BY <4>2, <4>3
            <4> QED BY <4>4 DEF U
        <3>4. g[x] \in Int /\ g[x] = (worth * f[x] + total - 1) \div total
            BY <2>6
        <3> DEFINE a == worth * f[x]
                   b == worth * s[R]
                   u == total * g[x]
                   v == total * t[R \cap O]
                   n == Cardinality(R \cap O) * (total - 1)
        <3>5. a <= u /\ u <= a + (total - 1)
            <4>1. a \in Int
                BY <2>4
            <4> HIDE DEF a
            <4>2. LET q == (a + total - 1) \div total
                  IN  a <= total * q /\ total * q <= a + (total - 1)
                BY <4>1, RoundedUp
            <4> QED BY <3>4, <4>2 DEF a
        <3>6. b <= v /\ v <= b + n
            BY <2>3
        <3>7. /\ worth * s[S] = a + b /\ total * t[S \cap O] = u + v
              /\ Cardinality(S \cap O) * (total - 1) = n + (total - 1)
            BY <2>2, <2>4, <3>2, <3>3, <3>4, Distributed
        <3>8. /\ a \in Int /\ b \in Int /\ u \in Int /\ v \in Int
              /\ n \in Int /\ total - 1 \in Int
            <4>1. \A k, l \in Int : k * l \in Int
                OBVIOUS
            <4>2. /\ worth \in Int /\ total \in Int /\ total - 1 \in Int
                  /\ Cardinality(R \cap O) \in Int
                BY <2>4
            <4> HIDE DEF R, x
            <4> QED BY <2>4, <3>4, <4>1, <4>2
        <3> HIDE DEF a, b, u, v, n
        <3> QED BY <3>5, <3>6, <3>7, <3>8
    <2> QED BY <2>5, <2>6
<1>3. SUBSET D \subseteq T
    <2> HIDE DEF T
    <2> QED BY <1>1, <1>2, SetsFollow
<1>4. Low(D) /\ High(D) /\ D \cap O = O
    BY <1>3
<1> QED BY <1>4

\* What is given to some.
Given(n, from, D) == MapThenSumSet(LAMBDA c : Reward(n, from, c), D)

\* The fold of what opponents are given is such a sum.
LEMMA SumFold ==
    ASSUME NEW n, NEW from, NEW D, IsFiniteSet(D), \A c \in D : Reward(n, from, c) \in Int
    PROVE  \E sum \in Sums(D, [c \in D |-> Reward(n, from, c)]) :
               Given(n, from, D) = sum[D]
<1> DEFINE f == [c \in D |-> Reward(n, from, c)]
           Adds(h) == [S \in SUBSET D |->
                          IF S = {} THEN 0 ELSE Reward(n, from, Some(S)) + h[S \ {Some(S)}]]
           sum == CHOOSE h : h = Adds(h)
<1>1. \A S \in SUBSET D : S # {} => Some(S) \in D
    BY DEF Some
<1>2. sum = Adds(sum)
    <2>1. PICK g : g \in Sums(D, f)
        BY SumExists
    <2>2. g = Adds(g)
        <3>1. g = [S \in SUBSET D |-> g[S]] /\ \A S \in SUBSET D : g[S] = Added(f, g, S)
            BY <2>1 DEF Sums
        <3> QED BY <1>1, <3>1 DEF Added
    <2> HIDE DEF Adds
    <2> QED BY Zenon, <2>2
<1>3. Given(n, from, D) = sum[D]
    BY Zenon DEF Given, MapThenSumSet, MapThenFoldSet, Some
<1> HIDE DEF sum
<1>4. \A S \in SUBSET D : sum[S] = Added(f, sum, S)
    BY <1>1, <1>2 DEF Added
<1>5. sum \in Sums(D, f)
    <2> DEFINE T == {S \in SUBSET D : sum[S] \in Int}
    <2>1. {} \in T
        <3>1. {} \in SUBSET D /\ Added(f, sum, {}) = 0
            BY DEF Added
        <3>2. sum[{}] = 0
            BY Zenon, <1>4, <3>1
        <3> QED BY <3>1, <3>2
    <2>2. ASSUME NEW S \in SUBSET D, S # {}, \A x \in S : S \ {x} \in T PROVE S \in T
        <3>1. Some(S) \in S /\ f[Some(S)] \in Int
            BY <1>1, <2>2, OneLess
        <3>2. sum[S] = f[Some(S)] + sum[S \ {Some(S)}]
            BY <1>4, <2>2 DEF Added
        <3>3. sum[S \ {Some(S)}] \in Int
            BY <2>2, <3>1
        <3> QED BY <3>1, <3>2, <3>3
    <2>3. SUBSET D \subseteq T
        <3> HIDE DEF T
        <3> QED BY <2>1, <2>2, SetsFollow
    <2>4. sum \in [SUBSET D -> Int]
        BY <1>2, <2>3
    <2> QED BY <1>4, <2>4 DEF Sums
<1> QED BY <1>3, <1>5

\* Where one is given all there is, that is the sum.
LEMMA SumOfOne ==
    ASSUME NEW D, IsFiniteSet(D), NEW w \in D, NEW all \in Int, NEW f \in [D -> Int],
           \A x \in D : f[x] = IF x = w THEN all ELSE 0, NEW sum \in Sums(D, f)
    PROVE  sum[D] = all
<1> DEFINE zero == [x \in D |-> 0]
<1>1. zero \in [D -> Int] /\ zero[w] = 0 /\ \A x \in D \ {w} : f[x] = zero[x]
    OBVIOUS
<1>2. \A x \in D : zero[x] = 0
    OBVIOUS
<1> HIDE DEF zero
<1>3. PICK s : s \in Sums(D, zero)
    BY <1>1, SumExists
<1>4. s[D] = 0
    BY <1>2, <1>3, SumOfZeros
<1>5. sum[D] = s[D] + (f[w] - zero[w])
    <2>1. IsFiniteSet(D) /\ w \in D /\ f \in [D -> Int] /\ sum \in Sums(D, f)
        OBVIOUS
    <2> QED BY ONLY <1>1, <1>3, <2>1, SumChanges
<1> QED BY <1>1, <1>4, <1>5

\* Of finitely many somebody has most.
LEMMA MostOf ==
    ASSUME NEW D, IsFiniteSet(D), D # {}, NEW f, \A x \in D : f[x] \in Int
    PROVE  \E c \in D : \A x \in D : f[x] <= f[c]
<1> DEFINE T == {S \in SUBSET D : S = {} \/ \E c \in S : \A x \in S : f[x] <= f[c]}
<1>1. {} \in T
    OBVIOUS
<1>2. ASSUME NEW S \in SUBSET D, S # {}, \A x \in S : S \ {x} \in T PROVE S \in T
    <2>1. Some(S) \in S
        BY <1>2, OneLess
    <2>2. CASE S \ {Some(S)} = {}
        BY <2>1, <2>2
    <2>3. CASE S \ {Some(S)} # {}
        <3>1. PICK c \in S \ {Some(S)} : \A x \in S \ {Some(S)} : f[x] <= f[c]
            BY <1>2, <2>1, <2>3
        <3>2. f[c] \in Int /\ f[Some(S)] \in Int /\ \A x \in S : f[x] \in Int
            BY <2>1
        <3>3. CASE f[Some(S)] <= f[c]
            BY <3>1, <3>3
        <3>4. CASE f[c] <= f[Some(S)]
            BY <2>1, <3>1, <3>2, <3>4
        <3> QED BY <3>2, <3>3, <3>4
    <2> QED BY <2>2, <2>3
<1>3. SUBSET D \subseteq T
    <2> HIDE DEF T
    <2> QED BY <1>1, <1>2, SetsFollow
<1> QED BY <1>3

\* What each character has done to an NPC; the total is what they have done together, of
\* protected NPCs at least that.
Done(n) == [c \in Char |-> IF n.damage[c] = None THEN 0 ELSE n.damage[c]]

Tallied(n, o) ==
    /\ n.hp \in Nat
    /\ \A sum \in Sums(Char, Done(n)) :
          /\ sum[Char] <= n.total
          /\ o \notin Guarded => sum[Char] = n.total

\* The setting that counts attackers twice is left out: misc.ini and the code differ there.
SharesAreKept == Exp \in Nat /\ ShareMode \in 0..2

\* A bound on a product by a positive number bounds the factors.
LEMMA Divided ==
    ASSUME NEW n \in Nat, n > 0, NEW x \in Int, NEW y \in Int
    PROVE  /\ n * x <= n * y => x <= y
           /\ n * x < n * y => x < y
           /\ x <= y => n * x <= n * y
OBVIOUS

LEMMA TalliedIsFair ==
    ASSUME SharesAreKept, NEW n \in NpcState, NEW o, Tallied(n, o), n.total > 0,
           NEW from \in Opponents(n)
    PROVE  LET given == Given(n, from, Opponents(n))
           IN  /\ given < Exp + Cardinality(Opponents(n))
               /\ o \notin Guarded => given >= Exp
<1> DEFINE O == Opponents(n)
           g == [c \in O |-> Reward(n, from, c)]
           k == Cardinality(O)
           given == Given(n, from, O)
<1>1. /\ O \in SUBSET Char /\ IsFiniteSet(O) /\ from \in O
      /\ n.total \in Nat /\ Exp \in Nat
      /\ \A c \in O : n.damage[c] \in Int
    BY CharsAreFinite, FS_Subset DEF Opponents, NpcState, SharesAreKept
<1>2. k \in Nat /\ k > 0
    BY <1>1, OneLess
<1> HIDE DEF O
<1>3. CASE ShareMode = 2
    <2>1. \A c \in O : Reward(n, from, c) = (Exp * n.damage[c] + n.total - 1) \div n.total
        BY <1>3 DEF Reward
    <2>2. \A c \in O : Reward(n, from, c) \in Int
        <3> SUFFICES ASSUME NEW c \in O PROVE Reward(n, from, c) \in Int
            OBVIOUS
        <3> DEFINE a == Exp * n.damage[c] + n.total - 1
        <3>1. a \in Int
            BY <1>1
        <3> HIDE DEF a
        <3>2. a \div n.total \in Int
            BY <1>1, <3>1
        <3> QED BY <2>1, <3>2 DEF a
    <2>3. PICK t \in Sums(O, g) : given = t[O]
        BY <1>1, <2>2, SumFold
    <2> DEFINE f == Done(n)
    <2>4. f \in [Char -> Int] /\ \A x \in Char \ O : f[x] = 0
        BY DEF Done, O, Opponents, NpcState
    <2>5. g \in [O -> Int] /\ \A x \in O : g[x] = (Exp * f[x] + n.total - 1) \div n.total
        <3>1. \A x \in O : f[x] = n.damage[x]
            BY DEF Done, O, Opponents
        <3> HIDE DEF f
        <3> QED BY <2>1, <2>2, <3>1
    <2> HIDE DEF f, g, given
    <2>6. PICK s : s \in Sums(Char, f)
        BY <2>4, CharsAreFinite, SumExists
    <2>7. /\ Exp * s[Char] <= n.total * t[O]
          /\ n.total * t[O] <= Exp * s[Char] + k * (n.total - 1)
        BY <1>1, <2>3, <2>4, <2>5, <2>6, CharsAreFinite, SumOfShares
    <2>8. s[Char] <= n.total /\ (o \notin Guarded => s[Char] = n.total)
        BY <2>6 DEF Tallied, f
    <2>9. s[Char] \in Int /\ t[O] \in Int
        BY <2>3, <2>6 DEF Sums
    <2>10. t[O] < Exp + k
        <3>1. Exp * s[Char] <= Exp * n.total
            BY <1>1, <2>8, <2>9
        <3>2. k * (n.total - 1) < k * n.total
            BY <1>1, <1>2
        <3>3. /\ Exp * s[Char] \in Int /\ Exp * n.total \in Int /\ n.total * t[O] \in Int
              /\ k * (n.total - 1) \in Int /\ k * n.total \in Int
            BY <1>1, <1>2, <2>9
        <3>4. n.total * t[O] < Exp * n.total + k * n.total
            <4> DEFINE a == Exp * s[Char]
                       b == Exp * n.total
                       u == n.total * t[O]
                       v == k * (n.total - 1)
                       w == k * n.total
            <4> HIDE DEF a, b, u, v, w
            <4>1. a <= b /\ v < w /\ u <= a + v /\ a \in Int /\ b \in Int /\ u \in Int
                  /\ v \in Int /\ w \in Int
                BY <2>7, <3>1, <3>2, <3>3 DEF a, b, u, v, w
            <4>2. u < b + w
                BY <4>1
            <4> QED BY <4>2 DEF b, u, w
        <3>5. n.total * (Exp + k) = Exp * n.total + k * n.total
            BY <1>1, <1>2
        <3>6. n.total * t[O] < n.total * (Exp + k)
            BY <3>4, <3>5
        <3> QED BY <1>1, <1>2, <2>9, <3>6, Divided
    <2>11. o \notin Guarded => Exp <= t[O]
        <3> SUFFICES ASSUME o \notin Guarded PROVE Exp <= t[O]
            OBVIOUS
        <3>1. n.total * Exp <= n.total * t[O]
            <4>1. Exp * s[Char] = n.total * Exp
                BY <1>1, <2>8
            <4> QED BY <2>7, <4>1
        <3> QED BY <1>1, <2>9, <3>1, Divided
    <2>12. given < Exp + k /\ (o \notin Guarded => given >= Exp)
        BY <1>1, <2>3, <2>9, <2>10, <2>11
    <2> QED BY <2>12 DEF given, O
<1>4. CASE ShareMode \in {0, 1}
    <2>1. PICK w \in O : \A c \in O : Reward(n, from, c) = IF c = w THEN Exp ELSE 0
        <3>1. CASE ShareMode = 0
            BY <1>1, <3>1 DEF Reward
        <3>2. CASE ShareMode = 1
            <4>1. Most(n) \in O
                <5>1. \E c \in O : \A x \in O : n.damage[x] <= n.damage[c]
                    BY <1>1, MostOf
                <5> QED BY <5>1 DEF Most, O
            <4> QED BY <3>2, <4>1 DEF Reward
        <3> QED BY <1>4, <3>1, <3>2
    <2>2. \A c \in O : Reward(n, from, c) \in Int
        BY <1>1, <2>1
    <2>3. PICK t \in Sums(O, g) : given = t[O]
        BY <1>1, <2>2, SumFold
    <2>4. g \in [O -> Int] /\ \A x \in O : g[x] = IF x = w THEN Exp ELSE 0
        BY <2>1, <2>2
    <2> HIDE DEF g, given
    <2>5. t[O] = Exp
        BY <1>1, <2>3, <2>4, SumOfOne
    <2>6. given < Exp + k /\ (o \notin Guarded => given >= Exp)
        BY <1>1, <1>2, <2>3, <2>5
    <2> QED BY <2>6 DEF given, O
<1> QED BY <1>3, <1>4 DEF SharesAreKept

(***************************************************************************)
(* What has been done to whom.                                             *)
(***************************************************************************)

\* An NPC keeps what has been done to it, or all of that is forgotten.
Tidies(n, k) ==
    k # Free =>
        /\ n = Free \/ n.hp \in Nat => k.hp \in Nat
        /\ \/ n # Free /\ k.total = n.total /\ k.damage = n.damage
           \/ k.total = 0 /\ \A c \in Char : k.damage[c] = None
Tidy(S, T) == \A o \in Object : Tidies(S.object[o], T.object[o])
Even(S) == \A o \in Object : S.object[o] # Free => Tallied(S.object[o], o)

LEMMA TidiesTwice ==
    ASSUME NEW n, NEW k, NEW l, Tidies(n, k), Tidies(k, l)
    PROVE  Tidies(n, l)
    BY DEF Tidies

LEMMA TidyTwice ==
    ASSUME NEW S, NEW T, NEW U, Tidy(S, T), Tidy(T, U)
    PROVE  Tidy(S, U)
    BY TidiesTwice DEF Tidy

LEMMA TidySame ==
    ASSUME NEW S, NEW T, T.object = S.object
    PROVE  Tidy(S, T)
    BY DEF Tidy, Tidies

\* Where all is forgotten there is nothing to share, and where nothing is it is shared as before.
LEMMA TidiesTallied ==
    ASSUME NEW n, NEW k, NEW o, k # Free, Tidies(n, k), n = Free \/ Tallied(n, o)
    PROVE  Tallied(k, o)
<1>1. k.hp \in Nat
    BY DEF Tidies, Tallied
<1>2. CASE n # Free /\ k.total = n.total /\ k.damage = n.damage
    <2>1. Done(k) = Done(n)
        BY <1>2 DEF Done
    <2> QED BY <1>1, <1>2, <2>1 DEF Tallied
<1>3. CASE k.total = 0 /\ \A c \in Char : k.damage[c] = None
    <2>1. \A c \in Char : Done(k)[c] = 0
        BY <1>3 DEF Done
    <2>2. ASSUME NEW sum \in Sums(Char, Done(k)) PROVE sum[Char] = 0
        BY <2>1, CharsAreFinite, SumOfZeros
    <2> QED BY <1>1, <1>3, <2>2 DEF Tallied
<1> QED BY <1>2, <1>3 DEF Tidies

LEMMA TidyEven ==
    ASSUME NEW S, NEW T, Even(S), Tidy(S, T)
    PROVE  Even(T)
    BY TidiesTallied DEF Even, Tidy

LEMMA TidyStates ==
    /\ \A n : Tidies(n, n) /\ Tidies(n, Free)
    /\ \A n, c : Tidies(n, Spawned(Fresh(c), None))
    /\ \A n \in NpcState :
          /\ Tidies(n, Forgotten(n))
          /\ Tidies(n, [n EXCEPT !.alive = FALSE])
          /\ Tidies(n, [n EXCEPT !.alive = FALSE, !.parent = None])
          /\ \A p : Tidies(n, Spawned(n, p))
<1>1. \A n : Tidies(n, n) /\ Tidies(n, Free)
    BY DEF Tidies
<1>2. \A n, c : Tidies(n, Spawned(Fresh(c), None))
    BY MaxHpIsPositive DEF Tidies, Spawned, Fresh
<1>3. ASSUME NEW n \in NpcState
      PROVE  /\ Tidies(n, Forgotten(n))
             /\ Tidies(n, [n EXCEPT !.alive = FALSE])
             /\ Tidies(n, [n EXCEPT !.alive = FALSE, !.parent = None])
             /\ \A p : Tidies(n, Spawned(n, p))
    <2>1. Tidies(n, Forgotten(n))
        BY NotFree DEF Tidies, Forgotten, NpcState
    <2>2. /\ Tidies(n, [n EXCEPT !.alive = FALSE])
          /\ Tidies(n, [n EXCEPT !.alive = FALSE, !.parent = None])
        BY NotFree DEF Tidies, NpcState
    <2>3. ASSUME NEW p PROVE Tidies(n, Spawned(n, p))
        <3> DEFINE q == IF p = None THEN n.parent ELSE p
        <3>1. Spawned(n, p) = [n EXCEPT !.alive = TRUE, !.hp = MaxHp, !.parent = q]
            BY DEF Spawned, NpcState
        <3> HIDE DEF q
        <3> QED BY <3>1, NotFree, MaxHpIsPositive DEF Tidies, NpcState
    <2> QED BY <2>1, <2>2, <2>3
<1> QED BY <1>1, <1>2, <1>3

LEMMA TidyForget ==
    ASSUME NEW S, Shape(S), NEW D, \A o \in Object : o \in D => S.object[o] # Free
    PROVE  Tidy(S, Forget(S, D))
<1>1. \A o \in Object : Forget(S, D).object[o] =
          IF o \in D THEN Forgotten(S.object[o]) ELSE S.object[o]
    BY ForgetFields
<1>2. \A o \in Object : o \in D => S.object[o] \in NpcState
    BY DEF Shape
<1> QED BY <1>1, <1>2, TidyStates DEF Tidy

LEMMA TidyDelete ==
    ASSUME NEW S, Shape(S), NEW D
    PROVE  Tidy(S, Delete(S, D))
<1>1. \A o \in Object : Delete(S, D).object[o] = IF o \in D THEN Free ELSE S.object[o]
    BY DeleteFields
<1> QED BY <1>1, TidyStates DEF Tidy

\* NPC::Die.
LEMMA TidyDie ==
    ASSUME NEW S, Shape(S), NEW D, \A o \in Object : o \in D => S.object[o] # Free
    PROVE  Shape(Die(S, D)) /\ Tidy(S, Die(S, D))
<1> DEFINE A == Forget(S, D)
           f == [o \in Object |-> IF o \in D
                                  THEN [A.object[o] EXCEPT !.alive = FALSE, !.parent = None]
                                  ELSE A.object[o]]
           B == [A EXCEPT !.object = f]
           T == Delete(B, D \intersect Temporary)
<1>1. Die(S, D) = T
    BY DEF Die
<1>2. /\ Shape(A) /\ Tidy(S, A)
      /\ \A o \in Object : o \in D => A.object[o] = Forgotten(S.object[o])
    BY ForgetFields, TidyForget
<1>3. \A o \in Object : o \in D => A.object[o] \in NpcState
    <2>1. \A o \in Object : o \in D => S.object[o] \in NpcState
        BY DEF Shape
    <2> HIDE DEF A
    <2> QED BY <1>2, <2>1, ForgottenState
<1> HIDE DEF A
<1>4. f \in [Object -> NpcState \union {Free}] /\ \A o \in Object : Tidies(A.object[o], f[o])
    <2>1. \A o \in Object : A.object[o] \in NpcState \union {Free}
        BY <1>2 DEF Shape
    <2> QED BY <1>3, <2>1, DeadState, TidyStates
<1> HIDE DEF f
<1>5. Shape(B) /\ B.object = f
    BY <1>2, <1>4, ObjectFields
<1> HIDE DEF B
<1>6. Tidy(A, B)
    BY <1>4, <1>5 DEF Tidy
<1>7. Shape(T) /\ Tidy(B, T)
    BY <1>5, DeleteFields, TidyDelete
<1> QED BY <1>1, <1>2, <1>6, <1>7, TidyTwice

\* NPC::Killed.
LEMMA TidyKilled ==
    ASSUME NEW S, Shape(S), NEW o \in Object, S.object[o] # Free
    PROVE  Tidy(S, Killed(S, o))
<1> DEFINE A == Forget(S, {o})
           f == [A.object EXCEPT ![o] = [@ EXCEPT !.alive = FALSE]]
           B == [A EXCEPT !.object = f]
           met == {x \in Child : x \in Met(S.npcs[Home]) /\ Alive(S, x)}
           C == IF o \notin Boss THEN B ELSE Die(B, met)
           T == Delete(C, {o} \intersect (Temporary \union Pet))
<1>1. Killed(S, o) = T
    <2>1. [A EXCEPT !.object[o].alive = FALSE] = B
        BY DEF Forget
    <2> HIDE DEF B
    <2> QED BY <2>1 DEF Killed
<1>2. /\ Shape(A) /\ Tidy(S, A) /\ A.object[o] = Forgotten(S.object[o])
      /\ \A x \in Object \ {o} : A.object[x] = S.object[x]
    BY ForgetFields, TidyForget
<1>3. A.object[o] \in NpcState
    <2>1. S.object[o] \in NpcState
        BY DEF Shape
    <2> HIDE DEF A
    <2> QED BY <1>2, <2>1, ForgottenState
<1> HIDE DEF A
<1>4. /\ f \in [Object -> NpcState \union {Free}] /\ f[o] # Free
      /\ \A x \in Object \ {o} : f[x] = A.object[x]
      /\ \A x \in Object : Tidies(A.object[x], f[x])
    <2> DEFINE n == A.object[o]
               k == [n EXCEPT !.alive = FALSE]
    <2>1. f = [A.object EXCEPT ![o] = k] /\ A.object \in [Object -> NpcState \union {Free}]
        BY <1>2 DEF Shape
    <2>2. k \in NpcState /\ k # Free /\ Tidies(n, k)
        BY <1>3, DeadState, NotFree, TidyStates
    <2> HIDE DEF f, k
    <2> QED BY <2>1, <2>2, TidyStates
<1> HIDE DEF f
<1>5. Shape(B) /\ B.object = f
    BY <1>2, <1>4, ObjectFields
<1> HIDE DEF B
<1>6. Tidy(A, B)
    BY <1>4, <1>5 DEF Tidy
<1>7. \A x \in Object : x \in met => B.object[x] # Free
    BY <1>2, <1>4, <1>5 DEF Alive
<1> HIDE DEF met
<1>8. Shape(C) /\ Tidy(B, C)
    <2>1. CASE o \in Boss
        BY <1>5, <1>7, <2>1, TidyDie
    <2>2. CASE o \notin Boss
        BY <1>5, <2>2, TidySame
    <2> QED BY <2>1, <2>2
<1> HIDE DEF C
<1>9. Tidy(C, T)
    BY <1>8, TidyDelete
<1> QED BY <1>1, <1>2, <1>6, <1>8, <1>9, TidyTwice

(***************************************************************************)
(* Hits, and those who leave.                                              *)
(***************************************************************************)

\* What one has done changes by as much as the total does.
LEMMA TalliedChange ==
    ASSUME NEW n \in NpcState, NEW k \in NpcState, NEW o, Tallied(n, o), NEW c \in Char,
           k.hp \in Nat, \A d \in Char \ {c} : k.damage[d] = n.damage[d],
           k.total - n.total = Done(k)[c] - Done(n)[c]
    PROVE  Tallied(k, o)
<1>1. n.total \in Int /\ k.total \in Int
    BY DEF NpcState
<1>2. ASSUME NEW m \in NpcState PROVE Done(m) \in [Char -> Int]
    BY DEF Done, NpcState
<1>3. Done(n) \in [Char -> Int] /\ Done(k) \in [Char -> Int]
    BY <1>2
<1>4. \A d \in Char \ {c} : Done(k)[d] = Done(n)[d]
    BY DEF Done
<1>5. ASSUME NEW sum \in Sums(Char, Done(k))
      PROVE  /\ sum[Char] <= k.total
             /\ o \notin Guarded => sum[Char] = k.total
    <2>1. PICK s : s \in Sums(Char, Done(n))
        BY <1>3, CharsAreFinite, SumExists
    <2>2. sum[Char] = s[Char] + (Done(k)[c] - Done(n)[c])
        BY ONLY <1>3, <1>4, <1>5, <2>1, c \in Char, CharsAreFinite, SumChanges
    <2>3. s[Char] \in Int /\ sum[Char] \in Int
        BY <2>1 DEF Sums
    <2>4. s[Char] <= n.total /\ (o \notin Guarded => s[Char] = n.total)
        BY <2>1 DEF Tallied
    <2>5. Done(k)[c] \in Int /\ Done(n)[c] \in Int
        BY <1>3
    <2> QED BY <1>1, <2>2, <2>3, <2>4, <2>5
<1> QED BY <1>5 DEF Tallied

\* NPC::Damage: the total counts what the NPC has lost, and more only where it is protected.
LEMMA StruckTallied ==
    ASSUME NEW n \in NpcState, NEW o, Tallied(n, o), NEW c \in Char, NEW amount \in Nat
    PROVE  Tallied(Struck(n, o, c, amount), o)
<1> DEFINE limited == Least(n.hp, amount)
           counted == [n EXCEPT !.total = n.total + limited]
           given == IF n.damage[c] = None THEN limited ELSE n.damage[c] + limited
           damage == [n.damage EXCEPT ![c] = given]
           hurt == [counted EXCEPT !.hp = n.hp - limited, !.damage = damage]
           m == HitBy(n, o, c, amount)
           k == Struck(n, o, c, amount)
<1>1. /\ n.hp \in Nat /\ n.total \in Int /\ n.damage \in [Char -> Int \union {None}]
      /\ limited \in Nat /\ n.hp - limited \in Nat
    BY DEF Tallied, NpcState, Least
<1>2. given \in Int /\ n.total + limited \in Int
    BY <1>1
<1>3. counted \in NpcState /\ counted.hp = n.hp /\ counted.damage = n.damage
      /\ counted.total = n.total + limited
    <2> HIDE DEF limited
    <2> QED BY <1>2 DEF NpcState
<1>4. m = IF Protected(n, o, c) THEN counted ELSE hurt
    BY <1>3 DEF HitBy, NpcState
<1> HIDE DEF limited, counted
<1>5. /\ damage \in [Char -> Int \union {None}] /\ damage[c] = given
      /\ \A d \in Char \ {c} : damage[d] = n.damage[d]
    <2> HIDE DEF given
    <2> QED BY <1>1, <1>2
<1>6. hurt \in NpcState /\ hurt.hp = n.hp - limited /\ hurt.damage = damage
      /\ hurt.total = n.total + limited
    <2> DEFINE hp == n.hp - limited
    <2>1. hp \in Int
        BY <1>1
    <2> HIDE DEF damage, hp
    <2>2. hurt = [counted EXCEPT !.hp = hp, !.damage = damage]
        BY DEF hp
    <2> HIDE DEF hurt
    <2>3. /\ hurt \in NpcState /\ hurt.hp = hp /\ hurt.damage = damage
          /\ hurt.total = counted.total
        BY <1>3, <1>5, <2>1, <2>2 DEF NpcState
    <2> QED BY <1>3, <2>3 DEF hp
<1> HIDE DEF given, damage, hurt, m
<1>7. m \in NpcState /\ Tallied(m, o)
    <2>1. CASE Protected(n, o, c)
        <3>1. o \in Guarded /\ m = counted
            BY <1>4, <2>1 DEF Protected
        <3>2. Done(counted) = Done(n)
            BY <1>3 DEF Done
        <3>3. ASSUME NEW sum \in Sums(Char, Done(n)) PROVE sum[Char] <= counted.total
            <4>1. sum[Char] <= n.total /\ sum[Char] \in Int
                <5>1. Char \in SUBSET Char
                    OBVIOUS
                <5> QED BY <3>3, <5>1 DEF Tallied, Sums
            <4> QED BY <1>1, <1>3, <4>1
        <3> QED BY <1>1, <1>3, <3>1, <3>2, <3>3 DEF Tallied
    <2>2. CASE ~Protected(n, o, c)
        <3>1. m = hurt
            BY <1>4, <2>2
        <3>2. Done(hurt)[c] - Done(n)[c] = limited
            <4>1. given # None
                BY <1>2, NoneIsNothing
            <4>2. Done(hurt)[c] = given
                BY <1>5, <1>6, <4>1 DEF Done
            <4> QED BY <1>1, <4>2 DEF Done, given
        <3>3. hurt.total - n.total = limited
            BY <1>1, <1>6
        <3>4. Tallied(hurt, o)
            <4>1. hurt.hp \in Nat /\ \A d \in Char \ {c} : hurt.damage[d] = n.damage[d]
                BY <1>1, <1>5, <1>6
            <4>2. hurt.total - n.total = Done(hurt)[c] - Done(n)[c]
                BY <3>2, <3>3
            <4> QED BY <1>6, <4>1, <4>2, TalliedChange
        <3> QED BY <1>6, <3>1, <3>4
    <2> QED BY <2>1, <2>2
<1>8. k = m \/ k = [m EXCEPT !.killowner = c]
    BY DEF Struck, m
<1> HIDE DEF k
<1>9. k # Free /\ Tidies(m, k)
    <2>1. m # Free /\ m.total = m.total
        BY <1>7, NotFree
    <2>2. CASE k = m
        BY <2>1, <2>2 DEF Tidies
    <2>3. CASE k = [m EXCEPT !.killowner = c]
        <3>1. k \in NpcState /\ k.hp = m.hp /\ k.total = m.total /\ k.damage = m.damage
            BY <1>7, <2>3 DEF NpcState
        <3> QED BY <2>1, <3>1, NotFree DEF Tidies
    <2> QED BY <1>8, <2>2, <2>3
<1>10. Tallied(k, o)
    BY <1>7, <1>9, TidiesTallied
<1> QED BY <1>10 DEF k

\* Who leaves takes along what it has done.
LEMMA RidTallied ==
    ASSUME NEW n \in NpcState, NEW o, Tallied(n, o), NEW c \in Char, NEW found
    PROVE  Tallied(Parted(Unowned(Unlisted(n, c), c, found), c), o)
<1> DEFINE l == Unlisted(n, c)
           f == Unowned(l, c, found)
           k == Parted(f, c)
<1>1. l \in NpcState /\ Tallied(l, o)
    <2>1. CASE n.damage[c] = None
        BY <2>1 DEF Unlisted
    <2>2. CASE n.damage[c] # None
        <3> DEFINE damage == [n.damage EXCEPT ![c] = None]
                   total == n.total - n.damage[c]
        <3>1. /\ damage \in [Char -> Int \union {None}] /\ total \in Int
              /\ damage[c] = None /\ \A d \in Char \ {c} : damage[d] = n.damage[d]
              /\ n.hp \in Nat
            BY <2>2 DEF NpcState, Tallied
        <3>2. l = [n EXCEPT !.total = total, !.damage = damage]
            BY <2>2 DEF Unlisted, NpcState
        <3> HIDE DEF damage, l
        <3>3. l \in NpcState /\ l.hp = n.hp /\ l.total = total /\ l.damage = damage
            BY <3>1, <3>2 DEF NpcState
        <3>4. Done(l)[c] = 0 /\ Done(n)[c] = n.damage[c]
            BY <2>2, <3>1, <3>3 DEF Done
        <3>5. l.total - n.total = Done(l)[c] - Done(n)[c]
            BY <2>2, <3>3, <3>4 DEF NpcState
        <3>6. l.hp \in Nat /\ \A d \in Char \ {c} : l.damage[d] = n.damage[d]
            BY <3>1, <3>3
        <3>7. Tallied(l, o)
            BY <3>3, <3>5, <3>6, TalliedChange
        <3> QED BY <3>3, <3>7
    <2> QED BY <2>1, <2>2
<1> HIDE DEF l
<1>2. f \in NpcState /\ Tidies(l, f) /\ l # Free /\ f # Free
    <2> DEFINE owner == IF l.killowner = c THEN None ELSE l.killowner
    <2>1. owner \in Char \union {None}
        BY <1>1 DEF NpcState
    <2>2. f = l \/ f = [l EXCEPT !.killowner = owner]
        BY DEF Unowned
    <2> HIDE DEF owner, f
    <2>3. f \in NpcState /\ f.hp = l.hp /\ f.total = l.total /\ f.damage = l.damage
        BY <1>1, <2>1, <2>2 DEF NpcState
    <2> QED BY <1>1, <2>3, NotFree DEF Tidies
<1> HIDE DEF f
<1>3. k # Free /\ Tidies(f, k)
    <2>1. CASE f.marriage = None
        BY <1>2, <2>1 DEF Parted, Tidies
    <2>2. CASE f.marriage # None
        <3> DEFINE p == [i \in 1..2 |-> IF f.marriage.partner[i] = c THEN Dangling
                                        ELSE f.marriage.partner[i]]
                   w == [f.marriage EXCEPT !.partner = p]
        <3>1. f.marriage \in Marriages
            BY <1>2, <2>2 DEF NpcState
        <3>2. k = [f EXCEPT !.marriage = w]
            BY <1>2, <2>2, <3>1 DEF Parted, NpcState, Marriages
        <3>3. k \in NpcState
            BY <1>2, PartedState
        <3> HIDE DEF w, k
        <3>4. k.hp = f.hp /\ k.total = f.total /\ k.damage = f.damage
            BY <1>2, <3>2 DEF NpcState
        <3> QED BY <1>2, <3>3, <3>4, NotFree DEF Tidies
    <2> QED BY <2>1, <2>2
<1> HIDE DEF k
<1>4. Tallied(k, o)
    BY <1>1, <1>2, <1>3, TidiesTwice, TidiesTallied
<1> QED BY <1>4 DEF k, f, l

\* NPC::Damage.
LEMMA DamageEven ==
    ASSUME NEW S, Sane(S, {}, {}), Even(S), NEW o \in Object, NEW m \in Map, o \in OnMap(S, m),
           NEW c \in Char, NEW amount \in Nat
    PROVE  Even(Damage(S, o, c, amount))
<1> DEFINE n == Struck(S.object[o], o, c, amount)
           hit == Hits(S, o, c, n)
           lost == IF o \in Pet THEN [hit EXCEPT !.pet[n.owner] = None] ELSE hit
<1>1. Shape(S) /\ S.object[o] # Free /\ S.object[o] \in NpcState /\ amount \in Int
    BY DEF Sane, Placed, Shape
<1>2. Damage(S, o, c, amount) = IF n.hp > 0 THEN hit ELSE Killed(lost, o)
    BY DEF Damage, Hits
<1>3. Tallied(n, o) /\ n \in NpcState /\ n # Free
    BY <1>1, StruckState, StruckTallied, NotFree DEF Even
<1> HIDE DEF n
<1>4. IsHit(S, hit, o, c, n)
    BY <1>1, <1>3, HitFields
<1> HIDE DEF hit
<1>5. Shape(hit) /\ hit.object[o] # Free /\ Even(hit)
    BY <1>3, <1>4 DEF IsHit, Even
<1>6. lost.object = hit.object /\ Shape(lost)
    <2>1. CASE o \in Pet
        <3> DEFINE p == [hit.pet EXCEPT ![n.owner] = None]
        <3>1. p \in [Char -> Pet \union {None}]
            BY <1>5 DEF Shape
        <3>2. lost = [hit EXCEPT !.pet = p]
            BY <1>5, <2>1 DEF Shape
        <3> HIDE DEF p, lost
        <3>3. lost = [where |-> hit.where, unregister |-> hit.unregister, pet |-> p,
                      npc |-> hit.npc, arena |-> hit.arena, npcs |-> hit.npcs,
                      object |-> hit.object]
            BY <1>5, <3>2 DEF Shape
        <3>4. /\ lost.where = hit.where /\ lost.unregister = hit.unregister /\ lost.pet = p
              /\ lost.npc = hit.npc /\ lost.arena = hit.arena /\ lost.npcs = hit.npcs
              /\ lost.object = hit.object
            BY <3>3
        <3> QED BY <1>5, <3>1, <3>3, <3>4 DEF Shape
    <2>2. CASE o \notin Pet
        BY <1>5, <2>2
    <2> QED BY <2>1, <2>2
<1> HIDE DEF lost
<1>7. Even(Killed(lost, o))
    BY <1>5, <1>6, TidyKilled, TidySame, TidyEven
<1> QED BY <1>2, <1>5, <1>7

(***************************************************************************)
(* What becomes of the others.                                             *)
(***************************************************************************)

\* NPC::Spawn.
LEMMA TidySpawn ==
    ASSUME NEW S, Sane(S, {}, {}), NEW o \in Object, S.object[o] # Free
    PROVE  Tidy(S, Spawn(S, o))
<1> DEFINE brought == IF o \notin Boss THEN {}
                      ELSE {x \in OnMap(S, Home) \intersect Child : ~Alive(S, x)}
           T == Spawn(S, o)
<1>1. Shape(S) /\ \A x \in Object : S.object[x] # Free => S.object[x] \in NpcState
    BY DEF Sane, Shape
<1>2. \A x \in Object : T.object[x] = IF x = o THEN Spawned(S.object[x], None)
                                      ELSE IF x \in brought THEN Spawned(S.object[x], o)
                                      ELSE S.object[x]
    BY <1>1 DEF Spawn, Shape
<1>3. \A x \in brought : S.object[x] # Free
    BY MapsApart DEF Sane, Placed
<1> HIDE DEF brought, T
<1>4. Tidy(S, T)
    BY <1>1, <1>2, <1>3, TidyStates DEF Tidy
<1> QED BY <1>4 DEF T

\* NPCs that quests and commands spawn.
LEMMA TidyTemporary ==
    ASSUME NEW S, Shape(S), NEW o \in Temporary
    PROVE  Tidy(S, Spawn([S EXCEPT !.object[o] = Fresh(None),
                                   !.npcs[Home] = Append(@, o)], o))
<1> DEFINE A == [S EXCEPT !.object[o] = Fresh(None), !.npcs[Home] = Append(@, o)]
           f == [S.object EXCEPT ![o] = Fresh(None)]
           T == Spawn(A, o)
<1>1. o \in Object /\ o \notin Boss
    BY KindsAreApart DEF Object
<1>2. A.object = f /\ A = [A EXCEPT !.object = f]
    BY DEF Shape
<1>3. f[o] = Fresh(None) /\ \A x \in Object \ {o} : f[x] = S.object[x]
    BY <1>1 DEF Shape
<1>4. \A x \in Object : T.object[x] = IF x = o THEN Spawned(A.object[x], None) ELSE A.object[x]
    BY <1>1 DEF Spawn, Shape
<1> HIDE DEF A, f, T
<1>5. ASSUME NEW x \in Object PROVE Tidies(S.object[x], T.object[x])
    <2>1. CASE x = o
        <3>1. T.object[x] = Spawned(Fresh(None), None)
            BY <1>2, <1>3, <1>4, <2>1
        <3> QED BY Zenon, <3>1, TidyStates
    <2>2. CASE x # o
        <3>1. T.object[x] = S.object[x]
            BY <1>2, <1>3, <1>4, <2>2
        <3> QED BY Zenon, <3>1, TidyStates
    <2> QED BY <2>1, <2>2
<1> QED BY <1>5 DEF T, A, Tidy

LEMMA TidyCalled ==
    ASSUME NEW S, Shape(S), NEW K, K \subseteq Char, NEW at \in [K -> Pet], IsInjective(at),
           NEW m \in Map
    PROVE  Tidy(S, Called(S, at, m))
<1> DEFINE T == Called(S, at, m)
<1>1. /\ \A o \in Object \ Range(at) : T.object[o] = S.object[o]
      /\ \A c \in DOMAIN at : T.object[at[c]] = Spawned(Fresh(c), None)
    BY CalledFields DEF IsCalled
<1> HIDE DEF T
<1>2. \A o \in Range(at) : \E c \in DOMAIN at : o = at[c]
    BY DEF Range
<1>3. ASSUME NEW o \in Object PROVE Tidies(S.object[o], T.object[o])
    <2>1. CASE o \in Range(at)
        <3>1. PICK c \in DOMAIN at : o = at[c]
            BY <1>2, <2>1
        <3>2. T.object[o] = Spawned(Fresh(c), None)
            BY <1>1, <3>1
        <3> QED BY Zenon, <3>2, TidyStates
    <2>2. CASE o \notin Range(at)
        <3>1. T.object[o] = S.object[o]
            BY <1>1, <2>2
        <3> QED BY Zenon, <3>1, TidyStates
    <2> QED BY <2>1, <2>2
<1> QED BY <1>3 DEF T, Tidy

LEMMA TidyCall ==
    ASSUME NEW S, Shape(S), NEW c \in Char, S.where[c] # None, NEW o \in Pet
    PROVE  Tidy(S, Call(S, c, o))
<1> DEFINE C == {c} \cap {x \in Char : S.pet[x] # None}
           back == Dismiss(S, C)
           at == [x \in {c} |-> o]
           m == S.where[c]
<1>1. Call(S, c, o) = Called(back, at, m)
    BY DEF Call
<1>2. at \in [{c} -> Pet] /\ IsInjective(at) /\ {c} \subseteq Char /\ m \in Map
    BY DEF IsInjective, Shape
<1>3. Shape(back) /\ back.object = S.object
    BY DismissFields
<1> HIDE DEF back, at, m
<1>4. Tidy(back, Called(back, at, m))
    BY <1>2, <1>3, TidyCalled
<1> QED BY <1>1, <1>3, <1>4, TidySame, TidyTwice

\* Character::Warp.
LEMMA TidyArrive ==
    ASSUME NEW S, Shape(S), NEW C, C \subseteq Char, NEW m \in Map, NEW T \in Arrive(S, C, m)
    PROVE  Tidy(S, T)
<1> DEFINE had == {c \in C : S.pet[c] # None}
           A == Dismiss(S, had)
           B == Moved(A, C, m)
           unused == {x \in Pet : Unused(S, x)}
<1>1. PICK K \in SUBSET had : \E at \in [K -> unused] : IsInjective(at) /\ T = Called(B, at, m)
    BY DEF Arrive, Moved
<1>2. PICK at \in [K -> unused] : IsInjective(at) /\ T = Called(B, at, m)
    BY <1>1
<1>6. K \subseteq Char /\ at \in [K -> Pet]
    OBVIOUS
<1>3. Shape(A) /\ A.object = S.object
    BY DismissFields
<1> HIDE DEF A
<1>4. Shape(B) /\ B.object = A.object
    BY <1>3, MovedFields
<1> HIDE DEF B
<1>5. Tidy(B, T)
    BY <1>2, <1>4, <1>6, TidyCalled
<1> QED BY <1>3, <1>4, <1>5, TidySame, TidyTwice

\* Map::Unload and Map::Load.
LEMMA TidyUnload ==
    ASSUME NEW S, Sane(S, {}, {}), NEW m \in Map
    PROVE  Tidy(S, Unload(S, m))
<1>1. Shape(S) /\ \A o \in Object : o \in OnMap(S, m) => S.object[o] # Free
    BY DEF Sane, Placed
<1>2. Shape(Forget(S, OnMap(S, m))) /\ Tidy(S, Forget(S, OnMap(S, m)))
    BY <1>1, ForgetFields, TidyForget
<1> QED BY <1>2, TidyDelete, TidyTwice DEF Unload

LEMMA TidyLoad ==
    ASSUME NEW S, Shape(S), NEW m
    PROVE  Tidy(S, Load(S, m))
<1>1. CASE m # Home
    BY <1>1, TidySame DEF Load
<1>2. CASE m = Home
    <2>1. \A o \in Object : Load(S, m).object[o] =
              IF o \in Npc THEN Spawned(Fresh(None), None) ELSE S.object[o]
        BY <1>2 DEF Load, Shape
    <2>2. ASSUME NEW o \in Object PROVE Tidies(S.object[o], Load(S, m).object[o])
        <3>1. CASE o \in Npc
            <4>1. Load(S, m).object[o] = Spawned(Fresh(None), None)
                BY <2>1, <3>1
            <4> QED BY ONLY Zenon, <4>1, TidyStates
        <3>2. CASE o \notin Npc
            <4>1. Load(S, m).object[o] = S.object[o]
                BY <2>1, <3>2
            <4> QED BY ONLY Zenon, <4>1, TidyStates
        <3> QED BY <3>1, <3>2
    <2> QED BY <2>2 DEF Tidy
<1> QED BY <1>1, <1>2

LEMMA BecomeEven ==
    ASSUME NEW S, Even(S), Become(S)
    PROVE  Even(Memory')
<1>1. \A o \in Object : Memory'.object[o] \in {S.object[o], Free}
    BY DEF Become, Memory
<1>2. Tidy(S, Memory')
    BY <1>1, TidyStates DEF Tidy
<1> QED BY <1>2, TidyEven

\* One NPC becomes another state of it.
LEMMA TidyChange ==
    ASSUME NEW S, Shape(S), NEW o \in Object, NEW k, Tidies(S.object[o], k)
    PROVE  Tidy(S, [S EXCEPT !.object[o] = k])
<1>1. \A x \in Object : [S EXCEPT !.object[o] = k].object[x] = IF x = o THEN k ELSE S.object[x]
    BY DEF Shape
<1> QED BY <1>1, TidyStates DEF Tidy

\* Nothing else of an NPC is shared.
LEMMA OtherStates ==
    ASSUME NEW n \in NpcState
    PROVE  /\ \A m : Tidies(n, [n EXCEPT !.marriage = m])
           /\ \A c : Tidies(n, [n EXCEPT !.killowner = c])
           /\ \A hp \in Nat : Tidies(n, [n EXCEPT !.hp = hp])
           /\ \A p, c : Tidies(n, [n EXCEPT !.parent = p, !.killowner = c])
<1>1. ASSUME NEW m PROVE Tidies(n, [n EXCEPT !.marriage = m])
    BY NotFree DEF Tidies, NpcState
<1>2. ASSUME NEW c PROVE Tidies(n, [n EXCEPT !.killowner = c])
    BY NotFree DEF Tidies, NpcState
<1>3. ASSUME NEW hp \in Nat PROVE Tidies(n, [n EXCEPT !.hp = hp])
    BY NotFree DEF Tidies, NpcState
<1>4. ASSUME NEW p, NEW c PROVE Tidies(n, [n EXCEPT !.parent = p, !.killowner = c])
    BY NotFree DEF Tidies, NpcState
<1> QED BY <1>1, <1>2, <1>3, <1>4

\* A handler that keeps what has been done, or forgets all of it.
LEMMA TidyBecome ==
    ASSUME Even(Memory), NEW S, Tidy(Memory, S), Become(S)
    PROVE  Even(Memory')
    BY TidyEven, BecomeEven

LEMMA MemoryShape ==
    ASSUME Kept(Memory)
    PROVE  /\ Sane(Memory, {}, {}) /\ Shape(Memory)
           /\ \A o \in Object : object[o] # Free => object[o] \in NpcState
           /\ \A m \in Map : \A o \in OnMap(Memory, m) : o \in Object /\ object[o] # Free
<1>1. Sane(Memory, {}, {}) /\ Shape(Memory)
    BY DEF Kept, Sane
<1> QED BY <1>1, OnMapObjects, MemoryFields DEF Sane, Shape, Placed

LEMMA LoginEven ==
    ASSUME Kept(Memory), Even(Memory), NEW c \in Char, Login(c)
    PROVE  Even(Memory')
<1>1. PICK m \in Map, S \in Allocated(c) :
          Become([S EXCEPT !.where[c] = m, !.unregister[c] = {}])
    BY DEF Login
<1> DEFINE U == [S EXCEPT !.where[c] = m, !.unregister[c] = {}]
<1>2. Tidy(Memory, S) /\ U.object = S.object
    <2>1. CASE S = Memory
        <3>1. U.object = S.object
            BY <2>1 DEF Memory
        <3> QED BY <2>1, <3>1, TidySame
    <2>2. CASE S # Memory
        <3>1. PICK x \in Places : S = [Memory EXCEPT !.object[x[1]].marriage.partner[x[2]] = c]
            BY <2>2 DEF Allocated
        <3> DEFINE o == x[1]
                   n == object[o]
                   k == [n EXCEPT !.marriage = [@ EXCEPT !.partner[x[2]] = c]]
        <3>2. o \in Object /\ n # Free
            BY DEF Places
        <3>3. S = [Memory EXCEPT !.object[o] = k]
            BY <3>1 DEF Memory
        <3>4. n \in NpcState /\ Memory.object[o] = n /\ Shape(Memory)
            BY <3>2, MemoryShape, MemoryFields
        <3>5. Tidies(n, k)
            BY <3>4, OtherStates
        <3>6. U.object = S.object
            BY <3>3 DEF Memory
        <3> HIDE DEF k, n, o, U
        <3> QED BY <3>2, <3>3, <3>4, <3>5, <3>6, TidyChange
    <2> QED BY <2>1, <2>2
<1>3. Become(U)
    BY <1>1
<1> HIDE DEF U
<1>4. Tidy(Memory, U)
    BY <1>2, TidySame, TidyTwice
<1> QED BY <1>3, <1>4, TidyBecome

LEMMA LogoutEven ==
    ASSUME Kept(Memory), Even(Memory), NEW c \in Char, Logout(c)
    PROVE  Even(Memory')
<1> DEFINE S == Memory
           Leaves(n, o) == IF o \notin unregister[c] THEN n
                           ELSE [n EXCEPT !.total = @ - n.damage[c], !.damage[c] = None]
           Frees(n, o) == IF \A m \in Map : o \notin OnMap(Memory, m) THEN n
                          ELSE [n EXCEPT !.killowner = IF @ = c THEN None ELSE @]
           f == [o \in Object |-> IF S.object[o] = Free THEN Free
                                  ELSE Parted(Frees(Leaves(S.object[o], o), o), c)]
           left == [S EXCEPT !.object = f]
           alone == IF pet[c] = None THEN left ELSE Dismiss(left, {c})
           U == [alone EXCEPT !.where[c] = None, !.unregister[c] = {}, !.npc[c] = None,
                              !.arena = Left(@, {c})]
<1>1. Become(U)
    BY DEF Logout, Memory
<1>2. /\ Sane(S, {}, {}) /\ Shape(S) /\ S.unregister = unregister /\ Even(S)
      /\ \A o \in Object : S.object[o] # Free => S.object[o] \in NpcState
    BY MemoryShape, MemoryFields
<1> HIDE DEF S
<1>3. U.object = f
    <2>1. left.object = f /\ Shape(S)
        BY <1>2 DEF Shape
    <2>2. left = [where |-> S.where, unregister |-> S.unregister, pet |-> S.pet,
                  npc |-> S.npc, arena |-> S.arena, npcs |-> S.npcs, object |-> f]
        <3> HIDE DEF f
        <3> QED BY DEF S, Memory
    <2> HIDE DEF f, left
    <2>3. alone.object = f /\ U.object = alone.object
        BY <2>1, <2>2 DEF Dismiss
    <2> QED BY <2>3
<1> HIDE DEF U
<1>4. ASSUME NEW o \in Object, S.object[o] # Free
      PROVE  Tallied(f[o], o)
    <2> DEFINE n == S.object[o]
               found == \E m \in Map : o \in OnMap(S, m)
               l == Leaves(n, o)
               g == Frees(l, o)
    <2>1. n \in NpcState /\ Tallied(n, o)
        BY <1>2, <1>4 DEF Even
    <2>2. l = IF n.damage[c] = None THEN n
              ELSE [n EXCEPT !.total = @ - n.damage[c], !.damage[c] = None]
        <3>1. o \in unregister[c] <=> n.damage[c] # None
            BY <1>2, <1>4 DEF Sane, Matched
        <3> QED BY <3>1
    <2>3. g = IF found THEN [l EXCEPT !.killowner = IF @ = c THEN None ELSE @] ELSE l
        BY DEF S
    <2>4. f[o] = Parted(g, c)
        BY <1>4
    <2> HIDE DEF n, l, g, found, f
    <2>5. f[o] = Parted(Unowned(Unlisted(n, c), c, found), c)
        BY <2>2, <2>3, <2>4 DEF Unlisted, Unowned
    <2>6. Tallied(Parted(Unowned(Unlisted(n, c), c, found), c), o)
        BY <2>1, RidTallied
    <2> QED BY <2>5, <2>6
<1>5. \A o \in Object : S.object[o] = Free => f[o] = Free
    OBVIOUS
<1> HIDE DEF f
<1>6. Even(U)
    BY <1>3, <1>4, <1>5 DEF Even
<1> QED BY <1>1, <1>6, BecomeEven

\* CallPet, DismissPet, PetStrays, Warp, Open and Walk.
LEMMA MoveEven ==
    ASSUME Kept(Memory), Even(Memory), NEW c \in Char,
           \/ CallPet(c) \/ DismissPet(c) \/ PetStrays(c) \/ Walk(c)
           \/ (\E o \in Object : Open(c, o)) \/ (\E m \in Map : Warp(c, m))
    PROVE  Even(Memory')
<1>1. Shape(Memory)
    BY MemoryShape
<1>2. ASSUME NEW o \in Pet, Memory.where[c] # None, Become(Call(Memory, c, o))
      PROVE  Even(Memory')
    BY <1>1, <1>2, TidyCall, TidyBecome
<1>3. ASSUME Become(Dismiss(Memory, {c})) PROVE Even(Memory')
    BY <1>1, <1>3, DismissFields, TidySame, TidyBecome
<1>4. ASSUME NEW o, Become([Memory EXCEPT !.npc[c] = o]) PROVE Even(Memory')
    <2> DEFINE T == [Memory EXCEPT !.npc[c] = o]
    <2>1. T.object = Memory.object /\ Become(T)
        BY <1>4 DEF Memory
    <2> HIDE DEF T
    <2> QED BY <2>1, TidySame, TidyBecome
<1>5. ASSUME NEW m \in Map, NEW T \in Arrive(Memory, {c}, m), Become(T) PROVE Even(Memory')
    <2>1. {c} \subseteq Char
        OBVIOUS
    <2> QED BY <1>1, <1>5, <2>1, TidyArrive, TidyBecome
<1>6. CASE CallPet(c) \/ DismissPet(c) \/ PetStrays(c)
    BY <1>2, <1>3, <1>6, MemoryFields DEF CallPet, DismissPet, PetStrays, InWorld
<1>7. CASE Walk(c) \/ \E o \in Object : Open(c, o)
    BY <1>4, <1>7 DEF Walk, Open
<1>8. CASE \E m \in Map : Warp(c, m)
    BY <1>5, <1>8 DEF Warp
<1> QED BY <1>6, <1>7, <1>8

LEMMA AttackEven ==
    ASSUME Kept(Memory), Even(Memory), NEW c \in Char, NEW o \in Object, NEW amount \in 0..MaxHp,
           Attack(c, o, amount) \/ PetAttack(c, o, amount)
    PROVE  Even(Memory')
<1> DEFINE T == Damage(Memory, o, c, amount)
<1>1. /\ Memory.where[c] # None /\ o \in OnMap(Memory, Memory.where[c]) /\ Become(T)
    BY MemoryFields DEF Attack, PetAttack, Here
<1>2. Sane(Memory, {}, {}) /\ Memory.where[c] \in Map /\ amount \in Nat
    BY <1>1, MemoryShape, MaxHpIsPositive DEF Shape
<1> HIDE DEF T
<1>3. Even(T)
    BY <1>1, <1>2, DamageEven DEF T
<1> QED BY <1>1, <1>3, BecomeEven

LEMMA ActEven ==
    ASSUME Kept(Memory), Even(Memory), NEW o \in Object, Act(o)
    PROVE  Even(Memory')
<1>1. /\ Sane(Memory, {}, {}) /\ Shape(Memory) /\ Memory.object[o] # Free
      /\ Memory.object[o] = object[o] /\ object[o] \in NpcState
    BY MemoryShape, MemoryFields DEF Act, Alive
<1> DEFINE State(bored) == [Memory EXCEPT !.object[o] = Minded(object[o], o, bored)]
           Does(S) ==
               \/ Become(S)
               \/ \E c \in Here(o), m \in Map : \E T \in Arrive(S, {c}, m) : Become(T)
               \/ \E c \in Here(o), amount \in 1..MaxHp :
                     /\ pet[c] # None /\ Alive(S, pet[c])
                     /\ Become(Damage(S, pet[c], c, amount))
<1>2. PICK bored \in BOOLEAN : Does(State(bored))
    <2>1. \A bored \in BOOLEAN :
              State(bored) = [Memory EXCEPT !.object[o] = Minded(@, o, bored)]
        BY DEF Memory
    <2> HIDE DEF State
    <2> QED BY <2>1 DEF Act
<1> DEFINE k == Minded(object[o], o, bored)
           S == [Memory EXCEPT !.object[o] = k]
<1>3. Does(S)
    BY <1>2
<1>4. Tidies(object[o], k)
    BY <1>1, OtherStates DEF Minded
<1>5. /\ k \in NpcState /\ Alike(object[o], k) /\ k.alive = object[o].alive
      /\ k.killowner \in {object[o].killowner, None}
    BY <1>1, MindedState
<1> HIDE DEF k, State
<1>6. Sane(S, {}, {}) /\ Changed(Memory, S, o, k)
    BY <1>1, <1>5, ChangeKept
<1>7. Tidy(Memory, S) /\ Even(S)
    BY <1>1, <1>4, TidyChange, TidyEven
<1> HIDE DEF S, Does
<1>8. ASSUME NEW c \in Here(o), NEW m \in Map, NEW T \in Arrive(S, {c}, m), Become(T)
      PROVE  Even(Memory')
    <2>1. {c} \subseteq Char /\ Shape(S)
        BY <1>6 DEF Here, Sane
    <2>2. Even(T)
        BY <1>7, <1>8, <2>1, TidyArrive, TidyEven
    <2> QED BY <1>8, <2>2, BecomeEven
<1>9. ASSUME NEW c \in Here(o), NEW amount \in 1..MaxHp, pet[c] # None, Alive(S, pet[c]),
             Become(Damage(S, pet[c], c, amount))
      PROVE  Even(Memory')
    <2> DEFINE T == Damage(S, pet[c], c, amount)
    <2>1. c \in Char /\ amount \in Nat
        BY MaxHpIsPositive DEF Here
    <2>2. S.pet = pet /\ S.object[pet[c]] # Free
        BY <1>6, <1>9, MemoryFields DEF Changed, Others, Alive
    <2>3. /\ S.where[c] # None /\ pet[c] \in OnMap(S, S.where[c])
        BY <1>6, <1>9, <2>1, <2>2 DEF Sane, Followed
    <2>4. S.where[c] \in Map /\ pet[c] \in Object
        BY <1>6, <1>9, <2>1, <2>2, <2>3 DEF Sane, Shape, Object
    <2> HIDE DEF T
    <2>5. Even(T)
        BY <1>6, <1>7, <2>1, <2>3, <2>4, DamageEven DEF T
    <2> QED BY <1>9, <2>5, BecomeEven DEF T
<1> QED BY <1>3, <1>7, <1>8, <1>9, BecomeEven DEF Does

LEMMA RecoverEven ==
    ASSUME Kept(Memory), Even(Memory), NEW o \in Object, Recover(o)
    PROVE  Even(Memory')
<1>1. /\ object[o] # Free /\ Memory.object[o] = object[o] /\ object[o] \in NpcState
      /\ Shape(Memory) /\ object[o].hp \in Nat
    BY MemoryShape, MemoryFields DEF Recover, Alive, Even, Tallied
<1>2. PICK hp \in (object[o].hp + 1)..MaxHp : Become([Memory EXCEPT !.object[o].hp = hp])
    BY DEF Recover
<1>3. hp \in Nat
    BY <1>1, MaxHpIsPositive
<1> DEFINE k == [object[o] EXCEPT !.hp = hp]
           T == [Memory EXCEPT !.object[o] = k]
<1>4. Become(T)
    BY <1>2 DEF Memory
<1>5. Tidies(object[o], k)
    BY <1>1, <1>3, OtherStates
<1> HIDE DEF k
<1>6. Tidy(Memory, T)
    BY <1>1, <1>5, TidyChange
<1> QED BY <1>4, <1>6, TidyBecome

LEMMA RespawnEven ==
    ASSUME Kept(Memory), Even(Memory), NEW o \in Object, Respawn(o)
    PROVE  Even(Memory')
<1>1. /\ Sane(Memory, {}, {}) /\ Shape(Memory) /\ Memory.object[o] = object[o]
      /\ object[o] # Free /\ object[o] \in NpcState
      /\ Become(Spawn([Memory EXCEPT !.object[o].killowner = None], o))
    BY MemoryShape, MemoryFields, MapsApart DEF Respawn
<1> DEFINE k == [object[o] EXCEPT !.killowner = None]
           S == [Memory EXCEPT !.object[o] = k]
<1>2. k \in NpcState /\ Alike(object[o], k) /\ k.alive = object[o].alive /\ k.killowner = None
      /\ Tidies(object[o], k)
    BY <1>1, OwnedState, OtherStates
<1>3. [Memory EXCEPT !.object[o].killowner = None] = S
    BY DEF Memory
<1> HIDE DEF k
<1>4. Sane(S, {}, {}) /\ Changed(Memory, S, o, k) /\ Tidy(Memory, S)
    BY <1>1, <1>2, ChangeKept, TidyChange
<1> HIDE DEF S
<1>5. S.object[o] # Free
    BY <1>2, <1>4, NotFree DEF Changed
<1> QED BY <1>1, <1>3, <1>4, <1>5, TidySpawn, TidyTwice, TidyBecome

LEMMA SpawnEven ==
    ASSUME Kept(Memory), Even(Memory), DespawnNPC \/ \E o \in Temporary : SpawnTemporary(o)
    PROVE  Even(Memory')
<1>1. Shape(Memory)
    BY MemoryShape
<1>2. ASSUME NEW o \in Temporary, SpawnTemporary(o) PROVE Even(Memory')
    BY <1>1, <1>2, TidyTemporary, TidyBecome DEF SpawnTemporary
<1>3. CASE DespawnNPC
    <2> DEFINE D == {o \in OnMap(Memory, Home) \cap Temporary : Alive(Memory, o)}
    <2>1. Become(Die(Memory, D))
        BY <1>3 DEF DespawnNPC
    <2>2. \A o \in Object : o \in D => Memory.object[o] # Free
        BY DEF Alive
    <2> HIDE DEF D
    <2> QED BY <1>1, <2>1, <2>2, TidyDie, TidyBecome
<1> QED BY <1>2, <1>3

LEMMA ReloadEven ==
    ASSUME Kept(Memory), Even(Memory), NEW c \in Char, NEW m \in Map, ReloadMap(c, m)
    PROVE  Even(Memory')
<1> DEFINE C == {x \in Char : where[x] = where[c] /\ pet[x] # None}
           back == Dismiss(Memory, C)
           S == Unload(back, m)
<1>1. Become(back) \/ Become(Load(S, m))
    BY DEF ReloadMap
<1>2. Sane(Memory, {}, {}) /\ Shape(Memory) /\ C \subseteq Char /\ \A d \in C : Memory.pet[d] # None
    BY MemoryShape, MemoryFields
<1> HIDE DEF C
<1>3. Sane(back, {}, {}) /\ Tidy(Memory, back)
    BY <1>2, DismissSane, DismissFields, TidySame
<1> HIDE DEF back
<1>4. Shape(S)
    <2>1. Shape(back) /\ \A o \in Object : o \in OnMap(back, m) => back.object[o] # Free
        BY <1>3 DEF Sane, Placed
    <2>2. Shape(Forget(back, OnMap(back, m)))
        BY <2>1, ForgetFields
    <2> QED BY <2>2, DeleteFields DEF Unload
<1>5. Tidy(back, S)
    BY <1>3, TidyUnload
<1> HIDE DEF S
<1>6. Tidy(S, Load(S, m))
    BY <1>4, TidyLoad
<1> QED BY <1>1, <1>3, <1>5, <1>6, TidyTwice, TidyBecome

\* Spawn, hit and load the arena: the ring is another, the NPCs are the same.
LEMMA GamesEven ==
    ASSUME Kept(Memory), Even(Memory), Games
    PROVE  Even(Memory')
<1>1. Shape(Memory) /\ ArenaMap \in Map /\ Counted(Memory) /\ Memory.arena = arena
    BY MemoryShape, MemoryFields, MapsApart DEF Kept
<1>2. arena.members \subseteq Char
    BY <1>1 DEF Counted
<1>3. ASSUME NEW a, NEW C, C \subseteq Char,
             NEW T \in Arrive([Memory EXCEPT !.arena = a], C, ArenaMap), Become(T)
      PROVE  Even(Memory')
    <2> DEFINE S == [Memory EXCEPT !.arena = a]
    <2>1. S = [where |-> where, unregister |-> unregister, pet |-> pet, npc |-> npc,
               arena |-> a, npcs |-> npcs, object |-> object]
        BY DEF Memory
    <2>2. Shape(S) /\ S.object = Memory.object
        BY <1>1, <2>1, MemoryFields DEF Shape
    <2> HIDE DEF S
    <2>3. Tidy(Memory, S) /\ Tidy(S, T)
        BY <1>1, <1>3, <2>2, TidySame, TidyArrive DEF S
    <2> QED BY <1>3, <2>3, TidyTwice, TidyBecome
<1>4. ASSUME NEW C \in SUBSET Char, Spawns(C) PROVE Even(Memory')
    <2>1. PICK T \in Arrive([Memory EXCEPT !.arena.next = @ \cup C], C, ArenaMap) : Become(T)
        BY <1>4 DEF Spawns
    <2> DEFINE a == [arena EXCEPT !.next = @ \cup C]
    <2>2. [Memory EXCEPT !.arena.next = @ \cup C] = [Memory EXCEPT !.arena = a]
        BY DEF Memory
    <2> HIDE DEF a
    <2> QED BY <1>3, <2>1, <2>2
<1>5. ASSUME NEW c \in Char, NEW d \in Char, Hit(c, d) PROVE Even(Memory')
    <2> DEFINE out == IF arena.occupants = 2 THEN {c, d} ELSE {d}
    <2>1. PICK T \in Arrive(Memory, out, ArenaMap) : Become(T)
        BY <1>5 DEF Hit
    <2>2. out \subseteq Char
        OBVIOUS
    <2> HIDE DEF out
    <2> QED BY <1>1, <2>1, <2>2, TidyArrive, TidyBecome
<1>6. ASSUME NEW enabled \in BOOLEAN, LoadArena(enabled) PROVE Even(Memory')
    <2> DEFINE staying == {c \in arena.members : where[c] = ArenaMap}
               a == [arena EXCEPT !.enabled = enabled,
                                  !.members = IF enabled THEN staying ELSE {},
                                  !.occupants = Cardinality(staying)]
               out == IF enabled THEN {} ELSE staying
    <2>1. PICK T \in Arrive([Memory EXCEPT !.arena = a], out, ArenaMap) : Become(T)
        BY <1>6 DEF LoadArena
    <2>2. out \subseteq Char
        BY <1>2
    <2> HIDE DEF a, out
    <2> QED BY <1>3, <2>1, <2>2
<1> QED BY <1>4, <1>5, <1>6 DEF Games

\* Who is led through which ceremony says nothing of fights.
LEMMA CeremoniesEven ==
    ASSUME Kept(Memory), Even(Memory), Ceremonies
    PROVE  Even(Memory')
<1>1. /\ Shape(Memory) /\ Memory.object = object
      /\ \A o \in Object : object[o] # Free => object[o] \in NpcState
      /\ \A c \in Char : npc[c] \in Priest => npc[c] \in Object /\ object[npc[c]] # Free
    BY MemoryShape, MemoryFields, AtThePriest
<1>2. ASSUME NEW c \in Char, (\E d \in Char : Law_Marriage(c, d)) \/ Law_Divorce(c)
      PROVE  Even(Memory')
    <2>1. Memory' = Memory
        BY <1>2 DEF Law_Marriage, Law_Divorce, vars, Memory
    <2> QED BY <2>1
<1>3. ASSUME NEW o \in Object, object[o] # Free, NEW S, S.object = object, Shape(S), NEW m,
             Become([S EXCEPT !.object[o].marriage = m])
      PROVE  Even(Memory')
    <2> DEFINE k == [object[o] EXCEPT !.marriage = m]
               T == [S EXCEPT !.object[o] = k]
    <2>1. [S EXCEPT !.object[o].marriage = m] = T
        BY <1>3 DEF Shape
    <2>2. Tidies(S.object[o], k)
        BY <1>1, <1>3, OtherStates
    <2> HIDE DEF k
    <2>3. Tidy(S, T)
        BY <1>3, <2>2, TidyChange
    <2>4. Tidy(Memory, S)
        BY <1>1, <1>3, TidySame
    <2> HIDE DEF T
    <2> QED BY <1>3, <2>1, <2>3, <2>4, TidyTwice, TidyBecome
<1>4. ASSUME NEW c \in Char, NEW d \in Char, Priest_Request(c, d) PROVE Even(Memory')
    <2> DEFINE m == [partner |-> <<c, d>>, accepted |-> <<FALSE, FALSE>>, begun |-> FALSE,
                     state |-> 1]
               o == npc[c]
               S == [Memory EXCEPT !.npc[d] = o]
    <2>1. /\ npc[c] \in Priest
          /\ Become([Memory EXCEPT !.npc[d] = npc[c], !.object[npc[c]].marriage = m])
        BY <1>4 DEF Priest_Request
    <2>2. [Memory EXCEPT !.npc[d] = npc[c], !.object[npc[c]].marriage = m]
              = [S EXCEPT !.object[o].marriage = m]
        BY DEF Memory
    <2>3. o \in Object /\ object[o] # Free
        BY <1>1, <2>1
    <2> HIDE DEF m, o
    <2>4. S.object = object /\ Shape(S)
        <3> DEFINE p == [npc EXCEPT ![d] = o]
        <3>1. p \in [Char -> Object \cup {None}]
            BY <1>1, <2>3, MemoryFields DEF Shape
        <3>2. S = [where |-> where, unregister |-> unregister, pet |-> pet, npc |-> p,
                   arena |-> arena, npcs |-> npcs, object |-> object]
            BY DEF Memory
        <3> HIDE DEF p, S
        <3>3. /\ S.where = where /\ S.unregister = unregister /\ S.pet = pet /\ S.npc = p
              /\ S.arena = arena /\ S.npcs = npcs /\ S.object = object
            BY <3>2
        <3> QED BY <1>1, <3>1, <3>2, <3>3, MemoryFields DEF Shape
    <2> HIDE DEF S
    <2> QED BY <1>3, <2>1, <2>2, <2>3, <2>4
<1>5. ASSUME NEW c \in Char, Priest_Accept(c) \/ Priest_Use(c) PROVE Even(Memory')
    <2>1. /\ npc[c] \in Priest
          /\ \E m : Become([Memory EXCEPT !.object[npc[c]].marriage = m])
        BY <1>5 DEF Priest_Accept, Priest_Use, Married
    <2> QED BY <1>1, <1>3, <2>1
<1>6. ASSUME ExecuteWeddings PROVE Even(Memory')
    <2>1. PICK late \in SUBSET Priest : object' = Executed(late)
        BY <1>6, MemoryFields DEF ExecuteWeddings, Executed, OnMap
    <2>2. ASSUME NEW o \in Object PROVE Tidies(object[o], object'[o])
        <3>1. CASE o \in OnMap(Memory, Home)
            <4>1. object[o] \in NpcState
                BY <1>1, <3>1, MemoryShape, MapsApart
            <4>2. object'[o] = [object[o] EXCEPT !.marriage = Execute(@, o \in late)]
                BY <2>1, <3>1 DEF Executed
            <4> QED BY <4>1, <4>2, OtherStates
        <3>2. CASE o \notin OnMap(Memory, Home)
            BY Zenon, <2>1, <3>2, TidyStates DEF Executed
        <3> QED BY <3>1, <3>2
    <2>3. Tidy(Memory, Memory')
        BY <1>1, <2>2 DEF Tidy, Memory
    <2> QED BY <2>3, TidyEven
<1> QED BY <1>2, <1>4, <1>5, <1>6 DEF Ceremonies

LEMMA InitEven == Init => Even(Memory)
<1> SUFFICES ASSUME Init, NEW o \in Object, object[o] # Free PROVE Tallied(object[o], o)
    BY MemoryFields DEF Even
<1>1. object[o] = Spawned(Fresh(None), None)
    BY DEF Init
<1>2. Tidies(Free, object[o])
    BY Zenon, <1>1, TidyStates
<1> QED BY <1>2, TidiesTallied

LEMMA NextEven ==
    ASSUME Kept(Memory), Even(Memory), Next
    PROVE  Even(Memory')
<1>1. ASSUME NEW c \in Char, \/ Login(c) \/ Logout(c) \/ CallPet(c) \/ DismissPet(c)
                             \/ PetStrays(c) \/ Walk(c)
      PROVE  Even(Memory')
    BY <1>1, LoginEven, LogoutEven, MoveEven
<1>2. ASSUME NEW c \in Char, NEW o \in Object, Open(c, o) PROVE Even(Memory')
    BY <1>2, MoveEven
<1>3. ASSUME NEW c \in Char, NEW m \in Map, Warp(c, m) \/ ReloadMap(c, m) PROVE Even(Memory')
    BY <1>3, MoveEven, ReloadEven
<1>4. ASSUME NEW c \in Char, NEW o \in Object, NEW amount \in 0..MaxHp,
             Attack(c, o, amount) \/ PetAttack(c, o, amount)
      PROVE  Even(Memory')
    BY <1>4, AttackEven
<1>5. ASSUME NEW o \in Object, Act(o) \/ Recover(o) \/ Respawn(o) PROVE Even(Memory')
    BY <1>5, ActEven, RecoverEven, RespawnEven
<1>6. ASSUME DespawnNPC \/ \E o \in Temporary : SpawnTemporary(o) PROVE Even(Memory')
    BY <1>6, SpawnEven
<1> QED BY <1>1, <1>2, <1>3, <1>4, <1>5, <1>6 DEF Next

LEMMA EvenHolds == RealmSpec => []Even(Memory)
<1>1. RealmInit => Even(Memory)
    BY InitEven DEF RealmInit
<1>2. RealmInv /\ Even(Memory) /\ [RealmNext]_<<vars, vows>> => Even(Memory)'
    <2> SUFFICES ASSUME RealmInv, Even(Memory), [RealmNext]_<<vars, vows>>
                 PROVE  Even(Memory')
        BY DEF Even
    <2>1. Kept(Memory)
        BY DEF RealmInv
    <2>2. CASE Next
        BY <2>1, <2>2, NextEven
    <2>3. CASE Games
        BY <2>1, <2>3, GamesEven
    <2>4. CASE Ceremonies
        BY <2>1, <2>4, CeremoniesEven
    <2>5. ASSUME UNCHANGED <<vars, vows>> PROVE Even(Memory')
        <3>1. Memory' = Memory
            BY <2>5 DEF vars, Memory
        <3> QED BY <3>1
    <2> QED BY <2>2, <2>3, <2>4, <2>5 DEF RealmNext
<1> QED BY <1>1, <1>2, RealmHolds, PTL DEF RealmSpec

\* FairShare: were an NPC killed now, its opponents would together get what the kill is worth,
\* but for the rounding up of each share.
THEOREM KillsAreShared ==
    ASSUME SharesAreKept
    PROVE  RealmSpec => []FairShare
<1>1. RealmInv /\ Even(Memory) => FairShare
    <2> SUFFICES ASSUME RealmInv, Even(Memory), NEW o \in Object, object[o] # Free,
                        object[o].total > 0, NEW from \in Opponents(object[o])
                 PROVE  LET n == object[o]
                            given == MapThenSumSet(LAMBDA c : Reward(n, from, c), Opponents(n))
                        IN  /\ given < Exp + Cardinality(Opponents(n))
                            /\ o \notin Guarded => given >= Exp
        BY Zenon DEF FairShare
    <2>1. object[o] \in NpcState /\ Tallied(object[o], o)
        BY MemoryShape, MemoryFields DEF RealmInv, Even
    <2> DEFINE n == object[o]
               given == Given(n, from, Opponents(n))
    <2> HIDE DEF n
    <2>2. n \in NpcState /\ Tallied(n, o) /\ n.total > 0 /\ from \in Opponents(n)
        BY <2>1 DEF n
    <2>3. /\ given < Exp + Cardinality(Opponents(n))
          /\ o \notin Guarded => given >= Exp
        BY <2>2, TalliedIsFair
    <2> QED BY Zenon, <2>3 DEF n, Given
<1> QED BY <1>1, RealmHolds, EvenHolds, PTL

(***************************************************************************)
(* Children.  A boss that dies walks the vector and steps over what comes  *)
(* after a temporary child it has erased.  It meets all children of the    *)
(* file all the same, since those come first and are not erased (Begins).  *)
(***************************************************************************)

Begins(list) ==
    Len(list) >= Len(Order) /\ \A i \in 1..Len(Order) : list[i] = Order[i]

LEMMA OrderList == Order \in Seq(Object) /\ Begins(Order) /\ ToSet(Order) = Npc
<1>1. Order \in Seq(Object)
    BY OrderIsOfNpcs DEF Object
<1> QED BY <1>1, OrderIsOfNpcs DEF Begins

LEMMA BeginsWithNpcs ==
    ASSUME NEW list \in Seq(Object), Begins(list)
    PROVE  \A o \in Npc : \E i \in 1..Len(Order) : i \in DOMAIN list /\ list[i] = o
<1> SUFFICES ASSUME NEW o \in Npc
             PROVE  \E i \in 1..Len(Order) : i \in DOMAIN list /\ list[i] = o
    OBVIOUS
<1>1. PICK i \in DOMAIN Order : Order[i] = o
    BY OrderList DEF ToSet
<1>2. i \in 1..Len(Order) /\ Len(list) \in Nat /\ Len(Order) \in Nat /\ DOMAIN list = 1..Len(list)
    BY OrderList
<1> QED BY <1>1, <1>2 DEF Begins

LEMMA BeginsAppended ==
    ASSUME NEW list \in Seq(Object), NEW more \in Seq(Object), Begins(list)
    PROVE  Begins(list \o more)
<1>1. Len(list) \in Nat /\ Len(more) \in Nat /\ Len(Order) \in Nat
    BY OrderList
<1>2. /\ Len(list \o more) = Len(list) + Len(more)
      /\ \A i \in 1..Len(list) : (list \o more)[i] = list[i]
    OBVIOUS
<1>3. \A i \in 1..Len(Order) : i \in 1..Len(list)
    BY <1>1 DEF Begins
<1> QED BY <1>1, <1>2, <1>3 DEF Begins

LEMMA BeginsLonger ==
    ASSUME NEW list \in Seq(Object), NEW o \in Object, Begins(list)
    PROVE  Begins(Append(list, o))
<1>1. Append(list, o) = list \o <<o>> /\ <<o>> \in Seq(Object)
    OBVIOUS
<1> QED BY <1>1, BeginsAppended

\* What is erased comes after the NPCs of the file.
LEMMA BeginsErased ==
    ASSUME NEW list \in Seq(Object), Begins(list), NEW D, D \cap Npc = {}
    PROVE  Begins(Erased(list, D))
<1> DEFINE I == {i \in DOMAIN list : list[i] \notin D}
           upto(i) == {j \in I : j <= i}
           at(k) == CHOOSE i \in I : Cardinality(upto(i)) = k
           size == Cardinality(I)
           n == Len(Order)
           m == Len(list)
<1>1. n \in Nat /\ m \in Nat /\ n <= m /\ DOMAIN list = 1..m
    BY OrderList DEF Begins
<1>2. \A i \in 1..n : i \in I /\ list[i] = Order[i]
    <2>1. \A i \in 1..n : Order[i] \in Npc
        BY OrderIsOfNpcs
    <2> QED BY <1>1, <2>1 DEF Begins
<1>3. I \subseteq 1..m
    BY <1>1
<1>4. Erased(list, D) = [k \in 1..size |-> list[at(k)]]
    BY DEF Erased
<1> HIDE DEF I, n, m
<1>5. IsFiniteSet(I) /\ size \in Nat
    <2>1. 1 \in Int /\ m \in Int
        BY <1>1
    <2>2. IsFiniteSet(1..m)
        BY <2>1, FS_Interval
    <2> QED BY <1>3, <2>2, FS_Subset, FS_CardinalityType
<1>6. ASSUME NEW i \in 0..n PROVE IsFiniteSet(1..i) /\ Cardinality(1..i) = i
    <2>1. i \in Int /\ 1 \in Int /\ i >= 0
        BY <1>1
    <2>2. IsFiniteSet(1..i) /\ Cardinality(1..i) = IF 1 > i THEN 0 ELSE i - 1 + 1
        BY <2>1, FS_Interval
    <2> QED BY <2>1, <2>2
<1>7. ASSUME NEW i \in 1..n PROVE upto(i) = 1..i /\ i \in I
    <2>1. \A j \in I : j \in Nat /\ j >= 1
        BY <1>1, <1>3
    <2>2. \A j \in 1..i : j \in 1..n
        BY <1>1
    <2>3. \A j \in 1..i : j \in I /\ j <= i
        BY <1>1, <1>2, <2>2
    <2>4. \A j \in upto(i) : j \in 1..i
        BY <1>1, <2>1
    <2>5. \A j \in 1..i : j \in upto(i)
        BY <2>3
    <2> HIDE DEF upto
    <2>6. upto(i) = 1..i
        BY <2>4, <2>5
    <2> QED BY <1>2, <2>6
<1>8. n <= size
    <2>1. 1..n \subseteq I /\ n \in 0..n
        BY <1>1, <1>2
    <2>2. Cardinality(1..n) = n
        BY <1>6, <2>1
    <2>3. Cardinality(1..n) <= size
        BY <1>5, <2>1, FS_Subset
    <2> QED BY <2>2, <2>3
<1>9. ASSUME NEW k \in 1..n PROVE at(k) = k
    <2>1. Cardinality(upto(k)) = k /\ k \in I
        <3>1. k \in 0..n
            BY <1>1
        <3> QED BY <1>6, <1>7, <3>1
    <2>2. ASSUME NEW i \in I, Cardinality(upto(i)) = k PROVE i = k
        <3>1. CASE i < k
            <4>1. i \in 1..n /\ i \in 0..n
                BY <1>1, <1>3, <3>1
            <4> QED BY <1>6, <1>7, <2>2, <3>1, <4>1
        <3>2. CASE k < i
            <4>1. 1..k \subseteq upto(i) /\ i \in upto(i) /\ i \notin 1..k
                BY <1>1, <1>2, <1>3, <3>2
            <4>2. (1..k) \cup {i} \subseteq upto(i) /\ upto(i) \subseteq I
                BY <4>1
            <4> HIDE DEF upto
            <4>3. k \in 0..n /\ IsFiniteSet(upto(i))
                BY <1>1, <1>5, <4>2, FS_Subset
            <4>4. Cardinality((1..k) \cup {i}) = k + 1
                BY <1>6, <4>1, <4>3, FS_AddElement
            <4>5. k + 1 <= Cardinality(upto(i))
                BY <4>2, <4>3, <4>4, FS_Subset
            <4> QED BY <1>1, <2>2, <4>5
        <3>3. i \in Nat /\ k \in Nat
            BY <1>1, <1>3
        <3> QED BY <3>1, <3>2, <3>3
    <2> HIDE DEF upto
    <2> QED BY <2>1, <2>2
<1> HIDE DEF at, size
<1>10. Len(Erased(list, D)) = size /\ \A k \in 1..n : Erased(list, D)[k] = Order[k]
    <2>1. \A k \in 1..n : k \in 1..size
        BY <1>1, <1>5, <1>8
    <2> QED BY <1>2, <1>4, <1>5, <1>9, <2>1
<1> QED BY <1>8, <1>10 DEF Begins, n

\* The walk of a boss over the vector.
Start(list) == [met |-> {}, list |-> list, memory |-> list]
Step(list, h, K) == IF K = {} THEN Start(list) ELSE Meet(h[K \ {Max(K)}], Max(K))
Steps(list) == CHOOSE h : h = [K \in SUBSET DOMAIN list |-> Step(list, h, K)]

LEMMA MaxOf ==
    ASSUME NEW list \in Seq(Object), NEW K \in SUBSET DOMAIN list, K # {}
    PROVE  Max(K) \in K /\ \A i \in K : i <= Max(K)
<1>1. K \subseteq 1..Len(list) /\ Len(list) \in Nat
    OBVIOUS
<1>2. K \subseteq Nat /\ \A i \in K : i <= Len(list)
    BY <1>1
<1>3. \E i \in K : \A j \in K : j <= i
    BY <1>1, <1>2, GreatestOf
<1>4. \E i \in K : \A j \in K : i >= j
    BY <1>2, <1>3
<1>5. Max(K) \in K /\ \A j \in K : Max(K) >= j
    BY <1>4 DEF Max
<1> QED BY <1>2, <1>5

LEMMA StepsExist ==
    ASSUME NEW list \in Seq(Object)
    PROVE  Steps(list) = [K \in SUBSET DOMAIN list |-> Step(list, Steps(list), K)]
<1> DEFINE C == DOMAIN list
           UpTo(n) == {K \in SUBSET C : Cardinality(K) <= n}
           On(g, n) == g = [K \in UpTo(n) |-> Step(list, g, K)]
           N == {n \in Nat : \E g : On(g, n)}
<1>1. IsFiniteSet(C)
    <2>1. C = 1..Len(list) /\ 1 \in Int /\ Len(list) \in Int
        OBVIOUS
    <2> QED BY <2>1, FS_Interval
<1>2. \A K \in SUBSET C : K # {} => Max(K) \in K
    BY MaxOf
<1> HIDE DEF C
<1>3. 0 \in N
    <2> DEFINE g == [K \in UpTo(0) |-> Start(list)]
    <2>1. \A K \in UpTo(0) : Step(list, g, K) = Start(list)
        BY <1>1, OneLess DEF Step
    <2>2. On(g, 0)
        BY <2>1
    <2> QED BY <2>2
<1>4. ASSUME NEW n \in Nat, n \in N PROVE n + 1 \in N
    <2>1. PICK g : On(g, n)
        BY <1>4
    <2> DEFINE h == [K \in UpTo(n + 1) |-> Step(list, g, K)]
    <2>2. \A K \in UpTo(n + 1) : K # {} => K \ {Max(K)} \in UpTo(n)
        BY <1>1, <1>2, OneLess
    <2>3. \A K \in UpTo(n) : K \in UpTo(n + 1) /\ h[K] = g[K]
        <3>1. \A K \in UpTo(n) : K \in UpTo(n + 1)
            BY <1>1, OneLess
        <3>2. \A K \in UpTo(n) : g[K] = Step(list, g, K)
            BY <2>1
        <3> QED BY Zenon, <3>1, <3>2
    <2>4. \A K \in UpTo(n + 1) : Step(list, h, K) = Step(list, g, K)
        BY Zenon, <2>2, <2>3 DEF Step
    <2>5. On(h, n + 1)
        BY Zenon, <2>4
    <2> HIDE DEF On, UpTo, h
    <2> QED BY <2>5
<1>5. Cardinality(C) \in N
    <2>1. Nat \subseteq N
        <3> HIDE DEF N
        <3> QED BY <1>3, <1>4, NumbersFollow
    <2> HIDE DEF N
    <2> QED BY <1>1, <2>1, FS_CardinalityType
<1>6. UpTo(Cardinality(C)) = SUBSET C
    BY <1>1, FS_Subset
<1>7. PICK h : On(h, Cardinality(C))
    BY <1>5
<1>8. h = [K \in SUBSET C |-> Step(list, h, K)]
    BY Zenon, <1>6, <1>7
<1> QED BY Zenon, <1>8 DEF Steps, C

LEMMA MetIsWalked ==
    ASSUME NEW list \in Seq(Object)
    PROVE  Met(list) = Steps(list)[DOMAIN list].met
<1> DEFINE idx == [i \in DOMAIN list |-> i]
           Next1(h) == [K \in SUBSET DOMAIN list |->
                           IF K = {} THEN Start(list) ELSE Meet(h[K \ {Max(K)}], idx[Max(K)])]
<1>1. DOMAIN idx = DOMAIN list
    OBVIOUS
<1>2. \A h : Next1(h) = [K \in SUBSET DOMAIN list |-> Step(list, h, K)]
    <2>1. \A K \in SUBSET DOMAIN list : K # {} => idx[Max(K)] = Max(K)
        BY MaxOf
    <2> HIDE DEF idx
    <2> QED BY Zenon, <2>1 DEF Step
<1>3. FoldLeft(Meet, Start(list), idx) = (CHOOSE h : h = Next1(h))[DOMAIN list]
    <2> HIDE DEF idx
    <2> QED BY Zenon, <1>1 DEF FoldLeft, MapThenFoldSet
<1>4. (CHOOSE h : h = Next1(h)) = Steps(list)
    <2> HIDE DEF Next1
    <2>1. \A h : h = Next1(h) <=> h = [K \in SUBSET DOMAIN list |-> Step(list, h, K)]
        BY Zenon, <1>2
    <2> QED BY Zenon, <2>1 DEF Steps
<1> QED BY Zenon, <1>3, <1>4 DEF Met, Start

IsWalk(w) == w = [met |-> w.met, list |-> w.list, memory |-> w.memory]

LEMMA MeetMore ==
    ASSUME NEW w, IsWalk(w), NEW i
    PROVE  LET v == Meet(w, i) IN
           /\ IsWalk(v) /\ w.met \subseteq v.met
           /\ w.memory[i] \notin Temporary =>
                 v.memory = w.memory /\ (w.memory[i] \in Child => w.memory[i] \in v.met)
<1> DEFINE o == w.memory[i]
           rest == Erased(w.list, {o})
           more == rest \o SubSeq(w.memory, Len(rest) + 1, Len(w.memory))
           v == Meet(w, i)
<1>1. CASE o \notin Child
    BY <1>1 DEF Meet
<1>2. CASE o \in Child /\ o \notin Temporary
    <2>1. v = [w EXCEPT !.met = @ \cup {o}]
        BY <1>2 DEF Meet
    <2> HIDE DEF v, o
    <2>2. v = [met |-> w.met \cup {o}, list |-> w.list, memory |-> w.memory]
        BY <2>1 DEF IsWalk
    <2>3. v.met = w.met \cup {o} /\ v.memory = w.memory /\ IsWalk(v)
        BY <2>2 DEF IsWalk
    <2> QED BY <2>3 DEF v, o
<1>3. CASE o \in Child /\ o \in Temporary
    <2>1. v = [met |-> w.met \cup {o}, list |-> rest, memory |-> more]
        BY <1>3 DEF Meet
    <2> HIDE DEF v, rest, more
    <2>2. v.met = w.met \cup {o} /\ IsWalk(v)
        BY <2>1 DEF IsWalk
    <2> QED BY <1>3, <2>2 DEF v
<1> QED BY <1>1, <1>2, <1>3

\* Children of the file are met, whatever of the others is.
LEMMA ChildrenMet ==
    ASSUME NEW list \in Seq(Object), Begins(list)
    PROVE  \A o \in Child \cap Npc : o \in Met(list)
<1> DEFINE m == Len(list)
           n == Len(Order)
           W(k) == Steps(list)[1..k]
<1>1. m \in Nat /\ n \in Nat /\ n <= m /\ DOMAIN list = 1..m
    BY OrderList DEF Begins
<1>2. \A i \in 1..n : list[i] \notin Temporary
    <2>1. \A i \in 1..n : Order[i] \in Npc
        BY OrderIsOfNpcs
    <2> QED BY <2>1, KindsAreApart DEF Begins
<1> HIDE DEF m, n
<1>3. \A K \in SUBSET (1..m) : Steps(list)[K] = Step(list, Steps(list), K)
    BY Zenon, <1>1, StepsExist
<1>4. W(0) = Start(list)
    <2>1. 1..0 = {} /\ {} \in SUBSET (1..m)
        OBVIOUS
    <2> QED BY Zenon, <1>3, <2>1 DEF Step
<1>5. ASSUME NEW k \in Nat, k + 1 <= m PROVE W(k + 1) = Meet(W(k), k + 1)
    <2> DEFINE K == 1..(k + 1)
    <2>1. K \in SUBSET (1..m) /\ K # {} /\ k + 1 \in K
        <3>1. \A i \in 1..(k + 1) : i \in 1..m
            BY <1>1, <1>5
        <3>2. k + 1 \in 1..(k + 1)
            OBVIOUS
        <3> QED BY <3>1, <3>2
    <2>2. Max(K) \in K /\ k + 1 <= Max(K)
        BY <1>1, <2>1, MaxOf
    <2>3. Max(K) = k + 1
        BY <2>2
    <2>4. K \ {k + 1} = 1..k
        OBVIOUS
    <2> HIDE DEF K
    <2>5. Steps(list)[K] = Meet(Steps(list)[K \ {Max(K)}], Max(K))
        BY Zenon, <1>3, <2>1 DEF Step
    <2> QED BY Zenon, <2>3, <2>4, <2>5 DEF K
<1> HIDE DEF W
<1>6. \A k \in Nat : k <= n =>
          /\ IsWalk(W(k)) /\ W(k).memory = list
          /\ \A i \in 1..k : list[i] \in Child => list[i] \in W(k).met
    <2> DEFINE Met1(k) == /\ IsWalk(W(k)) /\ W(k).memory = list
                          /\ \A i \in 1..k : list[i] \in Child => list[i] \in W(k).met
               T == {k \in Nat : k <= n => Met1(k)}
    <2>1. 0 \in T
        BY <1>4 DEF Start, IsWalk
    <2>2. ASSUME NEW k \in Nat, k \in T PROVE k + 1 \in T
        <3> SUFFICES ASSUME k + 1 <= n PROVE Met1(k + 1)
            OBVIOUS
        <3>1. Met1(k) /\ k + 1 \in 1..n /\ W(k + 1) = Meet(W(k), k + 1)
            BY <1>1, <1>5, <2>2
        <3> DEFINE w == W(k)
                   v == Meet(w, k + 1)
        <3>2. w.memory[k + 1] = list[k + 1] /\ list[k + 1] \notin Temporary
            BY <1>2, <3>1
        <3>3. /\ IsWalk(v) /\ w.met \subseteq v.met /\ v.memory = w.memory
              /\ list[k + 1] \in Child => list[k + 1] \in v.met
            BY <3>1, <3>2, MeetMore
        <3>4. \A i \in 1..(k + 1) : i \in 1..k \/ i = k + 1
            OBVIOUS
        <3> HIDE DEF v, w
        <3> QED BY <3>1, <3>3, <3>4 DEF v, w
    <2> HIDE DEF T
    <2>3. Nat \subseteq T
        BY <2>1, <2>2, NumbersFollow
    <2> QED BY <2>3 DEF T
<1>7. \A k \in Nat : n <= k /\ k <= m => IsWalk(W(k)) /\ W(n).met \subseteq W(k).met
    <2> DEFINE More(k) == IsWalk(W(k)) /\ W(n).met \subseteq W(k).met
               T == {k \in Nat : n <= k /\ k <= m => More(k)}
    <2>1. 0 \in T
        BY <1>1, <1>6
    <2>2. ASSUME NEW k \in Nat, k \in T PROVE k + 1 \in T
        <3> SUFFICES ASSUME n <= k + 1, k + 1 <= m PROVE More(k + 1)
            OBVIOUS
        <3>1. CASE n = k + 1
            BY <1>1, <1>6, <3>1
        <3>2. CASE n # k + 1
            <4>1. More(k) /\ W(k + 1) = Meet(W(k), k + 1)
                BY <1>1, <1>5, <2>2, <3>2
            <4> QED BY <4>1, MeetMore
        <3> QED BY <3>1, <3>2
    <2> HIDE DEF T
    <2>3. Nat \subseteq T
        BY <2>1, <2>2, NumbersFollow
    <2> QED BY <2>3 DEF T
<1>8. Met(list) = W(m).met
    BY Zenon, <1>1, MetIsWalked DEF W
<1> SUFFICES ASSUME NEW o \in Child \cap Npc PROVE o \in Met(list)
    OBVIOUS
<1>9. PICK i \in 1..n : list[i] = o
    BY BeginsWithNpcs DEF n
<1>10. o \in W(n).met
    BY <1>1, <1>6, <1>9
<1> QED BY <1>1, <1>7, <1>8, <1>10

(***************************************************************************)
(* Bosses and their children.                                              *)
(***************************************************************************)

Lives(n) == n # Free /\ n.alive = TRUE

\* The vector of the map begins with the NPCs of its file, and children have a boss as parent.
Bred(S) ==
    /\ Begins(S.npcs[Home])
    /\ \A o \in Child \cap Npc : S.object[o] # Free => S.object[o].parent \in Boss \union {None}

\* While a child of the file lives so does a boss.
Reared(S) ==
    /\ Bred(S)
    /\ \A o \in Child \cap Npc : Lives(S.object[o]) /\ Boss # {} =>
           \E b \in Boss : Lives(S.object[b])

\* No child comes to life, and no boss dies.
Raises(n, k, o) ==
    /\ o \in Child /\ k # Free =>
          /\ n # Free /\ k.parent \in Boss \union {None, n.parent}
          /\ k.alive = TRUE => n.alive = TRUE
    /\ o \in Boss /\ Lives(n) => Lives(k)
Rears(S, T) ==
    /\ Begins(S.npcs[Home]) => Begins(T.npcs[Home])
    /\ \A o \in Npc : Raises(S.object[o], T.object[o], o)

LEMMA RaisesSame == \A n, o : Raises(n, n, o)
    BY DEF Raises

LEMMA RaisesTwice ==
    ASSUME NEW n, NEW k, NEW l, NEW o, Raises(n, k, o), Raises(k, l, o)
    PROVE  Raises(n, l, o)
    BY DEF Raises

LEMMA RearsTwice ==
    ASSUME NEW S, NEW T, NEW U, Rears(S, T), Rears(T, U)
    PROVE  Rears(S, U)
    BY RaisesTwice DEF Rears

LEMMA RearsSame ==
    ASSUME NEW S, NEW T, T.object = S.object, T.npcs = S.npcs
    PROVE  Rears(S, T)
    BY RaisesSame DEF Rears

LEMMA RearsReared ==
    ASSUME NEW S, NEW T, Reared(S), Rears(S, T)
    PROVE  Reared(T)
<1>1. \A o \in Child \cap Npc : T.object[o] # Free => T.object[o].parent \in Boss \union {None}
    BY DEF Reared, Bred, Rears, Raises
<1>2. \A o \in Child \cap Npc : Lives(T.object[o]) => Lives(S.object[o])
    BY DEF Rears, Raises, Lives
<1>3. \A b \in Boss : Lives(S.object[b]) => Lives(T.object[b])
    BY KindsAreApart DEF Rears, Raises
<1> QED BY <1>1, <1>2, <1>3 DEF Reared, Bred, Rears

\* What happens to an NPC but death and birth.
Kin(n, k) == k \in NpcState /\ k.alive = n.alive /\ k.parent = n.parent

LEMMA KinRaises ==
    ASSUME NEW n \in NpcState, NEW k, Kin(n, k)
    PROVE  \A o : Raises(n, k, o)
    BY NotFree DEF Raises, Kin, Lives

LEMMA KinTwice ==
    ASSUME NEW n, NEW k, NEW l, Kin(n, k), Kin(k, l)
    PROVE  Kin(n, l)
    BY DEF Kin

LEMMA KinStates ==
    ASSUME NEW n \in NpcState
    PROVE  /\ Kin(n, n) /\ Kin(n, Forgotten(n))
           /\ \A m \in Marriages \union {None} : Kin(n, [n EXCEPT !.marriage = m])
           /\ \A c \in Char \union {None} : Kin(n, [n EXCEPT !.killowner = c])
           /\ \A hp \in Int : Kin(n, [n EXCEPT !.hp = hp])
<1>1. Kin(n, n)
    BY DEF Kin
<1>2. Kin(n, Forgotten(n))
    <2>1. Forgotten(n) \in NpcState
        BY ForgottenState
    <2>2. Forgotten(n).alive = n.alive /\ Forgotten(n).parent = n.parent
        BY DEF NpcState, Forgotten
    <2> QED BY <2>1, <2>2 DEF Kin
<1>3. ASSUME NEW m \in Marriages \union {None} PROVE Kin(n, [n EXCEPT !.marriage = m])
    BY DEF Kin, NpcState
<1>4. ASSUME NEW c \in Char \union {None} PROVE Kin(n, [n EXCEPT !.killowner = c])
    BY DEF Kin, NpcState
<1>5. ASSUME NEW hp \in Int PROVE Kin(n, [n EXCEPT !.hp = hp])
    BY DEF Kin, NpcState
<1> QED BY <1>1, <1>2, <1>3, <1>4, <1>5

\* Who leaves takes along nothing of a family.
LEMMA KinRid ==
    ASSUME NEW n \in NpcState, NEW c \in Char, NEW found \in BOOLEAN
    PROVE  Kin(n, Parted(Unowned(Unlisted(n, c), c, found), c))
<1> DEFINE l == Unlisted(n, c)
           f == Unowned(l, c, found)
           k == Parted(f, c)
<1>1. Kin(n, l)
    <2>1. CASE n.damage[c] = None
        BY <2>1, KinStates DEF Unlisted
    <2>2. CASE n.damage[c] # None
        <3>1. l = [n EXCEPT !.total = @ - n.damage[c], !.damage[c] = None]
            BY <2>2 DEF Unlisted
        <3>2. l \in NpcState /\ l.alive = n.alive
            BY <2>2, <3>1, LeftState
        <3>3. l.parent = n.parent
            BY <3>1 DEF NpcState
        <3> QED BY <3>2, <3>3 DEF Kin
    <2> QED BY <2>1, <2>2
<1> HIDE DEF l
<1>2. Kin(l, f)
    <2> DEFINE owner == IF l.killowner = c THEN None ELSE l.killowner
    <2>1. l \in NpcState /\ owner \in Char \union {None}
        BY <1>1 DEF NpcState, Kin
    <2>2. f = l \/ f = [l EXCEPT !.killowner = owner]
        BY DEF Unowned
    <2> HIDE DEF owner, f
    <2> QED BY <2>1, <2>2, KinStates
<1> HIDE DEF f
<1>3. Kin(f, k)
    <2>1. f \in NpcState /\ k \in NpcState /\ k.alive = f.alive
        BY <1>2, PartedState DEF Kin
    <2>2. k.parent = f.parent
        BY <2>1 DEF Parted, NpcState
    <2> QED BY <2>1, <2>2 DEF Kin
<1> HIDE DEF k
<1>4. Kin(n, k)
    BY <1>1, <1>2, <1>3, KinTwice
<1> QED BY <1>4 DEF k, f, l

\* NPC::Damage.
LEMMA KinStruck ==
    ASSUME NEW n \in NpcState, NEW o, NEW c \in Char, NEW amount \in Int
    PROVE  Kin(n, Struck(n, o, c, amount))
<1> DEFINE m == HitBy(n, o, c, amount)
           k == Struck(n, o, c, amount)
<1>1. k \in NpcState /\ k.alive = n.alive
    BY StruckState DEF Hurt
<1>2. m.parent = n.parent /\ (k = m \/ k = [m EXCEPT !.killowner = c])
    <2>1. k = m \/ k = [m EXCEPT !.killowner = c]
        BY DEF Struck
    <2> DEFINE t == n.total + Least(n.hp, amount)
               hp == n.hp - Least(n.hp, amount)
               given == IF n.damage[c] = None THEN Least(n.hp, amount)
                        ELSE n.damage[c] + Least(n.hp, amount)
               damage == [n.damage EXCEPT ![c] = given]
    <2>2. \/ m = [n EXCEPT !.total = t]
          \/ m = [n EXCEPT !.total = t, !.hp = hp, !.damage = damage]
        BY DEF HitBy, NpcState
    <2> HIDE DEF t, hp, damage, m
    <2>3. m.parent = n.parent
        BY <2>2 DEF NpcState
    <2> QED BY <2>1, <2>3
<1>3. k.parent = m.parent
    <2>1. CASE k = [m EXCEPT !.killowner = c]
        <3> HIDE DEF m
        <3>1. "parent" # "killowner"
            OBVIOUS
        <3> QED BY <2>1, <3>1
    <2> QED BY <1>2, <2>1
<1> HIDE DEF k, m
<1>4. Kin(n, k)
    BY <1>1, <1>2, <1>3 DEF Kin
<1> QED BY <1>4 DEF k

(***************************************************************************)
(* Methods of NPCs.                                                        *)
(***************************************************************************)

\* An object that is no NPC of the file concerns no family.
LEMMA NoNpc == \A o \in Temporary \union Pet : o \notin Npc /\ o \notin Boss
    BY KindsAreApart

LEMMA RearForget ==
    ASSUME NEW S, Shape(S), NEW D, \A o \in Object : o \in D => S.object[o] # Free
    PROVE  Rears(S, Forget(S, D))
<1>1. /\ Forget(S, D).npcs = S.npcs
      /\ \A o \in Object : Forget(S, D).object[o] =
             IF o \in D THEN Forgotten(S.object[o]) ELSE S.object[o]
    BY ForgetFields
<1>2. \A o \in Object : o \in D => S.object[o] \in NpcState
    BY DEF Shape
<1>3. \A o \in Object : Raises(S.object[o], Forget(S, D).object[o], o)
    BY <1>1, <1>2, KinStates, KinRaises, RaisesSame
<1> QED BY <1>1, <1>3 DEF Rears, Object

\* Those that are deleted are not of the file.
LEMMA RearDelete ==
    ASSUME NEW S, Shape(S), NEW D, D \cap Npc = {}
    PROVE  Rears(S, Delete(S, D))
<1>1. \A o \in Object : Delete(S, D).object[o] = IF o \in D THEN Free ELSE S.object[o]
    BY DeleteFields
<1>2. Delete(S, D).npcs[Home] = Erased(S.npcs[Home], D) /\ S.npcs[Home] \in Seq(Object)
    BY MapsApart DEF Delete, Shape
<1>3. Begins(S.npcs[Home]) => Begins(Delete(S, D).npcs[Home])
    BY <1>2, BeginsErased
<1>4. \A o \in Npc : Delete(S, D).object[o] = S.object[o]
    BY <1>1 DEF Object
<1> QED BY <1>3, <1>4, RaisesSame DEF Rears

\* NPC::Die, but of bosses.
LEMMA RearDie ==
    ASSUME NEW S, Shape(S), NEW D, D \cap Boss = {},
           \A o \in Object : o \in D => S.object[o] # Free
    PROVE  /\ Rears(S, Die(S, D))
           /\ \A o \in D \cap Npc : ~Lives(Die(S, D).object[o])
<1> DEFINE A == Forget(S, D)
           f == [o \in Object |-> IF o \in D
                                  THEN [A.object[o] EXCEPT !.alive = FALSE, !.parent = None]
                                  ELSE A.object[o]]
           B == [A EXCEPT !.object = f]
           T == Delete(B, D \intersect Temporary)
<1>1. Die(S, D) = T
    BY DEF Die
<1>2. /\ Shape(A) /\ Rears(S, A)
      /\ \A o \in Object : o \in D => A.object[o] = Forgotten(S.object[o])
    BY ForgetFields, RearForget
<1>3. \A o \in Object : o \in D => A.object[o] \in NpcState
    <2>1. \A o \in Object : o \in D => S.object[o] \in NpcState
        BY DEF Shape
    <2> HIDE DEF A
    <2> QED BY <1>2, <2>1, ForgottenState
<1> HIDE DEF A
<1>4. ASSUME NEW o \in Object
      PROVE  /\ f[o] \in NpcState \union {Free} /\ Raises(A.object[o], f[o], o)
             /\ o \in D => ~Lives(f[o])
    <2>1. CASE o \in D
        <3> DEFINE k == [A.object[o] EXCEPT !.alive = FALSE, !.parent = None]
        <3>1. A.object[o] \in NpcState /\ f[o] = k /\ o \notin Boss
            BY <1>3, <2>1
        <3>2. k \in NpcState /\ k.alive = FALSE /\ k.parent = None
            BY <3>1, DeadState DEF NpcState
        <3> HIDE DEF k, f
        <3> QED BY <3>1, <3>2, NotFree DEF Raises, Lives
    <2>2. CASE o \notin D
        BY <1>2, <2>2, RaisesSame DEF Shape
    <2> QED BY <2>1, <2>2
<1>5. f \in [Object -> NpcState \union {Free}]
    BY <1>4
<1> HIDE DEF f
<1>6. Shape(B) /\ B.object = f /\ B.npcs = A.npcs
    BY <1>2, <1>5, ObjectFields DEF Others
<1> HIDE DEF B
<1>7. Rears(A, B)
    BY <1>4, <1>6 DEF Rears, Object
<1>8. (D \intersect Temporary) \cap Npc = {}
    BY NoNpc
<1>9. Rears(B, T) /\ \A o \in D \cap Npc : T.object[o] = f[o]
    BY <1>6, <1>8, RearDelete, DeleteFields DEF Object
<1> HIDE DEF T
<1>10. \A o \in D \cap Npc : ~Lives(T.object[o])
    BY <1>4, <1>9 DEF Object
<1> QED BY <1>1, <1>2, <1>7, <1>9, <1>10, RearsTwice

\* NPC::Killed.  A boss meets all children of the file, and has those that live die.
LEMMA RearedKilled ==
    ASSUME NEW S, Shape(S), Reared(S), NEW o \in Object, S.object[o] # Free
    PROVE  Reared(Killed(S, o))
<1> DEFINE A == Forget(S, {o})
           f == [A.object EXCEPT ![o] = [@ EXCEPT !.alive = FALSE]]
           B == [A EXCEPT !.object = f]
           met == {x \in Child : x \in Met(S.npcs[Home]) /\ Alive(S, x)}
           C == IF o \notin Boss THEN B ELSE Die(B, met)
           T == Delete(C, {o} \intersect (Temporary \union Pet))
<1>1. Killed(S, o) = T
    <2>1. [A EXCEPT !.object[o].alive = FALSE] = B
        BY DEF Forget
    <2> HIDE DEF B
    <2> QED BY <2>1 DEF Killed
<1>2. /\ Shape(A) /\ Rears(S, A) /\ A.object[o] = Forgotten(S.object[o])
      /\ \A x \in Object \ {o} : A.object[x] = S.object[x]
    BY ForgetFields, RearForget
<1>3. A.object[o] \in NpcState /\ S.npcs[Home] \in Seq(Object) /\ Begins(S.npcs[Home])
    <2>1. S.object[o] \in NpcState /\ S.npcs[Home] \in Seq(Object)
        BY MapsApart DEF Shape
    <2> HIDE DEF A
    <2> QED BY <1>2, <2>1, ForgottenState DEF Reared, Bred
<1> HIDE DEF A
<1>4. Reared(A)
    BY <1>2, RearsReared
<1>5. /\ f \in [Object -> NpcState \union {Free}] /\ f[o] # Free /\ f[o].alive = FALSE
      /\ f[o].parent = A.object[o].parent
      /\ \A x \in Object \ {o} : f[x] = A.object[x]
    <2> DEFINE n == A.object[o]
               k == [n EXCEPT !.alive = FALSE]
    <2>1. f = [A.object EXCEPT ![o] = k] /\ A.object \in [Object -> NpcState \union {Free}]
        BY <1>2 DEF Shape
    <2>2. k \in NpcState /\ k # Free /\ k.alive = FALSE /\ k.parent = n.parent
        BY <1>3, DeadState, NotFree DEF NpcState
    <2> HIDE DEF f, k
    <2> QED BY <2>1, <2>2
<1> HIDE DEF f
<1>6. Shape(B) /\ B.object = f /\ B.npcs = A.npcs
    BY <1>2, <1>5, ObjectFields DEF Others
<1> HIDE DEF B
<1>7. Shape(C) /\ Reared(C)
    <2>1. CASE o \notin Boss
        <3>1. A.object[o] # Free
            BY <1>3, NotFree
        <3>2. \A x \in Npc : Raises(A.object[x], B.object[x], x)
            <4>1. Raises(A.object[o], B.object[o], o)
                BY <1>5, <1>6, <2>1, <3>1 DEF Raises
            <4> QED BY <1>5, <1>6, <4>1, RaisesSame DEF Object
        <3>3. Rears(A, B)
            BY <1>6, <3>2 DEF Rears
        <3> QED BY <1>4, <1>6, <2>1, <3>3, RearsReared
    <2>2. CASE o \in Boss
        <3>1. Bred(B)
            <4>1. o \notin Child
                BY <2>2, KindsAreApart
            <4>2. \A x \in Child \cap Npc : B.object[x] = A.object[x]
                BY <1>5, <1>6, <4>1 DEF Object
            <4> QED BY <1>4, <1>6, <4>2 DEF Reared, Bred
        <3>2. \A x \in Object \ {o} : B.object[x] = S.object[x]
            BY <1>2, <1>5, <1>6
        <3>3. \A x \in Child : x \in Object /\ x # o
            BY <2>2, KindsAreApart DEF Object
        <3>4. met \cap Boss = {} /\ \A x \in Object : x \in met => B.object[x] # Free
            BY <3>2, <3>3, KindsAreApart DEF Alive
        <3>5. \A x \in Child \cap Npc : Lives(B.object[x]) => x \in met
            BY <1>3, <3>2, <3>3, ChildrenMet DEF Lives, Alive
        <3> HIDE DEF met
        <3>6. Shape(C) /\ C = Die(B, met)
            BY <1>6, <2>2, <3>4, TidyDie
        <3>7. Rears(B, C) /\ \A x \in met \cap Npc : ~Lives(C.object[x])
            BY <1>6, <3>4, <3>6, RearDie
        <3> HIDE DEF C
        <3>8. \A x \in Child \cap Npc : ~Lives(C.object[x])
            BY <3>5, <3>7 DEF Rears, Raises, Lives
        <3>9. Bred(C)
            BY <3>1, <3>7 DEF Bred, Rears, Raises
        <3> QED BY <3>6, <3>8, <3>9 DEF Reared
    <2> QED BY <2>1, <2>2
<1> HIDE DEF C
<1>8. ({o} \intersect (Temporary \union Pet)) \cap Npc = {}
    BY NoNpc
<1> QED BY <1>1, <1>7, <1>8, RearDelete, RearsReared

\* NPC::Damage.
LEMMA RearedDamage ==
    ASSUME NEW S, Sane(S, {}, {}), Reared(S), NEW o \in Object, NEW m \in Map, o \in OnMap(S, m),
           NEW c \in Char, NEW amount \in Nat
    PROVE  Reared(Damage(S, o, c, amount))
<1> DEFINE n == Struck(S.object[o], o, c, amount)
           hit == Hits(S, o, c, n)
           lost == IF o \in Pet THEN [hit EXCEPT !.pet[n.owner] = None] ELSE hit
<1>1. Shape(S) /\ S.object[o] # Free /\ S.object[o] \in NpcState /\ amount \in Int
    BY DEF Sane, Placed, Shape
<1>2. Damage(S, o, c, amount) = IF n.hp > 0 THEN hit ELSE Killed(lost, o)
    BY DEF Damage, Hits
<1>3. Kin(S.object[o], n) /\ n \in NpcState /\ n # Free
    BY <1>1, KinStruck, NotFree DEF Kin
<1> HIDE DEF n
<1>4. IsHit(S, hit, o, c, n)
    BY <1>1, <1>3, HitFields
<1> HIDE DEF hit
<1>5. Shape(hit) /\ hit.object[o] # Free /\ Reared(hit)
    <2>1. Raises(S.object[o], hit.object[o], o)
        BY <1>1, <1>3, <1>4, KinRaises DEF IsHit
    <2>2. \A x \in Npc : Raises(S.object[x], hit.object[x], x)
        BY <1>4, <2>1, RaisesSame DEF IsHit, Object
    <2>3. Rears(S, hit)
        BY <1>4, <2>2 DEF Rears, IsHit
    <2> QED BY <1>3, <1>4, <2>3, RearsReared DEF IsHit
<1>6. lost.object = hit.object /\ lost.npcs = hit.npcs /\ Shape(lost)
    <2>1. CASE o \in Pet
        <3> DEFINE p == [hit.pet EXCEPT ![n.owner] = None]
        <3>1. p \in [Char -> Pet \union {None}]
            BY <1>5 DEF Shape
        <3>2. lost = [hit EXCEPT !.pet = p]
            BY <1>5, <2>1 DEF Shape
        <3> HIDE DEF p, lost
        <3>3. lost = [where |-> hit.where, unregister |-> hit.unregister, pet |-> p,
                      npc |-> hit.npc, arena |-> hit.arena, npcs |-> hit.npcs,
                      object |-> hit.object]
            BY <1>5, <3>2 DEF Shape
        <3>4. /\ lost.where = hit.where /\ lost.unregister = hit.unregister /\ lost.pet = p
              /\ lost.npc = hit.npc /\ lost.arena = hit.arena /\ lost.npcs = hit.npcs
              /\ lost.object = hit.object
            BY <3>3
        <3> QED BY <1>5, <3>1, <3>3, <3>4 DEF Shape
    <2>2. CASE o \notin Pet
        BY <1>5, <2>2
    <2> QED BY <2>1, <2>2
<1> HIDE DEF lost
<1>7. Reared(Killed(lost, o))
    BY <1>5, <1>6, RearedKilled, RearsSame, RearsReared
<1> QED BY <1>2, <1>5, <1>7

\* NPC::Spawn, of a boss, or where a child has one.
LEMMA RearedSpawn ==
    ASSUME NEW S, Sane(S, {}, {}), Reared(S), NEW o \in Object, S.object[o] # Free,
           o \in Child \cap Npc => \E b \in Boss : Lives(S.object[b])
    PROVE  Reared(Spawn(S, o))
<1> DEFINE brought == IF o \notin Boss THEN {}
                      ELSE {x \in OnMap(S, Home) \intersect Child : ~Alive(S, x)}
           T == Spawn(S, o)
<1>1. Shape(S) /\ \A x \in Object : S.object[x] # Free => S.object[x] \in NpcState
    BY DEF Sane, Shape
<1>2. T.npcs = S.npcs /\ \A x \in Object :
          T.object[x] = IF x = o THEN Spawned(S.object[x], None)
                        ELSE IF x \in brought THEN Spawned(S.object[x], o) ELSE S.object[x]
    BY <1>1 DEF Spawn, Shape
<1>3. \A x \in brought : S.object[x] # Free /\ o \in Boss
    BY MapsApart DEF Sane, Placed
<1>4. o \notin Boss => brought = {}
    OBVIOUS
<1> HIDE DEF brought, T
<1>5. ASSUME NEW n \in NpcState, NEW p \in Object \union {None}
      PROVE  /\ Lives(Spawned(n, p))
             /\ Spawned(n, p).parent = IF p = None THEN n.parent ELSE p
    <2>1. Spawned(n, p) # Free /\ Spawned(n, p).alive = TRUE
        BY SpawnedState, NotFree
    <2>2. Spawned(n, p).parent = IF p = None THEN n.parent ELSE p
        BY DEF Spawned, NpcState
    <2> QED BY <2>1, <2>2 DEF Lives
<1>6. Bred(T)
    <2> SUFFICES ASSUME NEW x \in Child \cap Npc, T.object[x] # Free
                 PROVE  T.object[x].parent \in Boss \union {None}
        BY <1>2 DEF Reared, Bred
    <2>1. x \in Object /\ (S.object[x] # Free => S.object[x].parent \in Boss \union {None})
        BY DEF Reared, Bred, Object
    <2>2. CASE x = o
        <3>1. T.object[x].parent = S.object[x].parent
            BY <1>1, <1>2, <1>5, <2>2
        <3> QED BY <2>1, <2>2, <3>1
    <2>3. CASE x # o /\ x \in brought
        <3>1. T.object[x].parent = o
            BY <1>1, <1>2, <1>3, <1>5, <2>1, <2>3, MapsApart
        <3> QED BY <1>3, <2>3, <3>1
    <2>4. CASE x # o /\ x \notin brought
        BY <1>2, <2>1, <2>4
    <2> QED BY <2>2, <2>3, <2>4
<1>7. \A b \in Boss : b \in Object /\ b \notin Child
    BY KindsAreApart DEF Object
<1>8. \A b \in Boss : Lives(S.object[b]) => Lives(T.object[b])
    <2> SUFFICES ASSUME NEW b \in Boss, Lives(S.object[b]) PROVE Lives(T.object[b])
        OBVIOUS
    <2>1. S.object[b] \in NpcState
        BY <1>1, <1>7 DEF Lives
    <2>2. T.object[b] = S.object[b] \/ T.object[b] = Spawned(S.object[b], None)
          \/ T.object[b] = Spawned(S.object[b], o)
        BY <1>2, <1>7
    <2> QED BY <1>5, <2>1, <2>2
<1>9. ASSUME NEW x \in Child \cap Npc, Lives(T.object[x]), Boss # {}
      PROVE  \E b \in Boss : Lives(T.object[b])
    <2>1. CASE o \in Boss
        <3>1. Lives(T.object[o])
            BY <1>1, <1>2, <1>5
        <3> QED BY <2>1, <3>1
    <2>2. CASE o \notin Boss
        <3>1. \E b \in Boss : Lives(S.object[b])
            <4>1. CASE x = o
                BY <4>1
            <4>2. CASE x # o
                <5>1. T.object[x] = S.object[x]
                    BY <1>2, <1>4, <2>2, <4>2 DEF Object
                <5> QED BY <1>9, <5>1 DEF Reared
            <4> QED BY <4>1, <4>2
        <3> QED BY <1>8, <3>1
    <2> QED BY <2>1, <2>2
<1>10. Reared(T)
    BY <1>6, <1>9 DEF Reared
<1> QED BY <1>10 DEF T

\* NPCs that quests and commands spawn come last.
LEMMA RearTemporary ==
    ASSUME NEW S, Shape(S), NEW o \in Temporary
    PROVE  Rears(S, Spawn([S EXCEPT !.object[o] = Fresh(None),
                                    !.npcs[Home] = Append(@, o)], o))
<1> DEFINE A == [S EXCEPT !.object[o] = Fresh(None), !.npcs[Home] = Append(@, o)]
           f == [S.object EXCEPT ![o] = Fresh(None)]
           T == Spawn(A, o)
<1>1. o \in Object /\ o \notin Boss /\ o \notin Npc
    BY KindsAreApart DEF Object
<1>2. /\ A.object = f /\ A = [A EXCEPT !.object = f]
      /\ A.npcs[Home] = Append(S.npcs[Home], o) /\ S.npcs[Home] \in Seq(Object)
    BY MapsApart DEF Shape
<1>3. f[o] = Fresh(None) /\ \A x \in Object \ {o} : f[x] = S.object[x]
    BY <1>1 DEF Shape
<1>4. /\ \A x \in Object : T.object[x] = IF x = o THEN Spawned(A.object[x], None)
                                         ELSE A.object[x]
      /\ T.npcs = A.npcs
    BY <1>1 DEF Spawn, Shape
<1> HIDE DEF A, f, T
<1>5. \A x \in Npc : T.object[x] = S.object[x]
    BY <1>1, <1>2, <1>3, <1>4 DEF Object
<1>6. Begins(S.npcs[Home]) => Begins(T.npcs[Home])
    BY <1>1, <1>2, <1>4, BeginsLonger
<1> QED BY <1>5, <1>6, RaisesSame DEF T, A, Rears

(***************************************************************************)
(* Pets come and go, and maps are read again.                              *)
(***************************************************************************)

LEMMA RearDismiss ==
    ASSUME NEW S, Shape(S), NEW C, C \subseteq Char
    PROVE  Rears(S, Dismiss(S, C))
<1> DEFINE gone == {S.pet[c] : c \in C}
<1>1. gone \cap Npc = {}
    BY KindsAreApart, MapsApart DEF Shape, Object
<1> HIDE DEF gone
<1>2. Dismiss(S, C).npcs[Home] = Erased(S.npcs[Home], gone) /\ S.npcs[Home] \in Seq(Object)
    BY MapsApart DEF Dismiss, Shape, gone
<1>3. Begins(S.npcs[Home]) => Begins(Dismiss(S, C).npcs[Home])
    BY <1>1, <1>2, BeginsErased
<1>4. Dismiss(S, C).object = S.object
    BY DismissFields
<1> QED BY <1>3, <1>4, RaisesSame DEF Rears

LEMMA RearCalled ==
    ASSUME NEW S, Shape(S), NEW K, K \subseteq Char, NEW at \in [K -> Pet], IsInjective(at),
           NEW m \in Map
    PROVE  Rears(S, Called(S, at, m))
<1> DEFINE T == Called(S, at, m)
           new == SetToSeq(Range(at))
<1>1. \A o \in Object \ Range(at) : T.object[o] = S.object[o]
    BY CalledFields DEF IsCalled
<1>2. Range(at) \subseteq Pet
    BY DEF Range
<1>3. new \in Seq(Object)
    <2>1. IsFiniteSet(K)
        BY CharsAreFinite, FS_Subset
    <2>2. at \in Surjection(K, Range(at))
        BY DEF Surjection, Range
    <2>3. IsFiniteSet(Range(at))
        BY <2>1, <2>2, FS_Surjection
    <2>4. new \in Seq(Range(at)) /\ Range(at) \subseteq Object
        BY <1>2, <2>3, ListOfSet DEF Object
    <2> HIDE DEF new
    <2> QED BY <2>4
<1> HIDE DEF new
<1>4. T.npcs = [S.npcs EXCEPT ![m] = @ \o new]
    BY DEF Called, Shape, new
<1>5. T.npcs[Home] = S.npcs[Home] \o new \/ T.npcs[Home] = S.npcs[Home]
    BY <1>4, MapsApart DEF Shape
<1> HIDE DEF T
<1>6. Begins(S.npcs[Home]) => Begins(T.npcs[Home])
    <2>1. S.npcs[Home] \in Seq(Object)
        BY MapsApart DEF Shape
    <2> QED BY <1>3, <1>5, <2>1, BeginsAppended
<1>7. \A o \in Npc : T.object[o] = S.object[o]
    <2>1. \A o \in Npc : o \in Object \ Range(at)
        BY <1>2, NoNpc DEF Object
    <2> QED BY <1>1, <2>1
<1> QED BY <1>6, <1>7, RaisesSame DEF T, Rears

LEMMA RearCall ==
    ASSUME NEW S, Shape(S), NEW c \in Char, S.where[c] # None, NEW o \in Pet
    PROVE  Rears(S, Call(S, c, o))
<1> DEFINE C == {c} \cap {x \in Char : S.pet[x] # None}
           back == Dismiss(S, C)
           at == [x \in {c} |-> o]
           m == S.where[c]
<1>1. Call(S, c, o) = Called(back, at, m)
    BY DEF Call
<1>2. at \in [{c} -> Pet] /\ IsInjective(at) /\ {c} \subseteq Char /\ m \in Map
    BY DEF IsInjective, Shape
<1>3. Shape(back) /\ Rears(S, back)
    <2>1. C \subseteq Char
        OBVIOUS
    <2> HIDE DEF C
    <2> QED BY <2>1, DismissFields, RearDismiss
<1> HIDE DEF back, at, m
<1>4. Rears(back, Called(back, at, m))
    BY <1>2, <1>3, RearCalled
<1> QED BY <1>1, <1>3, <1>4, RearsTwice

\* Character::Warp.
LEMMA RearArrive ==
    ASSUME NEW S, Shape(S), NEW C, C \subseteq Char, NEW m \in Map, NEW T \in Arrive(S, C, m)
    PROVE  Rears(S, T)
<1> DEFINE had == {c \in C : S.pet[c] # None}
           A == Dismiss(S, had)
           B == Moved(A, C, m)
           unused == {x \in Pet : Unused(S, x)}
<1>1. PICK K \in SUBSET had : \E at \in [K -> unused] : IsInjective(at) /\ T = Called(B, at, m)
    BY DEF Arrive, Moved
<1>2. PICK at \in [K -> unused] : IsInjective(at) /\ T = Called(B, at, m)
    BY <1>1
<1>3. K \subseteq Char /\ at \in [K -> Pet] /\ had \subseteq Char
    OBVIOUS
<1> HIDE DEF had
<1>4. Shape(A) /\ Rears(S, A)
    BY <1>3, DismissFields, RearDismiss
<1> HIDE DEF A
<1>5. Shape(B) /\ Rears(A, B)
    BY <1>4, MovedFields, RearsSame
<1> HIDE DEF B
<1>6. Rears(B, T)
    BY <1>2, <1>3, <1>5, RearCalled
<1> QED BY <1>4, <1>5, <1>6, RearsTwice

\* Map::Unload, of a map without NPCs of its own.
LEMMA RearUnload ==
    ASSUME NEW S, Sane(S, {}, {}), NEW m \in Map, m # Home
    PROVE  Rears(S, Unload(S, m))
<1>1. /\ Shape(S) /\ \A o \in Object : o \in OnMap(S, m) => S.object[o] # Free
      /\ OnMap(S, m) \cap Npc = {}
    BY NoNpc, MapsApart DEF Sane, Placed
<1>2. Shape(Forget(S, OnMap(S, m))) /\ Rears(S, Forget(S, OnMap(S, m)))
    BY <1>1, ForgetFields, RearForget
<1> QED BY <1>1, <1>2, RearDelete, RearsTwice DEF Unload

\* Map::Load: all NPCs of the file are there, and alive.
LEMMA RearedLoad ==
    ASSUME NEW S, Shape(S)
    PROVE  Reared(Load(S, Home))
<1> DEFINE T == Load(S, Home)
           n == Spawned(Fresh(None), None)
<1>1. /\ T.npcs[Home] = Order
      /\ \A o \in Npc : T.object[o] = n
    BY MapsApart DEF Load, Shape, Object
<1>2. n.parent = None /\ Lives(n)
    <2>1. n.parent = None
        BY DEF Spawned, Fresh
    <2>2. Fresh(None) \in NpcState
        BY FreshState
    <2>3. n # Free /\ n.alive = TRUE
        BY <2>2, SpawnedState, NotFree
    <2> QED BY <2>1, <2>3 DEF Lives
<1> HIDE DEF T, n
<1>3. Reared(T)
    BY <1>1, <1>2, OrderList, KindsAreApart DEF Reared, Bred
<1> QED BY <1>3 DEF T

\* One NPC becomes another state of it.
LEMMA RearChange ==
    ASSUME NEW S, Shape(S), NEW o \in Object, NEW k, Raises(S.object[o], k, o)
    PROVE  Rears(S, [S EXCEPT !.object[o] = k])
<1> DEFINE T == [S EXCEPT !.object[o] = k]
<1>1. T.npcs = S.npcs /\ \A x \in Object : T.object[x] = IF x = o THEN k ELSE S.object[x]
    BY DEF Shape
<1> HIDE DEF T
<1>2. Rears(S, T)
    BY <1>1, RaisesSame DEF Rears, Object
<1> QED BY <1>2 DEF T

\* NPCs of the file are on their map, where they are found.
LEMMA BecomeReared ==
    ASSUME Shape(Memory'), NEW S, Reared(S), Become(S)
    PROVE  Reared(Memory')
<1>1. Memory'.npcs = S.npcs
    BY DEF Become, Memory
<1>2. Npc \subseteq Reached(S)
    <2>1. S.npcs[Home] \in Seq(Object) /\ Begins(S.npcs[Home])
        BY <1>1, MapsApart DEF Shape, Reared, Bred
    <2>2. Npc \subseteq ToSet(S.npcs[Home])
        BY <2>1, BeginsWithNpcs DEF ToSet
    <2> QED BY <2>2, MapsApart DEF Reached
<1>3. \A o \in Npc : Memory'.object[o] = S.object[o]
    BY <1>2 DEF Become, Memory, Object
<1>4. Rears(S, Memory')
    BY <1>1, <1>3, RaisesSame DEF Rears
<1> QED BY <1>4, RearsReared

LEMMA RearBecome ==
    ASSUME Reared(Memory), Shape(Memory'), NEW S, Rears(Memory, S), Become(S)
    PROVE  Reared(Memory')
    BY RearsReared, BecomeReared

(***************************************************************************)
(* Handlers and timers, of bosses and children.                            *)
(***************************************************************************)

LEMMA LoginReared ==
    ASSUME Kept(Memory), Shape(Memory'), Reared(Memory), NEW c \in Char, Login(c)
    PROVE  Reared(Memory')
<1>1. PICK m \in Map, S \in Allocated(c) :
          Become([S EXCEPT !.where[c] = m, !.unregister[c] = {}])
    BY DEF Login
<1> DEFINE U == [S EXCEPT !.where[c] = m, !.unregister[c] = {}]
<1>2. Rears(Memory, S) /\ U.object = S.object /\ U.npcs = S.npcs
    <2>1. CASE S = Memory
        <3>1. U.object = S.object /\ U.npcs = S.npcs
            BY <2>1 DEF Memory
        <3> QED BY <2>1, <3>1, RearsSame
    <2>2. CASE S # Memory
        <3>1. PICK x \in Places : S = [Memory EXCEPT !.object[x[1]].marriage.partner[x[2]] = c]
            BY <2>2 DEF Allocated
        <3> DEFINE o == x[1]
                   n == object[o]
                   w == [n.marriage EXCEPT !.partner[x[2]] = c]
                   k == [n EXCEPT !.marriage = w]
        <3>2. o \in Object /\ n # Free /\ n.marriage # None /\ x[2] \in 1..2
            BY DEF Places
        <3>3. n \in NpcState /\ Memory.object[o] = n /\ Shape(Memory)
            BY <3>2, MemoryShape, MemoryFields
        <3>4. S = [Memory EXCEPT !.object[o] = k]
            BY <3>1, <3>3 DEF Memory, NpcState
        <3>5. w \in Marriages
            BY <3>2, <3>3 DEF NpcState, Marriages
        <3>6. U.object = S.object /\ U.npcs = S.npcs
            BY <3>4 DEF Memory
        <3> HIDE DEF w, n, o, U
        <3>7. Kin(n, k)
            BY <3>3, <3>5, KinStates
        <3>8. Raises(n, k, o)
            BY <3>3, <3>7, KinRaises
        <3> HIDE DEF k
        <3> QED BY <3>2, <3>3, <3>4, <3>6, <3>8, RearChange
    <2> QED BY <2>1, <2>2
<1>3. Become(U)
    BY <1>1
<1> HIDE DEF U
<1>4. Rears(Memory, U)
    BY <1>2, RearsSame, RearsTwice
<1> QED BY <1>3, <1>4, RearBecome

LEMMA LogoutReared ==
    ASSUME Kept(Memory), Shape(Memory'), Reared(Memory), NEW c \in Char, Logout(c)
    PROVE  Reared(Memory')
<1> DEFINE S == Memory
           Leaves(n, o) == IF o \notin unregister[c] THEN n
                           ELSE [n EXCEPT !.total = @ - n.damage[c], !.damage[c] = None]
           Frees(n, o) == IF \A m \in Map : o \notin OnMap(Memory, m) THEN n
                          ELSE [n EXCEPT !.killowner = IF @ = c THEN None ELSE @]
           f == [o \in Object |-> IF S.object[o] = Free THEN Free
                                  ELSE Parted(Frees(Leaves(S.object[o], o), o), c)]
           left == [S EXCEPT !.object = f]
           alone == IF pet[c] = None THEN left ELSE Dismiss(left, {c})
           U == [alone EXCEPT !.where[c] = None, !.unregister[c] = {}, !.npc[c] = None,
                              !.arena = Left(@, {c})]
<1>1. Become(U)
    BY DEF Logout, Memory
<1>2. /\ Sane(S, {}, {}) /\ Shape(S) /\ S.unregister = unregister /\ Reared(S)
      /\ \A o \in Object : S.object[o] # Free => S.object[o] \in NpcState
    BY MemoryShape, MemoryFields
<1> HIDE DEF S
<1>3. ASSUME NEW o \in Object, S.object[o] # Free
      PROVE  Kin(S.object[o], f[o])
    <2> DEFINE n == S.object[o]
               found == \E m \in Map : o \in OnMap(S, m)
               l == Leaves(n, o)
               g == Frees(l, o)
    <2>1. n \in NpcState /\ found \in BOOLEAN
        BY <1>2, <1>3
    <2>2. l = IF n.damage[c] = None THEN n
              ELSE [n EXCEPT !.total = @ - n.damage[c], !.damage[c] = None]
        <3>1. o \in unregister[c] <=> n.damage[c] # None
            BY <1>2, <1>3 DEF Sane, Matched
        <3> QED BY <3>1
    <2>3. g = IF found THEN [l EXCEPT !.killowner = IF @ = c THEN None ELSE @] ELSE l
        BY DEF S
    <2>4. f[o] = Parted(g, c)
        BY <1>3
    <2> HIDE DEF n, l, g, found, f
    <2>5. f[o] = Parted(Unowned(Unlisted(n, c), c, found), c)
        BY <2>2, <2>3, <2>4 DEF Unlisted, Unowned
    <2>6. Kin(n, Parted(Unowned(Unlisted(n, c), c, found), c))
        BY <2>1, KinRid
    <2> QED BY <2>5, <2>6 DEF n
<1>4. \A o \in Object : S.object[o] = Free => f[o] = Free
    OBVIOUS
<1>5. f \in [Object -> NpcState \union {Free}]
    <2>1. \A o \in Object : f[o] \in NpcState \union {Free}
        BY <1>3, <1>4 DEF Kin
    <2>2. f = [o \in Object |-> f[o]]
        OBVIOUS
    <2> HIDE DEF f
    <2> QED BY <2>1, <2>2
<1> HIDE DEF f
<1>6. Shape(left) /\ left.object = f /\ left.npcs = S.npcs
    BY <1>2, <1>5, ObjectFields DEF Others
<1> HIDE DEF left
<1>7. Rears(S, left)
    <2>1. \A o \in Object : Raises(S.object[o], f[o], o)
        BY <1>2, <1>3, <1>4, KinRaises, RaisesSame
    <2> QED BY <1>6, <2>1 DEF Rears, Object
<1>8. Shape(alone) /\ Rears(left, alone)
    <2>1. {c} \subseteq Char
        OBVIOUS
    <2> QED BY <1>6, <2>1, DismissFields, RearDismiss, RearsSame
<1> HIDE DEF alone
<1>9. U.object = alone.object /\ U.npcs = alone.npcs
    BY <1>8 DEF Shape
<1> HIDE DEF U
<1>10. Rears(S, U)
    BY <1>7, <1>8, <1>9, RearsSame, RearsTwice
<1> QED BY <1>1, <1>10, RearBecome DEF S

\* CallPet, DismissPet, PetStrays, Warp, Open and Walk.
LEMMA MoveReared ==
    ASSUME Kept(Memory), Shape(Memory'), Reared(Memory), NEW c \in Char,
           \/ CallPet(c) \/ DismissPet(c) \/ PetStrays(c) \/ Walk(c)
           \/ (\E o \in Object : Open(c, o)) \/ (\E m \in Map : Warp(c, m))
    PROVE  Reared(Memory')
<1>1. Shape(Memory) /\ {c} \subseteq Char
    BY MemoryShape
<1>2. ASSUME NEW o \in Pet, Memory.where[c] # None, Become(Call(Memory, c, o))
      PROVE  Reared(Memory')
    BY <1>1, <1>2, RearCall, RearBecome
<1>3. ASSUME Become(Dismiss(Memory, {c})) PROVE Reared(Memory')
    BY <1>1, <1>3, RearDismiss, RearBecome
<1>4. ASSUME NEW o, Become([Memory EXCEPT !.npc[c] = o]) PROVE Reared(Memory')
    <2> DEFINE T == [Memory EXCEPT !.npc[c] = o]
    <2>1. T.object = Memory.object /\ T.npcs = Memory.npcs /\ Become(T)
        BY <1>4 DEF Memory
    <2> HIDE DEF T
    <2> QED BY <2>1, RearsSame, RearBecome
<1>5. ASSUME NEW m \in Map, NEW T \in Arrive(Memory, {c}, m), Become(T) PROVE Reared(Memory')
    BY <1>1, <1>5, RearArrive, RearBecome
<1>6. CASE CallPet(c) \/ DismissPet(c) \/ PetStrays(c)
    BY <1>2, <1>3, <1>6, MemoryFields DEF CallPet, DismissPet, PetStrays, InWorld
<1>7. CASE Walk(c) \/ \E o \in Object : Open(c, o)
    BY <1>4, <1>7 DEF Walk, Open
<1>8. CASE \E m \in Map : Warp(c, m)
    BY <1>5, <1>8 DEF Warp
<1> QED BY <1>6, <1>7, <1>8

LEMMA AttackReared ==
    ASSUME Kept(Memory), Shape(Memory'), Reared(Memory), NEW c \in Char, NEW o \in Object,
           NEW amount \in 0..MaxHp, Attack(c, o, amount) \/ PetAttack(c, o, amount)
    PROVE  Reared(Memory')
<1> DEFINE T == Damage(Memory, o, c, amount)
<1>1. /\ Memory.where[c] # None /\ o \in OnMap(Memory, Memory.where[c]) /\ Become(T)
    BY MemoryFields DEF Attack, PetAttack, Here
<1>2. Sane(Memory, {}, {}) /\ Memory.where[c] \in Map /\ amount \in Nat
    BY <1>1, MemoryShape, MaxHpIsPositive DEF Shape
<1> HIDE DEF T
<1>3. Reared(T)
    BY <1>1, <1>2, RearedDamage DEF T
<1> QED BY <1>1, <1>3, BecomeReared

\* The parent a child takes is a boss.
LEMMA MindedRaises ==
    ASSUME Kept(Memory), NEW o \in Object, object[o] \in NpcState, NEW bored \in BOOLEAN
    PROVE  Raises(object[o], Minded(object[o], o, bored), o)
<1> DEFINE n == object[o]
           list == npcs[Home]
           bosses == {i \in DOMAIN list : list[i] \in Boss}
           first == list[CHOOSE i \in bosses : \A j \in bosses : i <= j]
           mother == IF o \in Child /\ n.parent = None /\ bosses # {} THEN first ELSE n.parent
           owner == IF n.killowner \in Opponents(n) /\ (bored \/ where[n.killowner] # Home)
                    THEN None ELSE n.killowner
           k == Minded(n, o, bored)
<1>1. list \in Seq(Object)
    BY MapsApart, MemoryFields DEF Kept, Sane, Shape
<1>2. bosses # {} => first \in Boss
    <2>1. bosses \subseteq Nat /\ \A i \in bosses : list[i] \in Boss
        BY <1>1
    <2> HIDE DEF bosses, list
    <2> SUFFICES ASSUME bosses # {} PROVE first \in Boss
        OBVIOUS
    <2>2. \E i \in bosses : \A j \in bosses : i <= j
        BY <2>1, LeastOf
    <2> QED BY <2>1, <2>2
<1>3. mother \in Boss \union {None, n.parent}
    BY <1>2
<1>4. k = [n EXCEPT !.parent = mother, !.killowner = owner]
    BY DEF Minded, NpcState
<1>5. k \in NpcState /\ k.alive = n.alive /\ n # Free /\ k # Free
    BY MindedState, NotFree
<1> HIDE DEF mother, owner, k
<1>6. k.parent = mother
    BY <1>4 DEF NpcState
<1>7. Raises(n, k, o)
    BY <1>3, <1>5, <1>6 DEF Raises, Lives
<1> QED BY <1>7 DEF k

LEMMA ActReared ==
    ASSUME Kept(Memory), Shape(Memory'), Reared(Memory), NEW o \in Object, Act(o)
    PROVE  Reared(Memory')
<1>1. /\ Sane(Memory, {}, {}) /\ Shape(Memory) /\ Memory.object[o] # Free
      /\ Memory.object[o] = object[o] /\ object[o] \in NpcState
    BY MemoryShape, MemoryFields DEF Act, Alive
<1> DEFINE State(bored) == [Memory EXCEPT !.object[o] = Minded(object[o], o, bored)]
           Does(S) ==
               \/ Become(S)
               \/ \E c \in Here(o), m \in Map : \E T \in Arrive(S, {c}, m) : Become(T)
               \/ \E c \in Here(o), amount \in 1..MaxHp :
                     /\ pet[c] # None /\ Alive(S, pet[c])
                     /\ Become(Damage(S, pet[c], c, amount))
<1>2. PICK bored \in BOOLEAN : Does(State(bored))
    <2>1. \A bored \in BOOLEAN :
              State(bored) = [Memory EXCEPT !.object[o] = Minded(@, o, bored)]
        BY DEF Memory
    <2> HIDE DEF State
    <2> QED BY <2>1 DEF Act
<1> DEFINE k == Minded(object[o], o, bored)
           S == [Memory EXCEPT !.object[o] = k]
<1>3. Does(S)
    BY <1>2
<1>4. Raises(object[o], k, o)
    BY <1>1, MindedRaises
<1>5. /\ k \in NpcState /\ Alike(object[o], k) /\ k.alive = object[o].alive
      /\ k.killowner \in {object[o].killowner, None}
    BY <1>1, MindedState
<1> HIDE DEF k, State
<1>6. Sane(S, {}, {}) /\ Changed(Memory, S, o, k)
    BY <1>1, <1>5, ChangeKept
<1>7. Reared(S)
    BY <1>1, <1>4, RearChange, RearsReared
<1> HIDE DEF S, Does
<1>8. ASSUME NEW c \in Here(o), NEW m \in Map, NEW T \in Arrive(S, {c}, m), Become(T)
      PROVE  Reared(Memory')
    <2>1. {c} \subseteq Char /\ Shape(S)
        BY <1>6 DEF Here, Sane
    <2>2. Reared(T)
        BY <1>7, <1>8, <2>1, RearArrive, RearsReared
    <2> QED BY <1>8, <2>2, BecomeReared
<1>9. ASSUME NEW c \in Here(o), NEW amount \in 1..MaxHp, pet[c] # None, Alive(S, pet[c]),
             Become(Damage(S, pet[c], c, amount))
      PROVE  Reared(Memory')
    <2> DEFINE T == Damage(S, pet[c], c, amount)
    <2>1. c \in Char /\ amount \in Nat
        BY MaxHpIsPositive DEF Here
    <2>2. S.pet = pet /\ S.object[pet[c]] # Free
        BY <1>6, <1>9, MemoryFields DEF Changed, Others, Alive
    <2>3. /\ S.where[c] # None /\ pet[c] \in OnMap(S, S.where[c])
        BY <1>6, <1>9, <2>1, <2>2 DEF Sane, Followed
    <2>4. S.where[c] \in Map /\ pet[c] \in Object
        BY <1>6, <1>9, <2>1, <2>2, <2>3 DEF Sane, Shape, Object
    <2> HIDE DEF T
    <2>5. Reared(T)
        BY <1>6, <1>7, <2>1, <2>3, <2>4, RearedDamage DEF T
    <2> QED BY <1>9, <2>5, BecomeReared DEF T
<1> QED BY <1>3, <1>7, <1>8, <1>9, BecomeReared DEF Does

LEMMA RecoverReared ==
    ASSUME Kept(Memory), Shape(Memory'), Reared(Memory), NEW o \in Object, Recover(o)
    PROVE  Reared(Memory')
<1>1. /\ object[o] # Free /\ Memory.object[o] = object[o] /\ object[o] \in NpcState
      /\ Shape(Memory) /\ object[o].hp \in Int
    BY MemoryShape, MemoryFields DEF Recover, Alive, NpcState
<1>2. PICK hp \in (object[o].hp + 1)..MaxHp : Become([Memory EXCEPT !.object[o].hp = hp])
    BY DEF Recover
<1>3. hp \in Int
    BY <1>1, MaxHpIsPositive
<1> DEFINE k == [object[o] EXCEPT !.hp = hp]
           T == [Memory EXCEPT !.object[o] = k]
<1>4. Become(T)
    BY <1>2 DEF Memory
<1>5. Raises(object[o], k, o)
    <2>1. Kin(object[o], k)
        BY <1>1, <1>3, KinStates
    <2> HIDE DEF k
    <2> QED BY <1>1, <2>1, KinRaises
<1> HIDE DEF k
<1>6. Rears(Memory, T)
    BY <1>1, <1>5, RearChange
<1> QED BY <1>4, <1>6, RearBecome

\* A child comes back while its parent lives, which is a boss.
LEMMA RespawnReared ==
    ASSUME Kept(Memory), Shape(Memory'), Reared(Memory), NEW o \in Object, Respawn(o)
    PROVE  Reared(Memory')
<1>1. /\ Sane(Memory, {}, {}) /\ Shape(Memory) /\ Memory.object = object
      /\ object[o] # Free /\ object[o] \in NpcState
      /\ o \in Child => object[o].parent # None /\ Alive(Memory, object[o].parent)
      /\ Become(Spawn([Memory EXCEPT !.object[o].killowner = None], o))
    BY MemoryShape, MemoryFields, MapsApart DEF Respawn
<1> DEFINE k == [object[o] EXCEPT !.killowner = None]
           S == [Memory EXCEPT !.object[o] = k]
<1>2. k \in NpcState /\ Alike(object[o], k) /\ k.alive = object[o].alive /\ k.killowner = None
    BY <1>1, OwnedState
<1>3. [Memory EXCEPT !.object[o].killowner = None] = S
    BY DEF Memory
<1>4. Raises(object[o], k, o)
    <2>1. Kin(object[o], k)
        BY <1>1, KinStates
    <2> HIDE DEF k
    <2> QED BY <1>1, <2>1, KinRaises
<1> HIDE DEF k
<1>5. Sane(S, {}, {}) /\ Changed(Memory, S, o, k) /\ Rears(Memory, S)
    BY <1>1, <1>2, <1>4, ChangeKept, RearChange
<1> HIDE DEF S
<1>6. S.object[o] # Free /\ Reared(S)
    BY <1>2, <1>5, NotFree, RearsReared DEF Changed
<1>7. ASSUME o \in Child \cap Npc PROVE \E b \in Boss : Lives(S.object[b])
    <2> DEFINE b == object[o].parent
    <2>1. b \in Boss /\ object[b] # Free /\ object[b].alive
        BY <1>1, <1>7 DEF Reared, Bred, Alive
    <2>2. b \in Object /\ b \in Npc
        BY <2>1, KindsAreApart DEF Object
    <2> HIDE DEF b
    <2>3. object[b].alive \in BOOLEAN
        BY <1>1, <2>1, <2>2 DEF Shape, NpcState
    <2>4. Lives(Memory.object[b])
        BY <1>1, <2>1, <2>3 DEF Lives
    <2>5. Lives(S.object[b])
        BY <1>5, <2>1, <2>2, <2>4 DEF Rears, Raises
    <2> QED BY <2>1, <2>5
<1>8. Reared(Spawn(S, o))
    BY <1>5, <1>6, <1>7, RearedSpawn
<1> QED BY <1>1, <1>3, <1>8, BecomeReared

LEMMA SpawnReared ==
    ASSUME Kept(Memory), Shape(Memory'), Reared(Memory),
           DespawnNPC \/ \E o \in Temporary : SpawnTemporary(o)
    PROVE  Reared(Memory')
<1>1. Shape(Memory)
    BY MemoryShape
<1>2. ASSUME NEW o \in Temporary, SpawnTemporary(o) PROVE Reared(Memory')
    BY <1>1, <1>2, RearTemporary, RearBecome DEF SpawnTemporary
<1>3. CASE DespawnNPC
    <2> DEFINE D == {o \in OnMap(Memory, Home) \cap Temporary : Alive(Memory, o)}
    <2>1. Become(Die(Memory, D))
        BY <1>3 DEF DespawnNPC
    <2>2. D \cap Boss = {} /\ \A o \in Object : o \in D => Memory.object[o] # Free
        BY NoNpc DEF Alive
    <2> HIDE DEF D
    <2> QED BY <1>1, <2>1, <2>2, RearDie, RearBecome
<1> QED BY <1>2, <1>3

LEMMA ReloadReared ==
    ASSUME Kept(Memory), Shape(Memory'), Reared(Memory), NEW c \in Char, NEW m \in Map,
           ReloadMap(c, m)
    PROVE  Reared(Memory')
<1> DEFINE C == {x \in Char : where[x] = where[c] /\ pet[x] # None}
           back == Dismiss(Memory, C)
           S == Unload(back, m)
<1>1. Become(back) \/ Become(Load(S, m))
    BY DEF ReloadMap
<1>2. Sane(Memory, {}, {}) /\ Shape(Memory) /\ C \subseteq Char /\ \A d \in C : Memory.pet[d] # None
    BY MemoryShape, MemoryFields
<1> HIDE DEF C
<1>3. Sane(back, {}, {}) /\ Rears(Memory, back)
    BY <1>2, DismissSane, RearDismiss
<1> HIDE DEF back
<1>4. Shape(S)
    <2>1. Shape(back) /\ \A o \in Object : o \in OnMap(back, m) => back.object[o] # Free
        BY <1>3 DEF Sane, Placed
    <2>2. Shape(Forget(back, OnMap(back, m)))
        BY <2>1, ForgetFields
    <2> QED BY <2>2, DeleteFields DEF Unload
<1>5. m # Home => Rears(back, S)
    BY <1>3, RearUnload
<1> HIDE DEF S
<1>6. Reared(back) /\ Reared(Load(S, m))
    <2>1. Reared(back)
        BY <1>3, RearsReared
    <2>2. CASE m = Home
        <3>1. Reared(Load(S, Home))
            BY <1>4, RearedLoad
        <3> QED BY <2>1, <2>2, <3>1
    <2>3. CASE m # Home
        BY <1>5, <2>1, <2>3, RearsReared DEF Load
    <2> QED BY <2>1, <2>2, <2>3
<1> QED BY <1>1, <1>6, BecomeReared

\* Spawn, hit and load the arena: the ring is another, the NPCs are the same.
LEMMA GamesReared ==
    ASSUME Kept(Memory), Shape(Memory'), Reared(Memory), Games
    PROVE  Reared(Memory')
<1>1. Shape(Memory) /\ ArenaMap \in Map /\ Counted(Memory) /\ Memory.arena = arena
    BY MemoryShape, MemoryFields, MapsApart DEF Kept
<1>2. arena.members \subseteq Char
    BY <1>1 DEF Counted
<1>3. ASSUME NEW a, NEW C, C \subseteq Char,
             NEW T \in Arrive([Memory EXCEPT !.arena = a], C, ArenaMap), Become(T)
      PROVE  Reared(Memory')
    <2> DEFINE S == [Memory EXCEPT !.arena = a]
    <2>1. S = [where |-> where, unregister |-> unregister, pet |-> pet, npc |-> npc,
               arena |-> a, npcs |-> npcs, object |-> object]
        BY DEF Memory
    <2>2. Shape(S) /\ S.object = Memory.object /\ S.npcs = Memory.npcs
        BY <1>1, <2>1, MemoryFields DEF Shape
    <2> HIDE DEF S
    <2>3. Rears(Memory, S) /\ Rears(S, T)
        BY <1>1, <1>3, <2>2, RearsSame, RearArrive DEF S
    <2> QED BY <1>3, <2>3, RearsTwice, RearBecome
<1>4. ASSUME NEW C \in SUBSET Char, Spawns(C) PROVE Reared(Memory')
    <2>1. PICK T \in Arrive([Memory EXCEPT !.arena.next = @ \cup C], C, ArenaMap) : Become(T)
        BY <1>4 DEF Spawns
    <2> DEFINE a == [arena EXCEPT !.next = @ \cup C]
    <2>2. [Memory EXCEPT !.arena.next = @ \cup C] = [Memory EXCEPT !.arena = a]
        BY DEF Memory
    <2> HIDE DEF a
    <2> QED BY <1>3, <2>1, <2>2
<1>5. ASSUME NEW c \in Char, NEW d \in Char, Hit(c, d) PROVE Reared(Memory')
    <2> DEFINE out == IF arena.occupants = 2 THEN {c, d} ELSE {d}
    <2>1. PICK T \in Arrive(Memory, out, ArenaMap) : Become(T)
        BY <1>5 DEF Hit
    <2>2. out \subseteq Char
        OBVIOUS
    <2> HIDE DEF out
    <2> QED BY <1>1, <2>1, <2>2, RearArrive, RearBecome
<1>6. ASSUME NEW enabled \in BOOLEAN, LoadArena(enabled) PROVE Reared(Memory')
    <2> DEFINE staying == {c \in arena.members : where[c] = ArenaMap}
               a == [arena EXCEPT !.enabled = enabled,
                                  !.members = IF enabled THEN staying ELSE {},
                                  !.occupants = Cardinality(staying)]
               out == IF enabled THEN {} ELSE staying
    <2>1. PICK T \in Arrive([Memory EXCEPT !.arena = a], out, ArenaMap) : Become(T)
        BY <1>6 DEF LoadArena
    <2>2. out \subseteq Char
        BY <1>2
    <2> HIDE DEF a, out
    <2> QED BY <1>3, <2>1, <2>2
<1> QED BY <1>4, <1>5, <1>6 DEF Games

\* Priests are of no family, and ceremonies change nothing else of NPCs.
LEMMA CeremoniesReared ==
    ASSUME Kept(Memory), Shape(Memory'), Reared(Memory), Ceremonies
    PROVE  Reared(Memory')
<1>1. /\ Shape(Memory) /\ Memory.object = object
      /\ \A o \in Object : object[o] # Free => object[o] \in NpcState
    BY MemoryShape, MemoryFields
<1>2. ASSUME NEW c \in Char, (\E d \in Char : Law_Marriage(c, d)) \/ Law_Divorce(c)
      PROVE  Reared(Memory')
    <2>1. Memory' = Memory
        BY <1>2 DEF Law_Marriage, Law_Divorce, vars, Memory
    <2> QED BY <2>1
<1>3. ASSUME NEW o \in Priest, NEW S, S.object = object, S.npcs = npcs, NEW m,
             Become([S EXCEPT !.object[o].marriage = m]), Shape(S)
      PROVE  Reared(Memory')
    <2> DEFINE T == [S EXCEPT !.object[o].marriage = m]
    <2>1. o \in Object /\ o \notin Boss /\ o \notin Child
        BY PriestsServe, KindsAreApart DEF Object
    <2>2. T.npcs = npcs /\ \A x \in Object \ {o} : T.object[x] = object[x]
        BY <1>3, <2>1 DEF Shape
    <2> HIDE DEF T
    <2>3. \A x \in Npc : Raises(Memory.object[x], T.object[x], x)
        <3>1. Raises(Memory.object[o], T.object[o], o)
            BY <2>1 DEF Raises
        <3> QED BY <1>1, <2>2, <3>1, RaisesSame DEF Object
    <2>4. Rears(Memory, T)
        BY <2>2, <2>3, MemoryFields DEF Rears
    <2> QED BY <1>3, <2>4, RearBecome DEF T
<1>4. ASSUME NEW c \in Char, NEW d \in Char, Priest_Request(c, d) PROVE Reared(Memory')
    <2> DEFINE m == [partner |-> <<c, d>>, accepted |-> <<FALSE, FALSE>>, begun |-> FALSE,
                     state |-> 1]
               o == npc[c]
               S == [Memory EXCEPT !.npc[d] = o]
    <2>1. /\ npc[c] \in Priest
          /\ Become([Memory EXCEPT !.npc[d] = npc[c], !.object[npc[c]].marriage = m])
        BY <1>4 DEF Priest_Request
    <2>2. [Memory EXCEPT !.npc[d] = npc[c], !.object[npc[c]].marriage = m]
              = [S EXCEPT !.object[o].marriage = m]
        BY DEF Memory
    <2>3. o \in Object
        BY <2>1, PriestsServe, KindsAreApart DEF Object
    <2> HIDE DEF m, o
    <2>4. S.object = object /\ S.npcs = npcs /\ Shape(S)
        <3> DEFINE p == [npc EXCEPT ![d] = o]
        <3>1. p \in [Char -> Object \cup {None}]
            BY <1>1, <2>3, MemoryFields DEF Shape
        <3>2. S = [where |-> where, unregister |-> unregister, pet |-> pet, npc |-> p,
                   arena |-> arena, npcs |-> npcs, object |-> object]
            BY DEF Memory
        <3> HIDE DEF p, S
        <3>3. /\ S.where = where /\ S.unregister = unregister /\ S.pet = pet /\ S.npc = p
              /\ S.arena = arena /\ S.npcs = npcs /\ S.object = object
            BY <3>2
        <3> QED BY <1>1, <3>1, <3>2, <3>3, MemoryFields DEF Shape
    <2> HIDE DEF S
    <2> QED BY <1>3, <2>1, <2>2, <2>4 DEF o
<1>5. ASSUME NEW c \in Char, Priest_Accept(c) \/ Priest_Use(c) PROVE Reared(Memory')
    <2>1. /\ npc[c] \in Priest
          /\ \E m : Become([Memory EXCEPT !.object[npc[c]].marriage = m])
        BY <1>5 DEF Priest_Accept, Priest_Use, Married
    <2> QED BY <1>1, <1>3, <2>1, MemoryFields
<1>6. ASSUME ExecuteWeddings PROVE Reared(Memory')
    <2>1. PICK late \in SUBSET Priest : object' = Executed(late)
        BY <1>6, MemoryFields DEF ExecuteWeddings, Executed, OnMap
    <2>2. ASSUME NEW o \in Object PROVE Raises(object[o], object'[o], o)
        <3>1. CASE o \in OnMap(Memory, Home)
            <4> DEFINE n == object[o]
                       m == Execute(n.marriage, o \in late)
            <4>1. n \in NpcState
                BY <1>1, <3>1, MemoryShape, MapsApart
            <4>2. object'[o] = [n EXCEPT !.marriage = m]
                BY <2>1, <3>1 DEF Executed
            <4>3. m \in Marriages \union {None}
                <5>1. n.marriage \in Marriages \union {None}
                    BY <4>1 DEF NpcState
                <5> HIDE DEF n
                <5> QED BY <5>1, ExecuteState
            <4> HIDE DEF n, m
            <4>4. Raises(n, object'[o], o)
                BY <4>1, <4>2, <4>3, KinStates, KinRaises
            <4> QED BY <4>4 DEF n
        <3>2. CASE o \notin OnMap(Memory, Home)
            <4>1. object'[o] = object[o]
                BY <2>1, <3>2 DEF Executed
            <4> QED BY <4>1, RaisesSame
        <3> QED BY <3>1, <3>2
    <2>3. npcs' = npcs
        BY <1>6 DEF ExecuteWeddings
    <2>4. Rears(Memory, Memory')
        BY <2>2, <2>3 DEF Rears, Memory, Object
    <2> QED BY <2>4, RearsReared
<1> QED BY <1>2, <1>4, <1>5, <1>6 DEF Ceremonies

LEMMA InitReared == Init => Reared(Memory)
<1> SUFFICES ASSUME Init PROVE Reared(Memory)
    OBVIOUS
<1> DEFINE n == Spawned(Fresh(None), None)
<1>1. npcs[Home] = Order /\ \A o \in Npc : object[o] = n
    BY MapsApart DEF Init, Object
<1>2. n.parent = None /\ Lives(n)
    <2>1. n.parent = None
        BY DEF Spawned, Fresh
    <2>2. Fresh(None) \in NpcState
        BY FreshState
    <2>3. n # Free /\ n.alive = TRUE
        BY <2>2, SpawnedState, NotFree
    <2> QED BY <2>1, <2>3 DEF Lives
<1> HIDE DEF n
<1> QED BY <1>1, <1>2, OrderList, KindsAreApart, MemoryFields DEF Reared, Bred

LEMMA NextReared ==
    ASSUME Kept(Memory), Shape(Memory'), Reared(Memory), Next
    PROVE  Reared(Memory')
<1>1. ASSUME NEW c \in Char, \/ Login(c) \/ Logout(c) \/ CallPet(c) \/ DismissPet(c)
                             \/ PetStrays(c) \/ Walk(c)
      PROVE  Reared(Memory')
    BY <1>1, LoginReared, LogoutReared, MoveReared
<1>2. ASSUME NEW c \in Char, NEW o \in Object, Open(c, o) PROVE Reared(Memory')
    BY <1>2, MoveReared
<1>3. ASSUME NEW c \in Char, NEW m \in Map, Warp(c, m) \/ ReloadMap(c, m)
      PROVE  Reared(Memory')
    BY <1>3, MoveReared, ReloadReared
<1>4. ASSUME NEW c \in Char, NEW o \in Object, NEW amount \in 0..MaxHp,
             Attack(c, o, amount) \/ PetAttack(c, o, amount)
      PROVE  Reared(Memory')
    BY <1>4, AttackReared
<1>5. ASSUME NEW o \in Object, Act(o) \/ Recover(o) \/ Respawn(o) PROVE Reared(Memory')
    BY <1>5, ActReared, RecoverReared, RespawnReared
<1>6. ASSUME DespawnNPC \/ \E o \in Temporary : SpawnTemporary(o) PROVE Reared(Memory')
    BY <1>6, SpawnReared
<1> QED BY <1>1, <1>2, <1>3, <1>4, <1>5, <1>6 DEF Next

LEMMA RearedHolds == RealmSpec => []Reared(Memory)
<1>1. RealmInit => Reared(Memory)
    BY InitReared DEF RealmInit
<1>2. RealmInv /\ RealmInv' /\ Reared(Memory) /\ [RealmNext]_<<vars, vows>> => Reared(Memory)'
    <2> SUFFICES ASSUME RealmInv, RealmInv', Reared(Memory), [RealmNext]_<<vars, vows>>
                 PROVE  Reared(Memory')
        BY DEF Reared, Bred, Begins
    <2>1. Kept(Memory) /\ Shape(Memory')
        BY DEF RealmInv, Kept, Sane, Shape
    <2>2. CASE Next
        BY <2>1, <2>2, NextReared
    <2>3. CASE Games
        BY <2>1, <2>3, GamesReared
    <2>4. CASE Ceremonies
        BY <2>1, <2>4, CeremoniesReared
    <2>5. ASSUME UNCHANGED <<vars, vows>> PROVE Reared(Memory')
        <3>1. Memory' = Memory
            BY <2>5 DEF vars, Memory
        <3> QED BY <3>1
    <2> QED BY <2>2, <2>3, <2>4, <2>5 DEF RealmNext
<1> QED BY <1>1, <1>2, RealmHolds, PTL DEF RealmSpec

\* ChildrenFall: the children of a map do not outlive its bosses, nor come back without one.
THEOREM ChildrenFallWithBosses == RealmSpec => []ChildrenFall
<1>1. RealmInv /\ Reared(Memory) => ChildrenFall
    <2> SUFFICES ASSUME RealmInv, Reared(Memory), NEW o \in Child \cap Npc, Alive(Memory, o),
                        Boss # {}
                 PROVE  \E b \in Boss : Alive(Memory, b)
        BY DEF ChildrenFall
    <2>1. o \in Object /\ object[o] # Free /\ object[o].alive /\ Memory.object = object
        BY MemoryFields DEF Alive, Object
    <2>2. object[o].alive \in BOOLEAN
        BY <2>1, MemoryShape DEF RealmInv, NpcState
    <2>3. Lives(Memory.object[o])
        BY <2>1, <2>2 DEF Lives
    <2>4. PICK b \in Boss : Lives(Memory.object[b])
        BY <2>3 DEF Reared
    <2>5. Alive(Memory, b)
        BY <2>4 DEF Lives, Alive
    <2> QED BY <2>5
<1> QED BY <1>1, RealmHolds, RearedHolds, PTL
=============================================================================

----------------------------- MODULE WireProofs ------------------------------
(***************************************************************************)
(* What goes over a connection.  The bytes of packets and files stay whole *)
(* and in order through the buffers of both sides, for every length,       *)
(* buffer and number of packets, and both directions are channels that     *)
(* lose and double nothing.  What the client computes of the bytes it is   *)
(* sent is what the server chose, and so a client that counts as it is     *)
(* told is never closed for a wrong number, for every period and any       *)
(* number of packets under way.                                            *)
(***************************************************************************)
EXTENDS Stream, Sequence, SequenceTheorems, WellFoundedInduction, TLAPS

-----------------------------------------------------------------------------
(***************************************************************************)
(* Numbers.                                                                *)
(***************************************************************************)

LEMMA LeastOf ==
    ASSUME NEW I, I \subseteq Nat, I # {}
    PROVE  \E i \in I : \A j \in I : i <= j
<1>1. PICK i \in I : \A j \in I : ~ (<<j, i>> \in OpToRel(<, Nat))
    BY Zenon, NatLessThanWellFounded, WFMin
<1>2. \A j \in I : i <= j
    <2> SUFFICES ASSUME NEW j \in I PROVE i <= j
        OBVIOUS
    <2>1. ~ (<<j, i>> \in {z \in Nat \X Nat : z[1] < z[2]})
        BY <1>1 DEF OpToRel
    <2>2. <<j, i>> \in Nat \X Nat
        OBVIOUS
    <2> QED BY <2>1, <2>2
<1> QED BY <1>2

\* Induction over numbers, for a set of them.
LEMMA NumbersFollow ==
    ASSUME NEW T, 0 \in T, \A n \in Nat : n \in T => n + 1 \in T
    PROVE  Nat \subseteq T
<1> SUFFICES ASSUME Nat \ T # {} PROVE FALSE
    OBVIOUS
<1>1. PICK n \in Nat \ T : \A k \in Nat \ T : n <= k
    BY LeastOf
<1>2. n # 0 /\ n - 1 \in Nat /\ (n - 1) + 1 = n /\ ~(n <= n - 1)
    OBVIOUS
<1>3. n - 1 \notin T
    BY <1>2
<1> QED BY <1>1, <1>2, <1>3

-----------------------------------------------------------------------------
(***************************************************************************)
(* Buffers that go round.                                                  *)
(***************************************************************************)

\* What a place of a buffer may hold.
Byte == (Packet \cup Typed \cup File) \X (Nat \ {0})
Cell == Byte \cup {Blank}

\* The place in a circle of n that a count comes to.
Mod(n, a) == a % n

IsShaped(r) ==
    r = [size |-> r.size, slot |-> r.slot, gpos |-> r.gpos, ppos |-> r.ppos, used |-> r.used]

\* What is used of it are the places between what is taken next and what is put next.
IsRing(r) ==
    /\ IsShaped(r)
    /\ r.size \in Nat \ {0} /\ r.gpos \in 0..(r.size - 1) /\ r.used \in 0..r.size
    /\ r.ppos = Mod(r.size, r.gpos + r.used)
    /\ r.slot \in [0..(r.size - 1) -> Cell]

\* Places are counted round: once over the end and once before the start.
LEMMA Around ==
    ASSUME NEW n \in Nat \ {0}, NEW a \in Int
    PROVE  /\ Mod(n, a) \in 0..(n - 1)
           /\ 0 <= a /\ a < n => Mod(n, a) = a
           /\ n <= a /\ a < 2 * n => Mod(n, a) = a - n
           /\ -n <= a /\ a < 0 => Mod(n, a) = a + n
<1>1. a % n \in 0..(n - 1)
    OBVIOUS
<1>2. 0 <= a /\ a < n => a % n = a
    OBVIOUS
<1>3. n <= a /\ a < 2 * n => a % n = a - n
    OBVIOUS
<1>4. -n <= a /\ a < 0 => a % n = a + n
    OBVIOUS
<1> QED BY <1>1, <1>2, <1>3, <1>4 DEF Mod

LEMMA EmptyRing ==
    ASSUME NEW n \in Nat \ {0}
    PROVE  IsRing(Empty(n)) /\ Contents(Empty(n)) = <<>> /\ Empty(n).size = n /\ Empty(n).used = 0
<1> DEFINE r == Empty(n)
           slots == [i \in 0..(n - 1) |-> Blank]
<1>1. r = [size |-> n, slot |-> slots, gpos |-> 0, ppos |-> 0, used |-> 0]
    BY DEF Empty
<1>2. slots \in [0..(n - 1) -> Cell]
    BY DEF Cell
<1> HIDE DEF r, slots
<1>3. r.size = n /\ r.slot = slots /\ r.gpos = 0 /\ r.ppos = 0 /\ r.used = 0
    BY <1>1
<1>4. Mod(n, 0 + 0) = 0
    BY Around
<1>5. IsRing(r)
    BY <1>1, <1>2, <1>3, <1>4 DEF IsRing, IsShaped
<1>6. Contents(r) = <<>>
    BY <1>3 DEF Contents, Peek
<1> QED BY <1>3, <1>5, <1>6 DEF r

\* Where what is in a buffer is, and where what is put goes.
LEMMA RingPlaces ==
    ASSUME NEW r, IsRing(r), NEW m \in Nat, m <= Room(r)
    PROVE  /\ \A i \in 0..(r.size - 1) : Turn(r, i) \in 1..r.size
           /\ \A k \in Int : Mod(r.size, r.gpos + k) \in 0..(r.size - 1)
           /\ \A k \in 1..r.used : Turn(r, Mod(r.size, r.gpos + k)) > m
           /\ \A k \in 1..m : Turn(r, Mod(r.size, r.gpos + (r.used + k))) = k
           /\ Mod(r.size, r.ppos + m) = Mod(r.size, r.gpos + (r.used + m))
<1> DEFINE n == r.size
           g == r.gpos
           u == r.used
           P == r.ppos
<1>1. n \in Nat \ {0} /\ g \in 0..(n - 1) /\ u \in 0..n /\ m <= n - u /\ P = Mod(n, g + u)
    BY DEF IsRing, Room
<1>2. \A i : Turn(r, i) = Mod(n, i - P - 1) + 1
    BY DEF Turn, Mod
<1> HIDE DEF n, g, u, P
<1>3. P \in 0..(n - 1) /\ P = IF g + u < n THEN g + u ELSE g + u - n
    BY <1>1, Around
<1>4. \A i \in 0..(n - 1) : Turn(r, i) \in 1..n
    <2> SUFFICES ASSUME NEW i \in 0..(n - 1) PROVE Turn(r, i) \in 1..n
        OBVIOUS
    <2>1. i - P - 1 \in Int
        BY <1>1, <1>3
    <2>2. Mod(n, i - P - 1) \in 0..(n - 1)
        BY <1>1, <2>1, Around
    <2> QED BY <1>1, <1>2, <2>2
<1>5. \A k \in Int : Mod(n, g + k) \in 0..(n - 1)
    BY <1>1, Around
<1>6. ASSUME NEW k \in 1..u PROVE Turn(r, Mod(n, g + k)) > m
    <2> DEFINE i == Mod(n, g + k)
    <2>1. i \in 0..(n - 1) /\ i = IF g + k < n THEN g + k ELSE g + k - n
        BY <1>1, Around
    <2> HIDE DEF i
    <2> DEFINE j == i - P - 1
    <2>2. j \in Int /\ ((0 <= j /\ j < n /\ j >= m) \/ (-n <= j /\ j < 0 /\ j + n >= m))
        BY <1>1, <1>3, <2>1
    <2> HIDE DEF j
    <2>3. Mod(n, j) >= m /\ Mod(n, j) \in Int
        BY <1>1, <2>2, Around
    <2>4. Turn(r, i) = Mod(n, j) + 1
        BY <1>2 DEF j
    <2> QED BY <2>3, <2>4 DEF i
<1>7. ASSUME NEW k \in 1..m PROVE Turn(r, Mod(n, g + (u + k))) = k
    <2> DEFINE i == Mod(n, g + (u + k))
    <2>1. i \in 0..(n - 1) /\ i = IF g + u + k < n THEN g + u + k ELSE g + u + k - n
        BY <1>1, Around
    <2> HIDE DEF i
    <2> DEFINE j == i - P - 1
    <2>2. j \in Int /\ ((0 <= j /\ j < n /\ j = k - 1) \/ (-n <= j /\ j < 0 /\ j + n = k - 1))
        BY <1>1, <1>3, <2>1
    <2> HIDE DEF j
    <2>3. Mod(n, j) = k - 1
        BY <1>1, <2>2, Around
    <2>4. Turn(r, i) = Mod(n, j) + 1
        BY <1>2 DEF j
    <2> QED BY <2>3, <2>4 DEF i
<1>8. Mod(n, P + m) = Mod(n, g + (u + m))
    <2>1. Mod(n, P + m) = IF P + m < n THEN P + m ELSE P + m - n
        BY <1>1, <1>3, Around
    <2>2. Mod(n, g + (u + m)) = IF g + u + m < n THEN g + u + m ELSE g + u + m - n
        BY <1>1, Around
    <2> QED BY <1>1, <1>3, <2>1, <2>2
<1> QED BY <1>4, <1>5, <1>6, <1>7, <1>8 DEF n, g, u, P

LEMMA RingContents ==
    ASSUME NEW r, IsRing(r), NEW k \in 0..r.used
    PROVE  /\ Peek(r, k) \in Seq(Cell) /\ Len(Peek(r, k)) = k
           /\ Peek(r, k) = [j \in 1..k |-> r.slot[Mod(r.size, r.gpos + j)]]
           /\ \A j \in 1..k : Peek(r, k)[j] = Contents(r)[j]
           /\ Contents(r) \in Seq(Cell) /\ Len(Contents(r)) = r.used
           /\ Contents(r) = [j \in 1..r.used |-> r.slot[Mod(r.size, r.gpos + j)]]
<1>1. ASSUME NEW m \in 0..r.used
      PROVE  /\ Peek(r, m) \in Seq(Cell) /\ Len(Peek(r, m)) = m
             /\ Peek(r, m) = [j \in 1..m |-> r.slot[Mod(r.size, r.gpos + j)]]
    <2>1. Peek(r, m) = [j \in 1..m |-> r.slot[Mod(r.size, r.gpos + j)]]
        BY DEF Peek, Mod
    <2>2. \A j \in 1..m : r.slot[Mod(r.size, r.gpos + j)] \in Cell
        <3> SUFFICES ASSUME NEW j \in 1..m PROVE r.slot[Mod(r.size, r.gpos + j)] \in Cell
            OBVIOUS
        <3>1. r.size \in Nat \ {0} /\ r.gpos + j \in Int /\ r.slot \in [0..(r.size - 1) -> Cell]
            BY DEF IsRing
        <3>2. Mod(r.size, r.gpos + j) \in 0..(r.size - 1)
            BY <3>1, Around
        <3> QED BY <3>1, <3>2
    <2>3. m \in Nat
        BY DEF IsRing
    <2> HIDE DEF Cell
    <2> QED BY <2>1, <2>2, <2>3
<1>2. r.used \in 0..r.used /\ r.used \in Nat
    BY DEF IsRing
<1>3. Contents(r) = Peek(r, r.used)
    BY DEF Contents
<1>4. Contents(r) = [j \in 1..r.used |-> r.slot[Mod(r.size, r.gpos + j)]]
    BY <1>1, <1>2, <1>3
<1>5. \A j \in 1..k : Peek(r, k)[j] = Contents(r)[j]
    BY <1>1, <1>2, <1>4
<1> QED BY <1>1, <1>2, <1>3, <1>4, <1>5

LEMMA PutRing ==
    ASSUME NEW r, IsRing(r), NEW bytes \in Seq(Cell), Len(bytes) <= Room(r)
    PROVE  LET q == Put(r, bytes) IN
           /\ IsRing(q) /\ q.size = r.size /\ q.used = r.used + Len(bytes)
           /\ Contents(q) = Contents(r) \o bytes
<1> DEFINE n == r.size
           m == Len(bytes)
           q == Put(r, bytes)
           slots == [i \in 0..(n - 1) |-> IF Turn(r, i) <= m THEN bytes[Turn(r, i)] ELSE r.slot[i]]
<1>1. /\ n \in Nat \ {0} /\ r.gpos \in 0..(n - 1) /\ r.used \in 0..n /\ m \in Nat
      /\ m <= n - r.used
      /\ r.slot \in [0..(n - 1) -> Cell]
    BY DEF IsRing, Room
<1>2. q = [size |-> n, slot |-> slots, gpos |-> r.gpos, ppos |-> Mod(n, r.ppos + m),
           used |-> r.used + m]
    BY DEF Put, Mod
<1>3. /\ \A i \in 0..(n - 1) : Turn(r, i) \in 1..n
      /\ \A k \in Int : Mod(n, r.gpos + k) \in 0..(n - 1)
      /\ \A k \in 1..r.used : Turn(r, Mod(n, r.gpos + k)) > m
      /\ \A k \in 1..m : Turn(r, Mod(n, r.gpos + (r.used + k))) = k
      /\ Mod(n, r.ppos + m) = Mod(n, r.gpos + (r.used + m))
    <2>1. m \in Nat /\ m <= Room(r)
        BY <1>1
    <2> HIDE DEF m
    <2> QED BY <2>1, RingPlaces
<1>4. slots \in [0..(n - 1) -> Cell]
    <2>1. \A i \in 0..(n - 1) : Turn(r, i) <= m => bytes[Turn(r, i)] \in Cell
        <3> SUFFICES ASSUME NEW i \in 0..(n - 1), Turn(r, i) <= m PROVE bytes[Turn(r, i)] \in Cell
            OBVIOUS
        <3>1. Turn(r, i) \in 1..m
            <4>1. Turn(r, i) \in 1..n
                BY <1>3
            <4> HIDE DEF m
            <4> QED BY <1>1, <4>1
        <3> HIDE DEF Cell
        <3> QED BY <3>1, ElementOfSeq
    <2> QED BY <1>1, <2>1
<1> HIDE DEF q, n, m, slots
<1>5. q.size = n /\ q.slot = slots /\ q.gpos = r.gpos /\ q.ppos = Mod(n, r.ppos + m) /\ q.used = r.used + m
    BY <1>2
<1>6. IsRing(q)
    BY <1>1, <1>2, <1>3, <1>4, <1>5 DEF IsRing, IsShaped
<1>7. /\ Contents(r) \in Seq(Cell) /\ Len(Contents(r)) = r.used
      /\ Contents(r) = [k \in 1..r.used |-> r.slot[Mod(n, r.gpos + k)]]
      /\ Contents(q) \in Seq(Cell) /\ Len(Contents(q)) = r.used + m
      /\ Contents(q) = [k \in 1..(r.used + m) |-> slots[Mod(n, r.gpos + k)]]
    <2>1. 0 \in 0..r.used /\ 0 \in 0..q.used
        BY <1>1, <1>5
    <2> QED BY <1>5, <1>6, <2>1, RingContents DEF n
<1>8. ASSUME NEW k \in 1..(r.used + m)
      PROVE  Contents(q)[k] = IF k <= r.used THEN Contents(r)[k] ELSE bytes[k - r.used]
    <2> DEFINE i == Mod(n, r.gpos + k)
    <2>1. k \in Int /\ i \in 0..(n - 1)
        <3>1. k \in Int
            BY <1>1
        <3> QED BY <1>3, <3>1
    <2>2. Contents(q)[k] = slots[i]
        BY <1>7
    <2>3. CASE k <= r.used
        <3>1. k \in 1..r.used
            BY <1>1, <2>3
        <3>2. Turn(r, i) > m /\ Turn(r, i) \in Int
            <4>1. Turn(r, i) > m
                BY <1>3, <3>1
            <4>2. Turn(r, i) \in 1..n
                BY <1>3, <2>1
            <4> QED BY <1>1, <4>1, <4>2
        <3>3. slots[i] = r.slot[i]
            BY <1>1, <2>1, <3>2 DEF slots
        <3> QED BY <1>7, <2>2, <2>3, <3>1, <3>3
    <2>4. CASE k > r.used
        <3> DEFINE j == k - r.used
        <3>1. j \in 1..m /\ k = r.used + j /\ ~(k <= r.used)
            BY <1>1, <2>4
        <3>2. Turn(r, i) = j
            BY <1>3, <3>1
        <3>3. slots[i] = bytes[j]
            BY <1>1, <2>1, <3>1, <3>2 DEF slots
        <3> QED BY <2>2, <3>1, <3>3
    <2> QED BY <1>1, <2>3, <2>4
<1>9. Contents(q) = Contents(r) \o bytes
    <2> DEFINE both == Contents(r) \o bytes
    <2>1. /\ both \in Seq(Cell) /\ Len(both) = r.used + m
          /\ \A k \in 1..(r.used + m) : both[k] = IF k <= r.used THEN Contents(r)[k] ELSE bytes[k - r.used]
        BY <1>1, <1>7 DEF m
    <2> HIDE DEF both, Cell
    <2>2. Len(both) = Len(Contents(q)) /\ \A k \in 1..Len(both) : both[k] = Contents(q)[k]
        BY <1>7, <1>8, <2>1
    <2> QED BY <1>7, <2>1, <2>2, SeqEqual DEF both
<1> QED BY <1>5, <1>6, <1>9 DEF q, m, n

LEMMA TakeRing ==
    ASSUME NEW r, IsRing(r), NEW m \in 0..r.used
    PROVE  LET q == Take(r, m) IN
           /\ IsRing(q) /\ q.size = r.size /\ q.used = r.used - m
           /\ Contents(q) = SubSeq(Contents(r), m + 1, r.used)
<1> DEFINE n == r.size
           h == r.gpos
           w == r.used
           q == Take(r, m)
           slots == [i \in 0..(n - 1) |-> IF Taken(r, i, m) THEN Blank ELSE r.slot[i]]
<1>1. /\ n \in Nat \ {0} /\ h \in 0..(n - 1) /\ w \in 0..n /\ m \in 0..w
      /\ r.ppos = Mod(n, h + w) /\ r.slot \in [0..(n - 1) -> Cell]
    BY DEF IsRing
<1>2. q = [size |-> n, slot |-> slots, gpos |-> Mod(n, h + m), ppos |-> r.ppos, used |-> w - m]
    BY DEF Take, Mod
<1>3. slots \in [0..(n - 1) -> Cell]
    BY <1>1 DEF Cell
<1>4. \A i : Taken(r, i, m) <=> Mod(n, i - h - 1) < m
    BY DEF Taken, Mod
<1> HIDE DEF q, n, h, w, slots
<1>0. n \in Nat \ {0} /\ h \in 0..(n - 1) /\ w \in 0..n /\ m \in 0..w
    BY <1>1
<1>5. q.size = n /\ q.slot = slots /\ q.gpos = Mod(n, h + m) /\ q.ppos = r.ppos /\ q.used = w - m
    BY <1>2
<1>6. Mod(n, h + m) \in 0..(n - 1) /\ Mod(n, h + m) = IF h + m < n THEN h + m ELSE h + m - n
    BY <1>1, Around
<1>7. \A j \in 1..(w - m) : Mod(n, Mod(n, h + m) + j) = Mod(n, h + (m + j))
    <2> SUFFICES ASSUME NEW j \in 1..(w - m)
                 PROVE  Mod(n, Mod(n, h + m) + j) = Mod(n, h + (m + j))
        OBVIOUS
    <2> DEFINE a == Mod(n, h + m)
    <2>1. a \in 0..(n - 1) /\ a = IF h + m < n THEN h + m ELSE h + m - n
        BY <1>6
    <2> HIDE DEF a
    <2>2. Mod(n, h + (m + j)) = IF h + m + j < n THEN h + m + j ELSE h + m + j - n
        <3>1. h + (m + j) \in Int /\ 0 <= h + (m + j) /\ h + (m + j) < 2 * n
            BY <1>0
        <3> QED BY <1>0, <3>1, Around
    <2>3. Mod(n, a + j) \in Int /\ (a + j < n => Mod(n, a + j) = a + j)
          /\ (a + j >= n => Mod(n, a + j) = a + j - n)
        <3> DEFINE b == a + j
        <3>1. b \in Int /\ 0 <= b /\ b < 2 * n
            BY <1>0, <2>1
        <3> HIDE DEF b
        <3>2. Mod(n, b) \in Int /\ (b < n => Mod(n, b) = b) /\ (b >= n => Mod(n, b) = b - n)
            BY <1>0, <3>1, Around
        <3> QED BY <1>0, <2>1, <3>2 DEF b
    <2> QED BY <1>1, <2>1, <2>2, <2>3 DEF a
<1>8. Mod(n, Mod(n, h + m) + (w - m)) = r.ppos
    <2>1. CASE w = m
        <3>1. Mod(n, h + m) + (w - m) = Mod(n, h + m)
            BY <1>1, <1>6, <2>1
        <3>2. Mod(n, Mod(n, h + m)) = Mod(n, h + m)
            BY <1>1, <1>6, Around
        <3> QED BY <1>1, <2>1, <3>1, <3>2
    <2>2. CASE w # m
        <3>1. w - m \in 1..(w - m) /\ m + (w - m) = w
            BY <1>1, <2>2
        <3> QED BY <1>1, <1>7, <3>1
    <2> QED BY <2>1, <2>2
<1>9. IsRing(q)
    <2>1. w - m \in 0..n
        BY <1>1
    <2> QED BY <1>1, <1>2, <1>3, <1>5, <1>6, <1>8, <2>1 DEF IsRing, IsShaped
<1>10. /\ Contents(r) \in Seq(Cell) /\ Len(Contents(r)) = w
       /\ Contents(r) = [k \in 1..w |-> r.slot[Mod(n, h + k)]]
       /\ Contents(q) \in Seq(Cell) /\ Len(Contents(q)) = w - m
       /\ Contents(q) = [k \in 1..(w - m) |-> slots[Mod(n, Mod(n, h + m) + k)]]
    <2>1. 0 \in 0..r.used /\ 0 \in 0..q.used
        BY <1>1, <1>5 DEF w
    <2>2. /\ Contents(r) \in Seq(Cell) /\ Len(Contents(r)) = w
          /\ Contents(r) = [k \in 1..w |-> r.slot[Mod(n, h + k)]]
        BY <2>1, RingContents DEF n, h, w
    <2>3. /\ Contents(q) \in Seq(Cell) /\ Len(Contents(q)) = q.used
          /\ Contents(q) = [k \in 1..q.used |-> q.slot[Mod(q.size, q.gpos + k)]]
        BY <1>9, <2>1, RingContents
    <2> QED BY <1>5, <2>2, <2>3
<1>11. ASSUME NEW j \in 1..(w - m)
       PROVE  Contents(q)[j] = Contents(r)[m + j]
    <2> DEFINE i == Mod(n, h + (m + j))
    <2>1. i \in 0..(n - 1) /\ i = IF h + m + j < n THEN h + m + j ELSE h + m + j - n
        <3>1. h + (m + j) \in Int /\ 0 <= h + (m + j) /\ h + (m + j) < 2 * n
            BY <1>0
        <3> QED BY <1>0, <3>1, Around
    <2>2. Contents(q)[j] = slots[i] /\ Contents(r)[m + j] = r.slot[i]
        <3>1. m + j \in 1..w
            BY <1>1
        <3> QED BY <1>7, <1>10, <3>1
    <2> HIDE DEF i
    <2> DEFINE k == i - h - 1
    <2>3. k \in Int /\ ((0 <= k /\ k < n /\ k >= m) \/ (-n <= k /\ k < 0 /\ k + n >= m))
        BY <1>1, <2>1
    <2> HIDE DEF k
    <2>4. Mod(n, k) >= m /\ Mod(n, k) \in Int
        <3>1. /\ Mod(n, k) \in 0..(n - 1)
              /\ 0 <= k /\ k < n => Mod(n, k) = k
              /\ -n <= k /\ k < 0 => Mod(n, k) = k + n
            BY <1>1, <2>3, Around
        <3> QED BY <1>1, <2>3, <3>1
    <2>5. ~Taken(r, i, m)
        BY <1>1, <1>4, <2>4 DEF k
    <2>6. slots[i] = r.slot[i]
        BY <2>1, <2>5 DEF slots
    <2> QED BY <2>2, <2>6
<1>12. Contents(q) = SubSeq(Contents(r), m + 1, w)
    <2> DEFINE rest == SubSeq(Contents(r), m + 1, w)
    <2>1. rest \in Seq(Cell) /\ Len(rest) = w - m /\ \A j \in 1..(w - m) : rest[j] = Contents(r)[m + j]
        <3> DEFINE c == Contents(r)
        <3>1. c \in Seq(Cell) /\ Len(c) = w
            BY <1>10
        <3> HIDE DEF c, Cell
        <3>2. \A j \in (m + 1)..w : c[j] \in Cell
            <4>1. \A j \in (m + 1)..w : j \in 1..Len(c)
                BY <1>0, <3>1
            <4> QED BY <3>1, <4>1, ElementOfSeq
        <3>3. SubSeq(c, m + 1, w) \in Seq(Cell) /\ Len(SubSeq(c, m + 1, w)) = w - m
            BY <1>0, <3>2, SubSeqProperties
        <3>4. \A j \in 1..(w - m) : SubSeq(c, m + 1, w)[j] = c[m + j]
            BY <1>0, <3>1
        <3> QED BY <3>3, <3>4 DEF c
    <2> HIDE DEF rest, Cell
    <2>2. Len(rest) = Len(Contents(q)) /\ \A j \in 1..Len(rest) : rest[j] = Contents(q)[j]
        BY <1>10, <1>11, <2>1
    <2> QED BY <1>10, <2>1, <2>2, SeqEqual DEF rest
<1> QED BY <1>5, <1>9, <1>12 DEF q, n, w

-----------------------------------------------------------------------------
(***************************************************************************)
(* Packets and files.                                                      *)
(***************************************************************************)
Sent == Packet \cup Typed \cup File

\* Lengths are numbers, and a header is shorter than any buffer for a file.
LEMMA Lengths ==
    /\ \A p \in Sent : LengthOf(p) \in Nat \ {0}
    /\ \A p \in Packet \cup Typed : LengthOf(p) = Length[p]
    /\ \A f \in File : /\ HeaderOf(f) \in Nat \ {0} /\ HeaderOf(f) <= Header /\ FileSize[f] \in Nat
                       /\ LengthOf(f) = HeaderOf(f) + FileSize[f]
                       /\ f \notin Map => HeaderOf(f) = Header
                       /\ f \in Map => HeaderOf(f) = Header - 1
    /\ \A t \in Typed : LengthOf(t) > 2
<1>1. \A p \in Packet \cup Typed : p \notin File /\ Length[p] \in Nat \ {0}
    BY PacketsAreApart, LengthsAreKnown
<1>2. \A f \in File : HeaderOf(f) \in Nat \ {0} /\ HeaderOf(f) <= Header /\ FileSize[f] \in Nat
    BY LengthsAreKnown DEF HeaderOf
<1>3. \A f \in File : (f \notin Map => HeaderOf(f) = Header) /\ (f \in Map => HeaderOf(f) = Header - 1)
    BY DEF HeaderOf
<1>4. \A f \in File : LengthOf(f) = HeaderOf(f) + FileSize[f]
    BY DEF LengthOf
<1>5. \A p \in Packet \cup Typed : LengthOf(p) = Length[p]
    BY <1>1 DEF LengthOf
<1>6. \A f \in File : LengthOf(f) \in Nat \ {0}
    BY <1>2, <1>4
<1> QED BY <1>1, <1>2, <1>3, <1>4, <1>5, <1>6, LengthsAreKnown DEF Sent

LEMMA SizesArePositive ==
    /\ Size \in Nat \ {0} /\ RecvSize \in Nat \ {0} /\ Header < Size
    /\ \A n \in Sizes : n \in Nat \ {0}
<1>1. \A n \in Sizes : n \in Nat \ {0}
    BY DEF Sizes
<1> QED BY <1>1, BuffersAreSized

\* The buffer for a file is large enough for it.
LEMMA CapacityFits ==
    ASSUME NEW f \in File
    PROVE  /\ Capacity(f) \in Nat \ {0} /\ Header < Capacity(f)
           /\ FileSize[f] + Header <= Capacity(f)
<1> DEFINE d == FileSize[f] + Header
           Fits(size) == size >= d /\ (size = Size \/ size < 2 * d)
<1>1. d \in Nat /\ Size \in Nat \ {0} /\ d <= 65536 * Size
    BY LengthsAreKnown, SizesArePositive, FilesFit
<1>2. \E n \in Sizes : Fits(Size * n)
    <2> HIDE DEF d
    <2>1. CASE d <= Size * 16
        BY <1>1, <2>1 DEF Sizes
    <2>2. CASE d > Size * 16 /\ d <= Size * 512
        BY <1>1, <2>2 DEF Sizes
    <2>3. CASE d > Size * 512 /\ d <= Size * 8192
        BY <1>1, <2>3 DEF Sizes
    <2>4. CASE d > Size * 8192
        BY <1>1, <2>4 DEF Sizes
    <2> QED BY <1>1, <2>1, <2>2, <2>3, <2>4
<1>3. \E size \in {Size * n : n \in Sizes} : Fits(size)
    BY <1>2
<1>4. Capacity(f) = CHOOSE size \in {Size * n : n \in Sizes} : Fits(size)
    BY DEF Capacity
<1> HIDE DEF Fits
<1>5. Capacity(f) \in {Size * n : n \in Sizes} /\ Fits(Capacity(f))
    BY <1>3, <1>4
<1>6. PICK n \in Sizes : Capacity(f) = Size * n
    BY <1>5
<1>7. Capacity(f) \in Nat \ {0} /\ Capacity(f) >= Size
    <2>1. n \in Nat \ {0}
        BY <1>6, SizesArePositive
    <2>2. Size * n \in Nat /\ Size * n >= Size
        BY <1>1, <2>1
    <2> QED BY <1>1, <1>6, <2>2
<1>8. Header < Capacity(f)
    BY <1>1, <1>7, SizesArePositive, LengthsAreKnown
<1> QED BY <1>5, <1>7, <1>8 DEF Fits

LEMMA Cells ==
    /\ \A b \in Byte : b # Blank /\ b # None /\ b[1] \in Sent /\ b[2] \in Nat \ {0} /\ b = <<b[1], b[2]>>
    /\ \A p \in Sent, k \in Nat \ {0} : <<p, k>> \in Byte
    /\ \A c \in Cell : c = Blank \/ c \in Byte
<1>1. \A b \in Byte : b \in Sent \X Nat /\ b[1] \in Sent /\ b[2] \in Nat \ {0} /\ b = <<b[1], b[2]>>
    BY DEF Byte, Sent
<1>2. \A b \in Byte : b # Blank /\ b # None
    BY <1>1, NothingIsNoByte DEF Sent
<1>3. \A p \in Sent, k \in Nat \ {0} : <<p, k>> \in Byte
    BY DEF Byte, Sent
<1> QED BY <1>1, <1>2, <1>3 DEF Cell

\* A stream begins with a packet.
Fresh(s) == s # <<>> => First(s[1])

\* What comes after any part of a stream is in order, and begins with a packet if the
\* part has ended.
LEMMA SuffixInOrder ==
    ASSUME NEW s \in Seq(Cell), InOrder(s), NEW m \in 0..Len(s)
    PROVE  LET rest == SubSeq(s, m + 1, Len(s)) IN
           /\ rest \in Seq(Cell) /\ InOrder(rest)
           /\ (m # 0 /\ Ends(s[m])) => Fresh(rest)
<1> DEFINE n == Len(s)
           rest == SubSeq(s, m + 1, n)
<1>1. n \in Nat /\ m \in 0..n
    BY LenProperties
<1>2. \A i \in (m + 1)..n : s[i] \in Cell
    <2>1. \A i \in (m + 1)..n : i \in 1..n
        BY <1>1
    <2> QED BY <2>1, ElementOfSeq
<1>3. /\ rest \in Seq(Cell) /\ Len(rest) = n - m
      /\ \A i \in 1..(n - m) : rest[i] = s[m + i]
    <2> HIDE DEF Cell
    <2>1. rest \in Seq(Cell) /\ Len(rest) = IF m + 1 <= n THEN n - (m + 1) + 1 ELSE 0
        BY <1>1, <1>2, SubSeqProperties
    <2>2. \A i \in 1..(n - (m + 1) + 1) : rest[i] = s[(m + 1) + i - 1]
        BY <1>1, <1>2, SubSeqProperties
    <2>3. \A i \in 1..(n - m) : rest[i] = s[m + i]
        BY <1>1, <2>2
    <2> QED BY <1>1, <2>1, <2>3
<1> HIDE DEF rest, n
<1>4. InOrder(rest)
    <2>1. \A i \in 2..(n - m) : Follows(rest[i - 1], rest[i])
        <3> SUFFICES ASSUME NEW i \in 2..(n - m) PROVE Follows(rest[i - 1], rest[i])
            OBVIOUS
        <3>1. rest[i - 1] = s[m + (i - 1)] /\ rest[i] = s[m + i] /\ m + i \in 2..n
            BY <1>1, <1>3
        <3>2. Follows(s[(m + i) - 1], s[m + i])
            BY <3>1 DEF InOrder, n
        <3> QED BY <1>1, <3>1, <3>2
    <2>2. rest # <<>> => Ends(rest[n - m])
        <3>1. CASE n = m
            BY <1>3, <3>1
        <3>2. CASE n # m
            <4>1. n - m \in 1..(n - m) /\ m + (n - m) = n /\ n # 0
                BY <1>1, <3>2
            <4>2. rest[n - m] = s[n] /\ s # <<>>
                BY <1>3, <4>1 DEF n
            <4> QED BY <4>2 DEF InOrder, n
        <3> QED BY <3>1, <3>2
    <2> QED BY <1>3, <2>1, <2>2 DEF InOrder
<1>5. (m # 0 /\ Ends(s[m])) => Fresh(rest)
    <2> SUFFICES ASSUME m # 0, Ends(s[m]), rest # <<>> PROVE First(rest[1])
        BY DEF Fresh
    <2>1. m + 1 \in 2..n /\ rest[1] = s[m + 1]
        <3>1. n - m # 0
            BY <1>3
        <3> QED BY <1>1, <1>3, <3>1
    <2>2. Follows(s[(m + 1) - 1], s[m + 1]) /\ (m + 1) - 1 = m
        BY <1>1, <2>1 DEF InOrder, n
    <2>3. \A a, b : Follows(a, b) /\ Ends(a) =>
              First(b) \/ (a # Blank /\ Full(a[1]) /\ a[2] = LengthOf(a[1]) - 1)
        BY Zenon DEF Follows
    <2>4. m \in 1..n
        BY <1>1
    <2>5. ~(s[m] # Blank /\ Full(s[m][1]) /\ s[m][2] = LengthOf(s[m][1]) - 1)
        <3> SUFFICES ASSUME s[m] # Blank, s[m][2] = LengthOf(s[m][1]) - 1 PROVE FALSE
            OBVIOUS
        <3>1. s[m] \in Byte
            BY <2>4, Cells, ElementOfSeq DEF n
        <3>2. LengthOf(s[m][1]) \in Nat
            BY <3>1, Cells, Lengths
        <3>3. s[m][2] = LengthOf(s[m][1])
            BY DEF Ends, Last
        <3> QED BY <3>2, <3>3
    <2> QED BY <2>1, <2>2, <2>3, <2>5
<1> QED BY <1>3, <1>4, <1>5 DEF rest, n

\* One stream after another.
LEMMA JoinInOrder ==
    ASSUME NEW s \in Seq(Cell), NEW t \in Seq(Cell), InOrder(s), InOrder(t), Fresh(t)
    PROVE  /\ s \o t \in Seq(Cell) /\ InOrder(s \o t)
           /\ Fresh(s) => Fresh(s \o t)
<1> DEFINE m == Len(s)
           n == Len(t)
           both == s \o t
<1>1. m \in Nat /\ n \in Nat
    BY LenProperties
<1>2. /\ both \in Seq(Cell) /\ Len(both) = m + n
      /\ \A i \in 1..(m + n) : both[i] = IF i <= m THEN s[i] ELSE t[i - m]
    <2> HIDE DEF Cell
    <2> QED BY ConcatProperties
<1> HIDE DEF both, m, n
<1>3. \A i \in 2..(m + n) : Follows(both[i - 1], both[i])
    <2> SUFFICES ASSUME NEW i \in 2..(m + n) PROVE Follows(both[i - 1], both[i])
        OBVIOUS
    <2>0. i - 1 \in 1..(m + n) /\ i \in 1..(m + n)
        BY <1>1
    <2>1. CASE i <= m
        <3>1. both[i - 1] = s[i - 1] /\ both[i] = s[i] /\ i \in 2..m
            BY <1>1, <1>2, <2>0, <2>1
        <3> QED BY <3>1 DEF InOrder, m
    <2>2. CASE i > m + 1
        <3>1. both[i - 1] = t[(i - m) - 1] /\ both[i] = t[i - m] /\ i - m \in 2..n
            <4>1. ~(i <= m) /\ ~(i - 1 <= m) /\ (i - 1) - m = (i - m) - 1
                BY <1>1, <2>2
            <4>2. both[i - 1] = t[(i - 1) - m]
                BY <1>2, <2>0, <4>1
            <4>3. both[i] = t[i - m]
                BY <1>2, <2>0, <4>1
            <4>4. i - m \in 2..n
                BY <1>1, <2>2
            <4> QED BY <4>1, <4>2, <4>3, <4>4
        <3> QED BY <3>1 DEF InOrder, n
    <2>3. CASE i = m + 1
        <3>1. both[i - 1] = s[m] /\ both[i] = t[1] /\ m # 0 /\ n # 0
            <4>1. ~(i <= m) /\ i - 1 <= m /\ i - m = 1 /\ i - 1 = m
                BY <1>1, <2>3
            <4>2. both[i - 1] = s[i - 1]
                BY <1>2, <2>0, <4>1
            <4>3. both[i] = t[i - m]
                BY <1>2, <2>0, <4>1
            <4>4. m # 0 /\ n # 0
                BY <1>1, <2>3
            <4> QED BY <4>1, <4>2, <4>3, <4>4
        <3>2. s # <<>> /\ t # <<>>
            BY <3>1 DEF m, n
        <3>3. Ends(s[m]) /\ First(t[1])
            BY <3>2 DEF InOrder, Fresh, m
        <3> QED BY <3>1, <3>3 DEF Follows
    <2> QED BY <1>1, <2>1, <2>2, <2>3
<1>4. both # <<>> => Ends(both[m + n])
    <2> SUFFICES ASSUME both # <<>> PROVE Ends(both[m + n])
        OBVIOUS
    <2>1. m + n # 0
        BY <1>1, <1>2, EmptySeq
    <2>2. m + n \in 1..(m + n)
        BY <1>1, <2>1
    <2>3. CASE n = 0
        <3>1. both[m + n] = s[m] /\ s # <<>>
            BY <1>1, <1>2, <2>1, <2>2, <2>3 DEF m
        <3> QED BY <3>1 DEF InOrder, m
    <2>4. CASE n # 0
        <3>1. both[m + n] = t[n] /\ t # <<>>
            <4>1. ~(m + n <= m) /\ (m + n) - m = n
                BY <1>1, <2>4
            <4> QED BY <1>2, <2>2, <2>4, <4>1 DEF n
        <3> QED BY <3>1 DEF InOrder, n
    <2> QED BY <2>3, <2>4
<1>5. Fresh(s) => Fresh(both)
    <2> SUFFICES ASSUME Fresh(s), both # <<>> PROVE First(both[1])
        BY DEF Fresh
    <2>1. m + n # 0
        BY <1>1, <1>2, EmptySeq
    <2>2. CASE m = 0
        <3>1. both[1] = t[1] /\ t # <<>>
            <4>1. 1 \in 1..(m + n) /\ ~(1 <= m) /\ 1 - m = 1 /\ n # 0
                BY <1>1, <2>1, <2>2
            <4> QED BY <1>2, <4>1 DEF n
        <3> QED BY <3>1 DEF Fresh
    <2>3. CASE m # 0
        <3>1. both[1] = s[1] /\ s # <<>>
            <4>1. 1 \in 1..(m + n) /\ 1 <= m
                BY <1>1, <2>1, <2>3
            <4> QED BY <1>2, <2>3, <4>1 DEF m
        <3> QED BY <3>1 DEF Fresh
    <2> QED BY <2>2, <2>3
<1> QED BY <1>2, <1>3, <1>4, <1>5 DEF InOrder, both

\* The rest of a packet is in order.
LEMMA WholeInOrder ==
    ASSUME NEW p \in Sent, NEW m \in 1..LengthOf(p)
    PROVE  LET s == Bytes(p, m, LengthOf(p)) IN
           /\ s \in Seq(Byte) /\ Len(s) = LengthOf(p) - m + 1
           /\ \A k \in 1..Len(s) : s[k] = <<p, m + k - 1>>
           /\ InOrder(s) /\ (m = 1 => Fresh(s))
<1> DEFINE n == LengthOf(p)
           s == Bytes(p, m, n)
<1>1. n \in Nat \ {0} /\ m \in 1..n
    BY Lengths
<1> HIDE DEF n
<1>2. s = [k \in 1..(n - m + 1) |-> <<p, m + k - 1>>]
    BY DEF Bytes
<1>3. \A k \in 1..(n - m + 1) : <<p, m + k - 1>> \in Byte
    BY <1>1, Cells
<1>4. s \in Seq(Byte) /\ Len(s) = n - m + 1 /\ \A k \in 1..(n - m + 1) : s[k] = <<p, m + k - 1>>
    <2>1. n - m + 1 \in Nat
        BY <1>1
    <2> HIDE DEF s
    <2> QED BY <1>2, <1>3, <2>1
<1> HIDE DEF s
<1>5. \A k \in 1..(n - m + 1) : s[k] \in Byte /\ s[k] # Blank /\ s[k][1] = p /\ s[k][2] = m + k - 1
    BY <1>3, <1>4, Cells
<1>6. \A k \in 2..(n - m + 1) : Follows(s[k - 1], s[k])
    <2> SUFFICES ASSUME NEW k \in 2..(n - m + 1) PROVE Follows(s[k - 1], s[k])
        OBVIOUS
    <2>1. k - 1 \in 1..(n - m + 1) /\ k \in 1..(n - m + 1) /\ m + (k - 1) - 1 < n
          /\ (m + (k - 1) - 1) + 1 = m + k - 1
        BY <1>1
    <2>2. ~Ends(s[k - 1])
        BY <1>1, <1>5, <2>1 DEF Ends, Last, n
    <2>3. s[k] = <<s[k - 1][1], s[k - 1][2] + 1>>
        BY <1>4, <1>5, <2>1
    <2> QED BY <2>2, <2>3 DEF Follows
<1>7. n - m + 1 \in 1..(n - m + 1) /\ m + (n - m + 1) - 1 = n
    BY <1>1
<1>8. Ends(s[n - m + 1])
    BY <1>5, <1>7 DEF Ends, Last, n
<1>9. m = 1 => First(s[1])
    <2>1. 1 \in 1..(n - m + 1) /\ m + 1 - 1 = m
        BY <1>1
    <2> QED BY <1>5, <2>1 DEF First
<1> QED BY <1>4, <1>6, <1>8, <1>9 DEF InOrder, Fresh, s, n

\* A file of which T bytes were put in its buffer and m have left it.
FileByte(f, T, k) == IF k <= T /\ k = Capacity(f) THEN Blank ELSE <<f, k>>
FileRest(f, T, m) == [i \in 1..(LengthOf(f) - m) |-> FileByte(f, T, m + i)]

\* Only the last byte of a file that fills its buffer is not there.
LEMMA FileBytes ==
    ASSUME NEW f \in File, NEW T \in Nat, NEW k \in 1..LengthOf(f)
    PROVE  /\ FileByte(f, T, k) \in Cell
           /\ k < LengthOf(f) => FileByte(f, T, k) = <<f, k>> /\ ~Ends(FileByte(f, T, k))
           /\ k = LengthOf(f) => Ends(FileByte(f, T, k))
           /\ FileByte(f, T, k) # <<f, k>> => FileByte(f, T, k) = Blank /\ k = LengthOf(f) /\ Full(f)
           /\ LengthOf(f) <= Capacity(f)
           /\ k = 1 => FileByte(f, T, k) = <<f, 1>>
<1>1. LengthOf(f) \in Nat \ {0} /\ HeaderOf(f) \in Nat /\ HeaderOf(f) <= Header /\ FileSize[f] \in Nat
      /\ LengthOf(f) = HeaderOf(f) + FileSize[f] /\ Header \in Nat \ {0, 1}
    BY Lengths, LengthsAreKnown DEF Sent
<1>2. Capacity(f) \in Nat /\ FileSize[f] + Header <= Capacity(f) /\ Header < Capacity(f)
    BY CapacityFits
<1>3. LengthOf(f) <= Capacity(f)
    BY <1>1, <1>2
<1>4. f \in Sent
    BY DEF Sent
<1>5. <<f, k>> \in Byte /\ <<f, k>> # Blank /\ <<f, k>>[1] = f /\ <<f, k>>[2] = k
    BY <1>1, <1>4, Cells
<1>6. k = Capacity(f) => k = LengthOf(f) /\ Full(f) /\ k # 1
    <2> SUFFICES ASSUME k = Capacity(f) PROVE k = LengthOf(f) /\ Full(f) /\ k # 1
        OBVIOUS
    <2>1. k = LengthOf(f) /\ FileSize[f] + Header = Capacity(f) /\ HeaderOf(f) = Header /\ k # 1
        BY <1>1, <1>2, <1>3
    <2>2. f \notin Map
        BY <1>1, <2>1, Lengths
    <2> QED BY <2>1, <2>2 DEF Full
<1>7. Ends(<<f, k>>) <=> k = LengthOf(f)
    BY <1>5 DEF Ends, Last
<1>8. Ends(Blank)
    BY DEF Ends
<1>9. FileByte(f, T, k) = <<f, k>> \/ (FileByte(f, T, k) = Blank /\ k = Capacity(f))
    BY DEF FileByte
<1>10. Blank \in Cell /\ <<f, k>> \in Cell
    BY <1>5 DEF Cell
<1> QED BY <1>1, <1>3, <1>6, <1>7, <1>8, <1>9, <1>10

LEMMA FileRestInOrder ==
    ASSUME NEW f \in File, NEW T \in Nat, NEW m \in 0..LengthOf(f)
    PROVE  LET s == FileRest(f, T, m) IN
           /\ s \in Seq(Cell) /\ Len(s) = LengthOf(f) - m
           /\ \A k \in 1..Len(s) : s[k] = FileByte(f, T, m + k)
           /\ InOrder(s) /\ (m = 0 => Fresh(s))
<1> DEFINE n == LengthOf(f)
           s == FileRest(f, T, m)
<1>1. n \in Nat \ {0} /\ m \in 0..n
    BY Lengths DEF Sent
<1> HIDE DEF n
<1>2. s = [i \in 1..(n - m) |-> FileByte(f, T, m + i)]
    BY DEF FileRest, n
<1>3. \A k \in 1..(n - m) : m + k \in 1..n
    BY <1>1
<1>4. \A k \in 1..(n - m) : FileByte(f, T, m + k) \in Cell
    BY <1>3, FileBytes DEF n
<1>5. s \in Seq(Cell) /\ Len(s) = n - m /\ \A k \in 1..(n - m) : s[k] = FileByte(f, T, m + k)
    <2>1. n - m \in Nat
        BY <1>1
    <2> HIDE DEF s, Cell
    <2> QED BY <1>2, <1>4, <2>1
<1> HIDE DEF s
<1>6. \A k \in 2..(n - m) : Follows(s[k - 1], s[k])
    <2> SUFFICES ASSUME NEW k \in 2..(n - m) PROVE Follows(s[k - 1], s[k])
        OBVIOUS
    <2> DEFINE a == FileByte(f, T, m + (k - 1))
               b == FileByte(f, T, m + k)
    <2>1. k - 1 \in 1..(n - m) /\ k \in 1..(n - m) /\ m + (k - 1) \in 1..n /\ m + (k - 1) < n
          /\ (m + (k - 1)) + 1 = m + k /\ m + k \in 1..n
        BY <1>1
    <2>2. s[k - 1] = a /\ s[k] = b
        BY <1>5, <2>1
    <2>3. a = <<f, m + (k - 1)>> /\ ~Ends(a)
        BY <2>1, FileBytes DEF n
    <2>4. a[1] = f /\ a[2] = m + (k - 1) /\ a # Blank
        BY <2>3 DEF Ends
    <2>5. b = <<f, m + k>> \/ (b = Blank /\ m + k = n /\ Full(f))
        BY <2>1, FileBytes DEF n
    <2> HIDE DEF a, b
    <2>6. b = <<a[1], a[2] + 1>> \/ (b = Blank /\ a[2] = n - 1 /\ Full(a[1]))
        BY <1>1, <2>1, <2>4, <2>5
    <2> QED BY <2>2, <2>3, <2>4, <2>6 DEF Follows, n
<1>7. s # <<>> => Ends(s[n - m])
    <2> SUFFICES ASSUME s # <<>> PROVE Ends(s[n - m])
        OBVIOUS
    <2>1. n - m # 0
        BY <1>5, EmptySeq
    <2>2. n - m \in 1..(n - m) /\ m + (n - m) = n /\ n \in 1..n
        BY <1>1, <2>1
    <2>3. s[n - m] = FileByte(f, T, n)
        BY <1>5, <2>2
    <2> QED BY <2>2, <2>3, FileBytes DEF n
<1>8. m = 0 => Fresh(s)
    <2> SUFFICES ASSUME m = 0 PROVE First(s[1])
        BY DEF Fresh
    <2>1. 1 \in 1..(n - m) /\ m + 1 = 1 /\ 1 \in 1..n
        BY <1>1
    <2>2. s[1] = <<f, 1>>
        BY <1>5, <2>1, FileBytes DEF n
    <2>3. <<f, 1>> # Blank
        BY Cells DEF Sent
    <2> QED BY <2>2, <2>3 DEF First
<1> QED BY <1>5, <1>6, <1>7, <1>8 DEF InOrder, s, n

-----------------------------------------------------------------------------
(***************************************************************************)
(* The buffer of a file, of which T bytes were put and which does not go   *)
(* round.                                                                  *)
(***************************************************************************)

\* How many bytes were put when the file was read so far.
Filled(f, pos) == HeaderOf(f) + pos

\* Its first place is not used, and what was taken has left its place blank.
IsUpload(r, f, pos) ==
    /\ IsShaped(r)
    /\ r.size = Capacity(f) /\ r.ppos = Filled(f, pos) /\ r.used \in 0..Filled(f, pos)
    /\ r.gpos = Mod(r.size, Filled(f, pos) - r.used)
    /\ r.slot = [i \in 0..(r.size - 1) |->
                    IF Filled(f, pos) - r.used < i /\ i <= Filled(f, pos) THEN <<f, i>> ELSE Blank]

LEMMA UploadSizes ==
    ASSUME NEW f \in File, NEW pos \in 0..FileSize[f]
    PROVE  /\ Filled(f, pos) \in 1..LengthOf(f) /\ LengthOf(f) \in Nat \ {0}
           /\ Capacity(f) \in Nat \ {0} /\ LengthOf(f) <= Capacity(f)
           /\ pos = FileSize[f] => Filled(f, pos) = LengthOf(f)
<1>1. /\ LengthOf(f) \in Nat \ {0} /\ HeaderOf(f) \in Nat \ {0} /\ HeaderOf(f) <= Header
      /\ FileSize[f] \in Nat /\ LengthOf(f) = HeaderOf(f) + FileSize[f] /\ Header \in Nat
    BY Lengths, LengthsAreKnown DEF Sent
<1>2. Capacity(f) \in Nat \ {0} /\ FileSize[f] + Header <= Capacity(f)
    BY CapacityFits
<1> QED BY <1>1, <1>2 DEF Filled

\* The buffer when the upload begins.
LEMMA UploadStarts ==
    ASSUME NEW f \in File
    PROVE  LET r == Put(Empty(Capacity(f)), Bytes(f, 1, HeaderOf(f))) IN
           IsUpload(r, f, 0) /\ r.used = HeaderOf(f)
<1> DEFINE n == Capacity(f)
           h == HeaderOf(f)
           e == Empty(n)
           bytes == Bytes(f, 1, h)
           r == Put(e, bytes)
           slots == [i \in 0..(n - 1) |-> IF Turn(e, i) <= h THEN bytes[Turn(e, i)] ELSE e.slot[i]]
<1>1. n \in Nat \ {0} /\ h \in Nat \ {0} /\ h < n
    BY Lengths, CapacityFits, LengthsAreKnown
<1>2. e.size = n /\ e.gpos = 0 /\ e.ppos = 0 /\ e.used = 0 /\ e.slot = [i \in 0..(n - 1) |-> Blank]
    BY DEF Empty
<1>3. Len(bytes) = h /\ \A k \in 1..h : bytes[k] = <<f, k>>
    BY <1>1 DEF Bytes
<1>4. \A i : Turn(e, i) = Mod(n, i - e.ppos - 1) + 1
    BY <1>2 DEF Turn, Mod
<1>5. r = [size |-> n, slot |-> slots, gpos |-> 0, ppos |-> Mod(n, e.ppos + h), used |-> e.used + h]
    BY <1>2, <1>3 DEF Put, Mod
<1> HIDE DEF n, h, e, bytes, r, slots
<1>6. Mod(n, e.ppos + h) = h /\ e.used + h = h /\ Mod(n, h - h) = 0
    <2>1. Mod(n, h) = h /\ Mod(n, 0) = 0
        BY <1>1, Around
    <2>2. e.ppos + h = h /\ e.used + h = h /\ h - h = 0
        BY <1>1, <1>2
    <2> QED BY <2>1, <2>2
<1>7. r = [size |-> n, slot |-> slots, gpos |-> 0, ppos |-> h, used |-> h]
    BY <1>5, <1>6
<1>8. r.size = n /\ r.slot = slots /\ r.gpos = 0 /\ r.ppos = h /\ r.used = h
    BY <1>7
<1>9. \A i \in 0..(n - 1) : slots[i] = IF h - h < i /\ i <= h THEN <<f, i>> ELSE Blank
    <2> SUFFICES ASSUME NEW i \in 0..(n - 1)
                 PROVE  slots[i] = IF h - h < i /\ i <= h THEN <<f, i>> ELSE Blank
        OBVIOUS
    <2>1. slots[i] = IF Turn(e, i) <= h THEN bytes[Turn(e, i)] ELSE Blank
        BY <1>2 DEF slots
    <2>2. CASE i = 0
        <3>1. Mod(n, -1) = n - 1
            BY <1>1, Around
        <3>2. i - e.ppos - 1 = -1
            BY <1>2, <2>2
        <3>3. Turn(e, i) = n
            BY <1>1, <1>4, <3>1, <3>2
        <3> QED BY <1>1, <2>1, <2>2, <3>3
    <2>3. CASE i # 0
        <3>1. i - e.ppos - 1 = i - 1 /\ i - 1 \in Int /\ 0 <= i - 1 /\ i - 1 < n
            BY <1>1, <1>2, <2>3
        <3>2. Mod(n, i - 1) = i - 1
            BY <1>1, <3>1, Around
        <3>3. Turn(e, i) = i
            BY <1>4, <3>1, <3>2
        <3> QED BY <1>1, <1>3, <2>1, <2>3, <3>3
    <2> QED BY <2>2, <2>3
<1>10. slots = [i \in 0..(n - 1) |-> IF h - h < i /\ i <= h THEN <<f, i>> ELSE Blank]
    BY Zenon, <1>9 DEF slots
<1>11. Filled(f, 0) = h /\ h \in 0..h
    BY <1>1 DEF Filled, h
<1>12. IsUpload(r, f, 0)
    <2>1. IsShaped(r)
        BY <1>7, <1>8 DEF IsShaped
    <2>2. r.used \in 0..Filled(f, 0) /\ r.ppos = Filled(f, 0) /\ r.gpos = Mod(r.size, Filled(f, 0) - r.used)
        BY <1>6, <1>8, <1>11
    <2>3. r.slot = [i \in 0..(r.size - 1) |->
                       IF Filled(f, 0) - r.used < i /\ i <= Filled(f, 0) THEN <<f, i>> ELSE Blank]
        <3> DEFINE Slots(k, p, u) == [i \in 0..(k - 1) |-> IF p - u < i /\ i <= p THEN <<f, i>> ELSE Blank]
        <3>1. slots = Slots(n, h, h)
            BY <1>10
        <3>2. r.slot = slots /\ r.size = n /\ r.used = h /\ Filled(f, 0) = h
            BY <1>8, <1>11
        <3> HIDE DEF Slots
        <3>3. r.slot = Slots(r.size, Filled(f, 0), r.used)
            BY <3>1, <3>2
        <3> QED BY <3>3 DEF Slots
    <2> QED BY <1>8, <2>1, <2>2, <2>3 DEF IsUpload, n
<1> QED BY <1>8, <1>12 DEF r, e, bytes, h, n

\* More of the file is put after what is there.
LEMMA UploadGoes ==
    ASSUME NEW f \in File, NEW pos \in 0..FileSize[f], NEW r, IsUpload(r, f, pos),
           NEW more \in 0..(FileSize[f] - pos)
    PROVE  LET q == PutBeyond(r, Bytes(f, Filled(f, pos) + 1, Filled(f, pos) + more)) IN
           IsUpload(q, f, pos + more) /\ q.used = r.used + more
<1> DEFINE n == r.size
           T == Filled(f, pos)
           w == r.used
           bytes == Bytes(f, T + 1, T + more)
           q == PutBeyond(r, bytes)
           slots == [i \in 0..(n - 1) |-> IF i - T \in DOMAIN bytes THEN bytes[i - T] ELSE r.slot[i]]
<1>1. /\ n \in Nat \ {0} /\ T \in Nat /\ w \in 0..T /\ r.ppos = T /\ r.gpos = Mod(n, T - w)
      /\ r.slot = [i \in 0..(n - 1) |-> IF T - w < i /\ i <= T THEN <<f, i>> ELSE Blank]
      /\ n = Capacity(f) /\ more \in Nat
    BY UploadSizes, LengthsAreKnown DEF IsUpload
<1>2. Len(bytes) = more /\ DOMAIN bytes = 1..more /\ \A k \in 1..more : bytes[k] = <<f, T + k>>
    <2>1. T + more - (T + 1) + 1 = more /\ \A k \in 1..more : T + 1 + k - 1 = T + k
        BY <1>1
    <2> HIDE DEF T
    <2>2. bytes = [k \in 1..((T + more) - (T + 1) + 1) |-> <<f, (T + 1) + k - 1>>]
        BY Zenon DEF Bytes
    <2> HIDE DEF bytes
    <2> QED BY <1>1, <2>1, <2>2
<1>3. q = [size |-> n, slot |-> slots, gpos |-> r.gpos, ppos |-> T + more, used |-> w + more]
    BY <1>1, <1>2 DEF PutBeyond
<1>4. Filled(f, pos + more) = T + more
    <2>1. HeaderOf(f) \in Nat /\ pos \in Nat
        BY Lengths
    <2> QED BY <1>1, <2>1 DEF Filled
<1> HIDE DEF n, T, w, bytes, q, slots
<1>5. q.size = n /\ q.slot = slots /\ q.gpos = r.gpos /\ q.ppos = T + more /\ q.used = w + more
    BY <1>3
<1>6. (T + more) - (w + more) = T - w /\ w + more \in 0..(T + more)
    <2>1. T \in Nat /\ w \in 0..T /\ more \in Nat
        BY <1>1
    <2> QED BY <2>1
<1>7. \A i \in 0..(n - 1) : slots[i] = IF T - w < i /\ i <= T + more THEN <<f, i>> ELSE Blank
    <2> SUFFICES ASSUME NEW i \in 0..(n - 1)
                 PROVE  slots[i] = IF T - w < i /\ i <= T + more THEN <<f, i>> ELSE Blank
        OBVIOUS
    <2>1. slots[i] = IF i - T \in 1..more THEN bytes[i - T]
                     ELSE IF T - w < i /\ i <= T THEN <<f, i>> ELSE Blank
        BY <1>1, <1>2 DEF slots
    <2>2. CASE i - T \in 1..more
        <3>1. bytes[i - T] = <<f, T + (i - T)>> /\ T + (i - T) = i /\ T - w < i /\ i <= T + more
            BY <1>1, <1>2, <2>2
        <3> QED BY <2>1, <2>2, <3>1
    <2>3. CASE ~(i - T \in 1..more)
        <3>1. i <= T \/ ~(i <= T + more)
            BY <1>1, <2>3
        <3>2. i <= T => i <= T + more
            BY <1>1
        <3> QED BY <1>1, <2>1, <2>3, <3>1, <3>2
    <2> QED BY <2>2, <2>3
<1>8. slots = [i \in 0..(n - 1) |-> IF T - w < i /\ i <= T + more THEN <<f, i>> ELSE Blank]
    BY Zenon, <1>7 DEF slots
<1>9. IsUpload(q, f, pos + more)
    BY <1>1, <1>3, <1>4, <1>5, <1>6, <1>8 DEF IsUpload, IsShaped
<1> QED BY <1>5, <1>9 DEF q, w, bytes, T

\* The socket takes some of the file.
LEMMA UploadTaken ==
    ASSUME NEW f \in File, NEW pos \in 0..FileSize[f], NEW r, IsUpload(r, f, pos), NEW m \in 0..r.used
    PROVE  LET q == Take(r, m) IN
           IsUpload(q, f, pos) /\ q.used = r.used - m
<1> DEFINE n == r.size
           T == Filled(f, pos)
           w == r.used
           g == r.gpos
           q == Take(r, m)
           slots == [i \in 0..(n - 1) |-> IF Taken(r, i, m) THEN Blank ELSE r.slot[i]]
<1>1. /\ r.ppos = T /\ r.slot = [i \in 0..(n - 1) |-> IF T - w < i /\ i <= T THEN <<f, i>> ELSE Blank]
      /\ n = Capacity(f)
    BY DEF IsUpload
<1>2. n \in Nat \ {0} /\ T \in 1..n /\ w \in 0..T /\ g = Mod(n, T - w) /\ m \in 0..w
    BY UploadSizes DEF IsUpload
<1>3. q = [size |-> n, slot |-> slots, gpos |-> Mod(n, g + m), ppos |-> T, used |-> w - m]
    BY <1>1 DEF Take, Mod
<1>4. \A i : Taken(r, i, m) <=> Mod(n, i - g - 1) < m
    BY DEF Taken, Mod
<1> HIDE DEF n, T, w, g, q, slots
<1>5. q.size = n /\ q.slot = slots /\ q.gpos = Mod(n, g + m) /\ q.ppos = T /\ q.used = w - m
    BY <1>3
<1>6. g \in 0..(n - 1) /\ (T - w < n => g = T - w) /\ (T - w = n => g = 0 /\ w = 0 /\ m = 0)
    <2>1. CASE T - w < n
        BY <1>2, <2>1, Around
    <2>2. CASE T - w = n
        <3>1. T - w \in Int /\ n <= T - w /\ T - w < 2 * n /\ T - w - n = 0 /\ w = 0 /\ m = 0
            BY <1>2, <2>2
        <3> QED BY <1>2, <2>2, <3>1, Around
    <2> QED BY <1>2, <2>1, <2>2
<1>7. T - (w - m) = (T - w) + m /\ w - m \in 0..T
    BY <1>2
<1>8. Mod(n, g + m) = Mod(n, T - (w - m))
    <2>1. CASE T - w < n
        BY <1>2, <1>6, <1>7, <2>1
    <2>2. CASE T - w = n
        <3>1. g + m = g /\ T - (w - m) = T - w
            BY <1>2, <1>6, <2>2
        <3>2. Mod(n, g) = g
            BY <1>2, <1>6, Around
        <3> QED BY <1>2, <3>1, <3>2
    <2> QED BY <1>2, <2>1, <2>2
<1>9. \A i \in 0..(n - 1) : slots[i] = IF T - (w - m) < i /\ i <= T THEN <<f, i>> ELSE Blank
    <2> SUFFICES ASSUME NEW i \in 0..(n - 1)
                 PROVE  slots[i] = IF T - (w - m) < i /\ i <= T THEN <<f, i>> ELSE Blank
        OBVIOUS
    <2>1. slots[i] = IF Mod(n, i - g - 1) < m THEN Blank
                     ELSE IF T - w < i /\ i <= T THEN <<f, i>> ELSE Blank
        BY <1>1, <1>4 DEF slots
    <2>2. CASE T - w = n
        <3>1. T - (w - m) = T - w /\ m = 0
            BY <1>2, <1>6, <2>2
        <3>2. Mod(n, i - g - 1) \in 0..(n - 1)
            <4>1. i - g - 1 \in Int
                BY <1>6
            <4> QED BY <1>2, <4>1, Around
        <3>3. ~(Mod(n, i - g - 1) < m)
            BY <3>1, <3>2
        <3> QED BY <2>1, <3>1, <3>3
    <2>3. CASE T - w < n
        <3> DEFINE k == i - g - 1
        <3>1. g = T - w
            BY <1>6, <2>3
        <3>2. CASE i > g
            <4>1. k \in Int /\ 0 <= k /\ k < n
                BY <1>2, <1>6, <3>2
            <4>2. Mod(n, k) = k
                BY <1>2, <4>1, Around
            <4>3. (k < m) <=> ~(T - (w - m) < i)
                BY <1>2, <1>6, <3>1, <3>2
            <4>4. T - w < i
                BY <3>1, <3>2
            <4> QED BY <2>1, <4>2, <4>3, <4>4
        <3>3. CASE ~(i > g)
            <4>1. ~(T - w < i) /\ ~(T - (w - m) < i)
                BY <1>2, <1>6, <3>1, <3>3
            <4> QED BY <2>1, <4>1
        <3> QED BY <3>2, <3>3
    <2> QED BY <1>2, <2>2, <2>3
<1>10. slots = [i \in 0..(n - 1) |-> IF T - (w - m) < i /\ i <= T THEN <<f, i>> ELSE Blank]
    BY Zenon, <1>9 DEF slots
<1>11. IsUpload(q, f, pos)
    BY <1>1, <1>3, <1>5, <1>7, <1>8, <1>10 DEF IsUpload, IsShaped, T
<1> QED BY <1>5, <1>11 DEF q, w

\* What is in the buffer of a file, and what follows.
LEMMA UploadContents ==
    ASSUME NEW f \in File, NEW pos \in 0..FileSize[f], NEW r, IsUpload(r, f, pos)
    PROVE  LET T == Filled(f, pos) IN
           /\ \A k \in 1..r.used : Peek(r, k)[k] = FileByte(f, T, (T - r.used) + k)
           /\ Contents(r) \o Bytes(f, T + 1, LengthOf(f)) = FileRest(f, T, T - r.used)
           /\ Contents(r) \in Seq(Cell) /\ Bytes(f, T + 1, LengthOf(f)) \in Seq(Cell)
<1> DEFINE n == r.size
           T == Filled(f, pos)
           w == r.used
           g == r.gpos
           L == LengthOf(f)
<1>1. /\ r.slot = [i \in 0..(n - 1) |-> IF T - w < i /\ i <= T THEN <<f, i>> ELSE Blank]
      /\ n = Capacity(f)
    BY DEF IsUpload
<1>2. n \in Nat \ {0} /\ L \in Nat /\ L <= n /\ T \in 1..L /\ w \in 0..T /\ g = Mod(n, T - w)
    BY UploadSizes DEF IsUpload
<1>3. \A k : Peek(r, k) = [j \in 1..k |-> r.slot[Mod(n, g + j)]]
    BY DEF Peek, Mod
<1>4. f \in File /\ T \in Nat
    BY <1>2
<1> HIDE DEF n, T, w, g, L
<1>5. ASSUME NEW k \in 1..w
      PROVE  r.slot[Mod(n, g + k)] = FileByte(f, T, (T - w) + k)
    <2>1. T - w \in Int /\ 0 <= T - w /\ T - w < n
        BY <1>2
    <2>2. g = T - w
        BY <1>2, <2>1, Around
    <2>3. CASE g + k < n
        <3>1. g + k \in Int /\ 0 <= g + k /\ g + k \in 0..(n - 1)
            BY <1>2, <2>2, <2>3
        <3>2. Mod(n, g + k) = g + k
            BY <1>2, <2>3, <3>1, Around
        <3>3. T - w < g + k /\ g + k <= T /\ g + k = (T - w) + k /\ g + k # Capacity(f)
            <4>1. g + k # n
                BY <1>2, <2>2, <2>3
            <4>2. T - w < g + k /\ g + k <= T /\ g + k = (T - w) + k
                BY <1>2, <2>2
            <4>3. n = Capacity(f)
                BY <1>1
            <4> QED BY <4>1, <4>2, <4>3
        <3>4. r.slot[g + k] = <<f, g + k>>
            BY <1>1, <3>1, <3>3
        <3>5. FileByte(f, T, g + k) = <<f, g + k>>
            BY <3>3 DEF FileByte
        <3> QED BY <3>2, <3>3, <3>4, <3>5
    <2>4. CASE ~(g + k < n)
        <3>1. g + k = n /\ T = n /\ (T - w) + k = n
            BY <1>2, <2>2, <2>4
        <3>2. Mod(n, g + k) = 0
            <4>1. n \in Int /\ n <= n /\ n < 2 * n /\ n - n = 0
                BY <1>2
            <4> QED BY <1>2, <3>1, <4>1, Around
        <3>3. 0 \in 0..(n - 1) /\ ~(T - w < 0)
            BY <1>2
        <3>4. r.slot[0] = Blank
            BY <1>1, <3>3
        <3>5. FileByte(f, T, n) = Blank
            <4>1. n <= T
                BY <1>2, <3>1
            <4> QED BY <1>1, <4>1 DEF FileByte
        <3> QED BY <3>1, <3>2, <3>4, <3>5
    <2> QED BY <2>3, <2>4
<1>6. \A k \in 1..w : Peek(r, k)[k] = FileByte(f, T, (T - w) + k)
    <2> SUFFICES ASSUME NEW k \in 1..w PROVE Peek(r, k)[k] = FileByte(f, T, (T - w) + k)
        OBVIOUS
    <2>1. k \in 1..k
        BY <1>2
    <2>2. Peek(r, k)[k] = r.slot[Mod(n, g + k)]
        BY <1>3, <2>1
    <2> QED BY <1>5, <2>2
<1>7. Contents(r) = [j \in 1..w |-> FileByte(f, T, (T - w) + j)]
    <2>1. Contents(r) = [j \in 1..w |-> r.slot[Mod(n, g + j)]]
        BY <1>3 DEF Contents, w
    <2> QED BY Zenon, <1>5, <2>1
<1>8. Bytes(f, T + 1, L) = [j \in 1..(L - T) |-> <<f, T + j>>]
    <2>1. L - (T + 1) + 1 = L - T /\ \A j \in 1..(L - T) : T + 1 + j - 1 = T + j
        BY <1>2
    <2>2. Bytes(f, T + 1, L) = [j \in 1..(L - T) |-> <<f, T + 1 + j - 1>>]
        BY <2>1 DEF Bytes
    <2> QED BY <2>1, <2>2
<1>9. /\ Contents(r) \o Bytes(f, T + 1, L) = FileRest(f, T, T - w)
      /\ Contents(r) \in Seq(Cell) /\ Bytes(f, T + 1, L) \in Seq(Cell)
    <2> DEFINE s == Contents(r)
               t == Bytes(f, T + 1, L)
               u == FileRest(f, T, T - w)
    <2>1. T - w \in 0..L /\ L - (T - w) = w + (L - T) /\ L - T \in Nat /\ w \in Nat
        BY <1>2
    <2>2. /\ u \in Seq(Cell) /\ Len(u) = w + (L - T)
          /\ \A k \in 1..Len(u) : u[k] = FileByte(f, T, (T - w) + k)
        BY <1>4, <2>1, FileRestInOrder DEF L
    <2>3. s \in Seq(Cell) /\ Len(s) = w
        <3>1. \A j \in 1..w : (T - w) + j \in 1..L
            BY <1>2
        <3>2. \A j \in 1..w : FileByte(f, T, (T - w) + j) \in Cell
            BY <1>4, <3>1, FileBytes DEF L
        <3> HIDE DEF Cell
        <3> QED BY <1>7, <2>1, <3>2
    <2>4. t \in Seq(Cell) /\ Len(t) = L - T
        <3>1. \A j \in 1..(L - T) : T + j \in Nat \ {0}
            BY <1>2
        <3>2. \A j \in 1..(L - T) : <<f, T + j>> \in Cell
            BY <3>1, Cells DEF Cell, Sent
        <3> HIDE DEF Cell
        <3> QED BY <1>8, <2>1, <3>2
    <2>5. /\ s \o t \in Seq(Cell) /\ Len(s \o t) = w + (L - T)
          /\ \A k \in 1..(w + (L - T)) : (s \o t)[k] = IF k <= w THEN s[k] ELSE t[k - w]
        <3> HIDE DEF s, t, Cell
        <3>1. /\ s \o t \in Seq(Cell) /\ Len(s \o t) = Len(s) + Len(t)
              /\ \A k \in 1..(Len(s) + Len(t)) :
                    (s \o t)[k] = IF k <= Len(s) THEN s[k] ELSE t[k - Len(s)]
            BY <2>3, <2>4, ConcatProperties
        <3> QED BY <2>3, <2>4, <3>1
    <2>6. \A k \in 1..(w + (L - T)) : (s \o t)[k] = u[k]
        <3> SUFFICES ASSUME NEW k \in 1..(w + (L - T)) PROVE (s \o t)[k] = u[k]
            OBVIOUS
        <3> HIDE DEF s, t, u
        <3>1. CASE k <= w
            <4>1. k \in 1..w
                BY <2>1, <3>1
            <4>2. s[k] = FileByte(f, T, (T - w) + k)
                BY <1>7, <4>1 DEF s
            <4> QED BY <2>2, <2>5, <3>1, <4>2
        <3>2. CASE ~(k <= w)
            <4>1. k - w \in 1..(L - T) /\ T + (k - w) = (T - w) + k /\ ~((T - w) + k <= T)
                BY <1>2, <2>1, <3>2
            <4>2. t[k - w] = <<f, (T - w) + k>>
                BY <1>8, <4>1 DEF t
            <4>3. FileByte(f, T, (T - w) + k) = <<f, (T - w) + k>>
                BY <4>1 DEF FileByte
            <4> QED BY <2>2, <2>5, <3>2, <4>2, <4>3
        <3> QED BY <3>1, <3>2
    <2> HIDE DEF s, t, u, Cell
    <2>7. s \o t = u
        BY <2>2, <2>5, <2>6, SeqEqual
    <2> QED BY <2>3, <2>4, <2>7 DEF s, t, u
<1> QED BY <1>6, <1>9 DEF T, w, L

-----------------------------------------------------------------------------
(***************************************************************************)
(* To the player.                                                          *)
(***************************************************************************)

\* A byte that was read of a packet which is not complete, before those to come.
Half(b) == IF b = None THEN <<>> ELSE <<b>>

\* How much of the file has left its buffer.
Away(r, up) == Filled(up.file, up.pos) - r.used

\* A buffer from which packets are read, and what was read last.
Plain(r, b) ==
    /\ InOrder(Half(b) \o Contents(r))
    /\ b = None => Fresh(Contents(r))

\* The buffer of a file, what was read last and the packets that wait.
Filed(r, up, b, rest) ==
    /\ b = IF Away(r, up) \in 1..(LengthOf(up.file) - 1) THEN <<up.file, Away(r, up)>> ELSE None
    /\ InOrder(Contents(rest)) /\ Fresh(Contents(rest))

\* A buffer for packets.
IsBuffer(r) == IsRing(r) /\ r.size = Size

\* The buffers of what is sent: one for packets, or one for a file and the other waiting.
OutGood(r, rest, up, b, lost) ==
    /\ b = None \/ (b \in Byte /\ ~Ends(b))
    /\ up = [file |-> up.file, pos |-> up.pos]
    /\ up.file = None => IsBuffer(r)
    /\ up.file # None =>
          /\ up.file \in File /\ up.pos \in 0..FileSize[up.file]
          /\ IsUpload(r, up.file, up.pos) /\ IsBuffer(rest)
    /\ lost \/ IF up.file = None THEN Plain(r, b) ELSE Filed(r, up, b, rest)

OutInv == OutGood(sending, spare, upload, reading, torn)

LEMMA HalfIsSeq ==
    ASSUME NEW b, b = None \/ (b \in Byte /\ ~Ends(b))
    PROVE  Half(b) \in Seq(Cell)
<1>1. <<>> \in Seq(Cell)
    BY EmptySeq
<1>2. b \in Cell => <<b>> \in Seq(Cell)
    <2> HIDE DEF Cell
    <2> QED OBVIOUS
<1> QED BY <1>1, <1>2 DEF Half, Cell

LEMMA ContentsIsSeq ==
    ASSUME NEW r, IsRing(r)
    PROVE  Contents(r) \in Seq(Cell) /\ Len(Contents(r)) = r.used
<1>1. 0 \in 0..r.used
    BY DEF IsRing
<1> QED BY <1>1, RingContents

\* Without the byte before it a stream is in order.
LEMMA TailInOrder ==
    ASSUME NEW b, b = None \/ (b \in Byte /\ ~Ends(b)), NEW s \in Seq(Cell), InOrder(Half(b) \o s)
    PROVE  InOrder(s)
<1>1. CASE b = None
    <2>1. Half(b) \o s = s
        BY <1>1, ConcatEmptySeq DEF Half
    <2> QED BY <2>1
<1>2. CASE b # None
    <2> DEFINE t == <<b>> \o s
    <2>1. b \in Cell /\ t = Half(b) \o s
        BY <1>2 DEF Half, Cell
    <2>2. <<b>> \in Seq(Cell) /\ Len(<<b>>) = 1
        <3> HIDE DEF Cell
        <3> QED BY <2>1
    <2>3. /\ t \in Seq(Cell) /\ Len(t) = 1 + Len(s)
          /\ \A i \in 1..(1 + Len(s)) : t[i] = IF i <= 1 THEN <<b>>[i] ELSE s[i - 1]
        BY <2>2, ConcatProperties
    <2>4. Len(s) \in Nat
        BY LenProperties
    <2> HIDE DEF t
    <2>5. SubSeq(t, 1 + 1, Len(t)) \in Seq(Cell) /\ InOrder(SubSeq(t, 1 + 1, Len(t)))
        <3>1. 1 \in 0..Len(t) /\ InOrder(t)
            BY <2>1, <2>3, <2>4
        <3> QED BY <2>3, <3>1, SuffixInOrder
    <2>6. SubSeq(t, 1 + 1, Len(t)) = s
        <3> DEFINE u == SubSeq(t, 1 + 1, Len(t))
        <3>1. \A i \in 2..Len(t) : t[i] \in Cell
            <4>1. \A i \in 2..Len(t) : i \in 1..Len(t)
                BY <2>3, <2>4
            <4> QED BY <2>3, <4>1, ElementOfSeq
        <3>2. Len(u) = IF 2 <= Len(t) THEN Len(t) - 2 + 1 ELSE 0
            BY <2>3, <2>4, <3>1, SubSeqProperties
        <3>3. \A i \in 1..(Len(t) - 2 + 1) : u[i] = t[2 + i - 1]
            BY <2>3, <2>4, <3>1, SubSeqProperties
        <3>4. Len(u) = Len(s)
            BY <2>3, <2>4, <3>2
        <3>5. \A i \in 1..Len(s) : u[i] = s[i]
            <4> SUFFICES ASSUME NEW i \in 1..Len(s) PROVE u[i] = s[i]
                OBVIOUS
            <4>1. i \in 1..(Len(t) - 2 + 1) /\ 2 + i - 1 = i + 1 /\ i + 1 \in 1..(1 + Len(s))
                  /\ ~(i + 1 <= 1) /\ (i + 1) - 1 = i
                BY <2>3, <2>4
            <4>2. u[i] = t[i + 1]
                BY <3>3, <4>1
            <4>3. t[i + 1] = s[(i + 1) - 1]
                BY <2>3, <4>1
            <4> QED BY <4>1, <4>2, <4>3
        <3> HIDE DEF u
        <3>6. u \in Seq(Cell)
            BY <2>5 DEF u
        <3>7. u = s
            BY <3>4, <3>5, <3>6, SeqEqual
        <3> QED BY <3>7 DEF u
    <2> QED BY <2>5, <2>6
<1> QED BY <1>1, <1>2

\* A byte of a stream and what comes after it.
LEMMA OneBefore ==
    ASSUME NEW s \in Seq(Cell), NEW n \in 1..Len(s)
    PROVE  <<s[n]>> \o SubSeq(s, n + 1, Len(s)) = SubSeq(s, (n - 1) + 1, Len(s))
<1>1. Len(s) \in Nat
    BY LenProperties
<1>2. Len(s) \in n..Len(s) /\ (n - 1) + 1 = n
    BY <1>1
<1> QED BY <1>2, SubSeqRecursiveFirst

\* Another packet waits.
LEMMA PacketWaits ==
    ASSUME NEW r, IsBuffer(r), NEW p \in Packet, Length[p] <= Room(r),
           NEW b, b = None \/ (b \in Byte /\ ~Ends(b))
    PROVE  /\ IsBuffer(Put(r, Whole(p)))
           /\ Plain(r, b) => Plain(Put(r, Whole(p)), b)
<1> DEFINE q == Put(r, Whole(p))
           w == Whole(p)
           c == Contents(r)
<1>1. w \in Seq(Byte) /\ Len(w) = Length[p] /\ InOrder(w) /\ Fresh(w)
    <2>1. p \in Sent /\ LengthOf(p) = Length[p] /\ LengthOf(p) \in Nat \ {0} /\ 1 \in 1..LengthOf(p)
        BY Lengths DEF Sent
    <2>2. LengthOf(p) - 1 + 1 = Length[p]
        BY <2>1
    <2> QED BY <2>1, <2>2, WholeInOrder DEF Whole
<1>2. w \in Seq(Cell)
    BY <1>1, SeqMonotonic DEF Cell
<1>3. IsRing(q) /\ q.size = r.size /\ Contents(q) = c \o w
    BY <1>1, <1>2, PutRing DEF IsBuffer
<1>4. c \in Seq(Cell) /\ Half(b) \in Seq(Cell)
    BY ContentsIsSeq, HalfIsSeq DEF IsBuffer
<1> HIDE DEF q, w, c
<1>5. ASSUME Plain(r, b) PROVE Plain(q, b)
    <2>1. Half(b) \o c \in Seq(Cell) /\ InOrder(Half(b) \o c)
        BY <1>4, <1>5, ConcatProperties DEF Plain, c
    <2>2. InOrder((Half(b) \o c) \o w)
        BY <1>1, <1>2, <2>1, JoinInOrder
    <2>3. InOrder(Half(b) \o Contents(q))
        <3>1. (Half(b) \o c) \o w = Half(b) \o (c \o w)
            BY <1>2, <1>4, ConcatAssociative
        <3> QED BY <1>3, <2>2, <3>1
    <2>4. InOrder(c)
        BY <1>4, <2>1, TailInOrder
    <2>5. b = None => Fresh(Contents(q))
        BY <1>1, <1>2, <1>3, <1>4, <1>5, <2>4, JoinInOrder DEF Plain, c
    <2> QED BY <2>3, <2>5 DEF Plain
<1> QED BY <1>3, <1>5 DEF IsBuffer, q, w

LEMMA SendIsGood ==
    ASSUME OutInv, NEW p \in Packet, Send(p)
    PROVE  OutInv'
<1>1. CASE UNCHANGED out
    BY <1>1 DEF OutInv, out
<1>2. CASE ~(UNCHANGED out) /\ Uploading
    <2>1. /\ Length[p] <= Room(spare) /\ spare' = Put(spare, Whole(p))
          /\ UNCHANGED <<sending, upload, reading, torn>>
        BY <1>2 DEF Send, Close, out
    <2>2. upload.file # None
        BY <1>2 DEF Uploading
    <2> DEFINE q == Put(spare, Whole(p))
    <2>3. IsBuffer(spare) /\ (Plain(spare, None) => Plain(q, None)) /\ IsBuffer(q)
        BY <2>1, <2>2, PacketWaits DEF OutInv, OutGood
    <2>4. \A r : IsBuffer(r) => (Plain(r, None) <=> InOrder(Contents(r)) /\ Fresh(Contents(r)))
        <3> SUFFICES ASSUME NEW r, IsBuffer(r)
                     PROVE  Plain(r, None) <=> InOrder(Contents(r)) /\ Fresh(Contents(r))
            OBVIOUS
        <3>1. Half(None) \o Contents(r) = Contents(r)
            BY ContentsIsSeq, ConcatEmptySeq DEF Half, IsBuffer
        <3> QED BY <3>1 DEF Plain
    <2> HIDE DEF q
    <2>5. OutGood(sending, q, upload, reading, torn)
        BY <2>2, <2>3, <2>4 DEF OutInv, OutGood, Filed
    <2> QED BY <2>1, <2>5 DEF OutInv, q
<1>3. CASE ~(UNCHANGED out) /\ ~Uploading
    <2>1. /\ Length[p] <= Room(sending) /\ sending' = Put(sending, Whole(p))
          /\ UNCHANGED <<spare, upload, reading, torn>>
        BY <1>3 DEF Send, Close, out
    <2>2. upload.file = None
        BY <1>3 DEF Uploading
    <2> DEFINE q == Put(sending, Whole(p))
    <2>3. IsBuffer(q) /\ (Plain(sending, reading) => Plain(q, reading))
        BY <2>1, <2>2, PacketWaits DEF OutInv, OutGood
    <2> HIDE DEF q
    <2>4. OutGood(q, spare, upload, reading, torn)
        BY <2>2, <2>3 DEF OutInv, OutGood
    <2> QED BY <2>1, <2>4 DEF OutInv, q
<1> QED BY <1>1, <1>2, <1>3

LEMMA UploadIsGood ==
    ASSUME OutInv, NEW f \in File, Upload(f)
    PROVE  OutInv'
<1> DEFINE r == Put(Empty(Capacity(f)), Bytes(f, 1, HeaderOf(f)))
           up == [file |-> f, pos |-> 0]
           lost == torn \/ reading # None
<1>1. /\ upload.file = None /\ sending' = r /\ spare' = sending /\ upload' = up /\ torn' = lost
      /\ reading' = reading
    BY DEF Upload, Uploading
<1>2. IsUpload(r, f, 0) /\ r.used = HeaderOf(f)
    BY UploadStarts
<1>3. up.file = f /\ up.pos = 0 /\ f # None /\ 0 \in 0..FileSize[f] /\ HeaderOf(f) \in Nat
    BY PacketsAreApart, Lengths
<1>4. Away(r, up) = 0
    BY <1>2, <1>3 DEF Away, Filled
<1>5. IsBuffer(sending) /\ (torn \/ Plain(sending, reading))
    BY <1>1 DEF OutInv, OutGood
<1>6. ASSUME ~lost PROVE Filed(r, up, reading, sending)
    <2>1. reading = None /\ Plain(sending, None)
        BY <1>5, <1>6
    <2>2. Half(None) \o Contents(sending) = Contents(sending)
        BY <1>5, ContentsIsSeq, ConcatEmptySeq DEF Half, IsBuffer
    <2>3. ~(0 \in 1..(LengthOf(f) - 1))
        OBVIOUS
    <2> QED BY <1>3, <1>4, <2>1, <2>2, <2>3 DEF Filed, Plain
<1> HIDE DEF r, lost
<1>7. OutGood(r, sending, up, reading, lost)
    BY <1>2, <1>3, <1>5, <1>6 DEF OutInv, OutGood
<1> QED BY <1>1, <1>7 DEF OutInv

LEMMA UploadMoreIsGood ==
    ASSUME OutInv, Uploading, UploadMore
    PROVE  OutInv' /\ Away(sending', upload') = Away(sending, upload) /\ upload'.file = upload.file
<1> DEFINE f == upload.file
           pos == upload.pos
           T == Filled(f, pos)
           more == Available
           q == PutBeyond(sending, Bytes(f, T + 1, T + more))
           up == [file |-> f, pos |-> pos + more]
<1>1. /\ f \in File /\ pos \in 0..FileSize[f] /\ IsUpload(sending, f, pos) /\ IsBuffer(spare) /\ f # None
      /\ upload = [file |-> f, pos |-> pos]
    BY DEF OutInv, OutGood, Uploading
<1>2. more \in 0..(FileSize[f] - pos)
    <2>1. FileSize[f] \in Nat /\ sending.size \in Nat /\ sending.used \in Nat
        <3>1. T \in Nat /\ Capacity(f) \in Nat
            BY <1>1, UploadSizes
        <3> QED BY <1>1, <3>1, LengthsAreKnown DEF IsUpload
    <2>2. Available > 0
        BY DEF UploadMore
    <2> QED BY <1>1, <2>1, <2>2 DEF Available, Room
<1>3. /\ sending' = q /\ upload' = [upload EXCEPT !.pos = @ + more]
      /\ UNCHANGED <<spare, reading, torn>>
    BY DEF UploadMore, Filled
<1>4. upload' = up
    <2>1. [upload EXCEPT !.pos = upload.pos + more] = [file |-> f, pos |-> pos + more]
        <3> HIDE DEF more, f, pos
        <3> QED BY <1>1 DEF pos
    <2> QED BY <1>3, <2>1
<1>5. IsUpload(q, f, pos + more) /\ q.used = sending.used + more
    BY <1>1, <1>2, UploadGoes
<1>6. pos + more \in 0..FileSize[f] /\ up.file = f /\ up.pos = pos + more
    <2>1. FileSize[f] \in Nat
        BY <1>1, LengthsAreKnown
    <2> HIDE DEF more
    <2> QED BY <1>1, <1>2, <2>1
<1>7. Away(q, up) = Away(sending, upload)
    <2>1. sending.used \in Nat /\ more \in Nat /\ pos \in Nat /\ HeaderOf(f) \in Nat
        <3>1. T \in Nat /\ HeaderOf(f) \in Nat
            BY <1>1, UploadSizes, Lengths
        <3>2. FileSize[f] \in Nat
            BY <1>1, LengthsAreKnown
        <3> HIDE DEF more
        <3> QED BY <1>1, <1>2, <3>1, <3>2 DEF IsUpload
    <2>2. Away(q, up) = (HeaderOf(f) + (pos + more)) - (sending.used + more)
        BY <1>5, <1>6 DEF Away, Filled
    <2>3. Away(sending, upload) = (HeaderOf(f) + pos) - sending.used
        BY DEF Away, Filled
    <2> HIDE DEF more, f, pos
    <2> QED BY <2>1, <2>2, <2>3
<1>8. torn \/ Filed(q, up, reading, spare)
    <2>1. torn \/ Filed(sending, upload, reading, spare)
        BY <1>1 DEF OutInv, OutGood
    <2> QED BY <1>6, <1>7, <2>1 DEF Filed
<1> HIDE DEF q
<1>9. OutGood(q, spare, up, reading, torn)
    BY <1>1, <1>5, <1>6, <1>8 DEF OutInv, OutGood
<1>10. OutInv'
    BY <1>3, <1>4, <1>9 DEF OutInv
<1>11. Away(sending', upload') = Away(sending, upload) /\ upload'.file = upload.file
    <2>1. sending' = q /\ upload' = up
        BY <1>3, <1>4 DEF q
    <2> HIDE DEF up
    <2> QED BY <1>6, <1>7, <2>1 DEF up
<1> QED BY <1>10, <1>11

\* When all of a file was taken its last byte was read.
LEMMA UploadEndIsGood ==
    ASSUME OutInv, Uploading, UploadEnd
    PROVE  OutInv'
<1> DEFINE f == upload.file
           pos == upload.pos
<1>1. /\ f \in File /\ pos \in 0..FileSize[f] /\ IsUpload(sending, f, pos) /\ IsBuffer(spare) /\ f # None
    BY DEF OutInv, OutGood, Uploading
<1>2. /\ pos = FileSize[f] /\ sending.used = 0 /\ sending' = spare /\ spare' = None /\ upload' = NoUpload
      /\ UNCHANGED <<reading, torn>>
    BY DEF UploadEnd
<1>3. Away(sending, upload) = LengthOf(f) /\ LengthOf(f) \in Nat
    <2>1. Filled(f, pos) = LengthOf(f) /\ LengthOf(f) \in Nat
        BY <1>1, <1>2, UploadSizes
    <2> QED BY <1>2, <2>1 DEF Away
<1>4. torn \/ Plain(spare, reading)
    <2> SUFFICES ASSUME ~torn PROVE Plain(spare, reading)
        OBVIOUS
    <2>1. Filed(sending, upload, reading, spare)
        BY <1>1 DEF OutInv, OutGood
    <2>2. ~(LengthOf(f) \in 1..(LengthOf(f) - 1))
        BY <1>3
    <2>3. reading = None
        BY <1>3, <2>1, <2>2 DEF Filed
    <2>4. Half(reading) \o Contents(spare) = Contents(spare)
        BY <1>1, <2>3, ContentsIsSeq, ConcatEmptySeq DEF Half, IsBuffer
    <2> QED BY <2>1, <2>4 DEF Filed, Plain
<1>5. NoUpload.file = None /\ NoUpload = [file |-> NoUpload.file, pos |-> NoUpload.pos]
    BY DEF NoUpload
<1>6. OutGood(spare, None, NoUpload, reading, torn)
    BY <1>1, <1>4, <1>5 DEF OutInv, OutGood
<1> QED BY <1>2, <1>6 DEF OutInv

\* The socket takes some of what waits.
LEMMA TakenIsPlain ==
    ASSUME NEW r, IsBuffer(r), NEW b, b = None \/ (b \in Byte /\ ~Ends(b)), Plain(r, b),
           NEW n \in 1..r.used
    PROVE  LET c == Contents(r)[n] IN Plain(Take(r, n), IF Ends(c) THEN None ELSE c)
<1> DEFINE s == Contents(r)
           c == s[n]
           d == IF Ends(c) THEN None ELSE c
           t == Contents(Take(r, n))
<1>1. s \in Seq(Cell) /\ Len(s) = r.used /\ r.used \in Nat
    BY ContentsIsSeq DEF IsBuffer, IsRing
<1>2. t = SubSeq(s, n + 1, Len(s))
    <2>1. n \in 0..r.used
        BY <1>1
    <2> QED BY <1>1, <2>1, TakeRing DEF IsBuffer
<1>3. InOrder(s)
    BY <1>1, TailInOrder DEF Plain
<1>4. c \in Cell /\ n \in 0..Len(s) /\ n \in 1..Len(s) /\ n - 1 \in 0..Len(s) /\ n # 0
    BY <1>1, ElementOfSeq
<1> HIDE DEF s, t
<1>5. CASE Ends(c)
    <2>1. t \in Seq(Cell) /\ InOrder(t) /\ Fresh(t)
        BY <1>1, <1>2, <1>3, <1>4, <1>5, SuffixInOrder
    <2>2. Half(None) \o t = t
        BY <2>1, ConcatEmptySeq DEF Half
    <2>3. Plain(Take(r, n), None)
        BY <2>1, <2>2 DEF Plain, t
    <2> QED BY <1>5, <2>3 DEF s
<1>6. CASE ~Ends(c)
    <2>1. c # None
        <3>1. c \in Byte
            BY <1>4, <1>6, Cells DEF Ends
        <3> QED BY <3>1, Cells
    <2>2. InOrder(SubSeq(s, (n - 1) + 1, Len(s)))
        BY <1>1, <1>3, <1>4, SuffixInOrder
    <2>3. Half(c) \o t = SubSeq(s, (n - 1) + 1, Len(s))
        BY <1>1, <1>2, <1>4, <2>1, OneBefore DEF Half
    <2>4. Plain(Take(r, n), c)
        BY <2>1, <2>2, <2>3 DEF Plain, t
    <2> QED BY <1>6, <2>4 DEF s
<1> QED BY <1>5, <1>6

LEMMA DoSendIsGood ==
    ASSUME OutInv, NEW n \in 1..Chunk, DoSend(n)
    PROVE  OutInv'
<1> DEFINE c == Peek(sending, n)[n]
           q == Take(sending, n)
           b == Read(c)
<1>1. /\ n <= sending.used /\ reading' = b /\ sending' = q
      /\ UNCHANGED <<spare, upload, torn>> /\ n \in Nat \ {0}
    BY BuffersAreSized DEF DoSend
<1>2. CASE upload.file = None
    <2>1. IsBuffer(sending) /\ (torn \/ Plain(sending, reading)) /\ (reading = None \/ (reading \in Byte /\ ~Ends(reading)))
        BY <1>2 DEF OutInv, OutGood
    <2>2. n \in 1..sending.used /\ n \in 0..sending.used /\ n \in 1..n
        BY <1>1, <2>1 DEF IsBuffer, IsRing
    <2>3. c = Contents(sending)[n] /\ c \in Cell
        <3>1. c = Contents(sending)[n]
            BY <2>1, <2>2, RingContents DEF IsBuffer
        <3>2. Contents(sending) \in Seq(Cell) /\ Len(Contents(sending)) = sending.used
            BY <2>1, ContentsIsSeq DEF IsBuffer
        <3> QED BY <2>2, <3>1, <3>2, ElementOfSeq
    <2>4. IsBuffer(q)
        BY <2>1, <2>2, TakeRing DEF IsBuffer
    <2>5. b = None \/ (b \in Byte /\ ~Ends(b))
        BY <2>3, Cells DEF Read, Ends
    <2>6. torn \/ Plain(q, b)
        <3>1. ~torn => b = IF Ends(c) THEN None ELSE c
            BY DEF Read
        <3>2. ~torn => Plain(q, IF Ends(c) THEN None ELSE c)
            BY <2>1, <2>2, <2>3, TakenIsPlain
        <3> QED BY <3>1, <3>2
    <2> HIDE DEF q, b
    <2>7. OutGood(q, spare, upload, b, torn)
        BY <1>2, <2>4, <2>5, <2>6 DEF OutInv, OutGood
    <2> QED BY <1>1, <2>7 DEF OutInv
<1>3. CASE upload.file # None
    <2> DEFINE f == upload.file
               pos == upload.pos
               T == Filled(f, pos)
               k == (T - sending.used) + n
    <2>1. /\ f \in File /\ pos \in 0..FileSize[f] /\ IsUpload(sending, f, pos) /\ IsBuffer(spare)
          /\ (torn \/ Filed(sending, upload, reading, spare))
        BY <1>3 DEF OutInv, OutGood
    <2>2. T \in 1..LengthOf(f) /\ LengthOf(f) \in Nat /\ sending.used \in 0..T
        BY <2>1, UploadSizes DEF IsUpload
    <2>3. n \in 1..sending.used /\ n \in 0..sending.used /\ k \in 1..LengthOf(f) /\ T \in Nat
        <3> HIDE DEF T
        <3> QED BY <1>1, <2>2
    <2>4. c = FileByte(f, T, k)
        BY <2>1, <2>3, UploadContents
    <2>5. c \in Cell /\ (k < LengthOf(f) => c = <<f, k>> /\ ~Ends(c)) /\ (k = LengthOf(f) => Ends(c))
        BY <2>1, <2>3, <2>4, FileBytes
    <2>6. IsUpload(q, f, pos) /\ q.used = sending.used - n
        BY <2>1, <2>3, UploadTaken
    <2>7. Away(q, upload) = k
        <3>1. Away(q, upload) = T - (sending.used - n)
            BY <2>6 DEF Away
        <3> HIDE DEF T
        <3> QED BY <1>1, <2>2, <3>1
    <2>8. b = None \/ (b \in Byte /\ ~Ends(b))
        BY <2>5, Cells DEF Read, Ends
    <2>9. torn \/ Filed(q, upload, b, spare)
        <3> SUFFICES ASSUME ~torn PROVE Filed(q, upload, b, spare)
            OBVIOUS
        <3>1. b = IF Ends(c) THEN None ELSE c
            BY DEF Read
        <3> HIDE DEF k, c, b
        <3>2. b = IF k \in 1..(LengthOf(f) - 1) THEN <<f, k>> ELSE None
            <4>1. CASE k = LengthOf(f)
                <5>1. ~(k \in 1..(LengthOf(f) - 1))
                    BY <2>2, <4>1
                <5> QED BY <2>5, <3>1, <4>1, <5>1
            <4>2. CASE k # LengthOf(f)
                <5>1. k < LengthOf(f) /\ k \in 1..(LengthOf(f) - 1)
                    BY <2>2, <2>3, <4>2
                <5> QED BY <2>5, <3>1, <5>1
            <4> QED BY <4>1, <4>2
        <3> QED BY <2>1, <2>7, <3>2 DEF Filed
    <2> HIDE DEF q, b
    <2>10. OutGood(q, spare, upload, b, torn)
        BY <1>3, <2>1, <2>6, <2>8, <2>9 DEF OutInv, OutGood
    <2> QED BY <1>1, <2>10 DEF OutInv
<1> QED BY <1>2, <1>3

\* Whatever was read of a file, the rest of it is on its way.
LEMMA FileHalfInOrder ==
    ASSUME NEW f \in File, NEW T \in Nat, NEW m \in 0..LengthOf(f),
           NEW b, b = IF m \in 1..(LengthOf(f) - 1) THEN <<f, m>> ELSE None
    PROVE  Half(b) \o FileRest(f, T, m) \in Seq(Cell) /\ InOrder(Half(b) \o FileRest(f, T, m))
<1> DEFINE n == LengthOf(f)
           s == FileRest(f, T, m)
<1>1. n \in Nat \ {0} /\ m \in 0..n
    BY Lengths DEF Sent
<1>2. s \in Seq(Cell) /\ Len(s) = n - m /\ InOrder(s) /\ \A k \in 1..Len(s) : s[k] = FileByte(f, T, m + k)
    BY FileRestInOrder
<1> HIDE DEF n, s
<1>3. CASE m \in 1..(n - 1)
    <2> DEFINE t == FileRest(f, T, m - 1)
    <2>1. m - 1 \in 0..n /\ m \in 1..n /\ m < n /\ n - (m - 1) = 1 + (n - m)
        BY <1>1, <1>3
    <2>2. /\ t \in Seq(Cell) /\ Len(t) = 1 + (n - m) /\ InOrder(t)
          /\ \A k \in 1..Len(t) : t[k] = FileByte(f, T, (m - 1) + k)
        BY <2>1, FileRestInOrder DEF n
    <2>3. FileByte(f, T, m) = <<f, m>>
        BY <2>1, FileBytes DEF n
    <2>4. b = <<f, m>> /\ b # None
        <3>1. b = <<f, m>>
            BY <1>3 DEF n
        <3>2. b \in Byte
            BY <2>1, <3>1, Cells, <1>1 DEF Sent
        <3> QED BY <3>1, <3>2, Cells
    <2>5. <<b>> \in Seq(Cell)
        <3>1. b \in Cell
            BY <2>1, <2>3, <2>4, FileBytes DEF n
        <3> HIDE DEF Cell
        <3> QED BY <3>1
    <2> HIDE DEF t
    <2> DEFINE u == <<b>> \o s
    <2>6. /\ u \in Seq(Cell) /\ Len(u) = 1 + (n - m)
          /\ \A i \in 1..(1 + (n - m)) : u[i] = IF i <= 1 THEN <<b>>[i] ELSE s[i - 1]
        BY <1>2, <2>5, ConcatProperties
    <2> HIDE DEF u
    <2>7. \A i \in 1..(1 + (n - m)) : u[i] = t[i]
        <3> SUFFICES ASSUME NEW i \in 1..(1 + (n - m)) PROVE u[i] = t[i]
            OBVIOUS
        <3>1. t[i] = FileByte(f, T, (m - 1) + i)
            BY <2>2
        <3>2. CASE i = 1
            <4>1. u[i] = b /\ (m - 1) + i = m
                BY <1>1, <2>6, <3>2
            <4> QED BY <2>3, <2>4, <3>1, <4>1
        <3>3. CASE i # 1
            <4>1. ~(i <= 1) /\ i - 1 \in 1..(n - m) /\ (m - 1) + i = m + (i - 1)
                BY <1>1, <2>1, <3>3
            <4>2. u[i] = s[i - 1]
                BY <2>6, <4>1
            <4>3. s[i - 1] = FileByte(f, T, m + (i - 1))
                BY <1>2, <4>1
            <4> QED BY <3>1, <4>1, <4>2, <4>3
        <3> QED BY <3>2, <3>3
    <2>8. u = t
        BY <2>2, <2>6, <2>7, SeqEqual
    <2>9. Half(b) \o s = t
        BY <2>4, <2>8 DEF Half, u
    <2> QED BY <2>2, <2>9 DEF s
<1>4. CASE ~(m \in 1..(n - 1))
    <2>1. b = None
        BY <1>4 DEF n
    <2>2. Half(b) \o s = s
        BY <1>2, <2>1, ConcatEmptySeq DEF Half
    <2> QED BY <1>2, <2>2 DEF s
<1> QED BY <1>3, <1>4

\* What is on its way to the player is whole.
LEMMA OutIsWhole ==
    ASSUME OutInv
    PROVE  torn \/ InOrder(HalfRead \o ToPlayer)
<1>0. SUFFICES ASSUME ~torn PROVE InOrder(HalfRead \o ToPlayer)
    OBVIOUS
<1>1. HalfRead = Half(reading)
    BY DEF HalfRead, Half
<1>2. reading = None \/ (reading \in Byte /\ ~Ends(reading))
    BY DEF OutInv, OutGood
<1>3. CASE upload.file = None
    <2>1. IsBuffer(sending) /\ Plain(sending, reading)
        BY <1>0, <1>3 DEF OutInv, OutGood
    <2>2. ToPlayer = (Contents(sending) \o <<>>) \o <<>>
        BY <1>3 DEF ToPlayer, Uploading
    <2>3. Contents(sending) \o <<>> = Contents(sending)
        BY <2>1, ContentsIsSeq, ConcatEmptySeq DEF IsBuffer
    <2> QED BY <1>1, <2>1, <2>2, <2>3 DEF Plain
<1>4. CASE upload.file # None
    <2> DEFINE f == upload.file
               T == Filled(f, upload.pos)
               m == T - sending.used
               rest == Bytes(f, T + 1, LengthOf(f))
               c == Contents(sending)
               w == Contents(spare)
               h == Half(reading)
               s == FileRest(f, T, m)
    <2>1. /\ f \in File /\ upload.pos \in 0..FileSize[f] /\ IsUpload(sending, f, upload.pos) /\ IsBuffer(spare)
          /\ Filed(sending, upload, reading, spare)
        BY <1>0, <1>4 DEF OutInv, OutGood
    <2>2. T \in 1..LengthOf(f) /\ LengthOf(f) \in Nat /\ sending.used \in 0..T
        BY <2>1, UploadSizes DEF IsUpload
    <2>3. m \in 0..LengthOf(f) /\ T \in Nat /\ m = Away(sending, upload)
        <3>1. m = Away(sending, upload)
            BY DEF Away
        <3> HIDE DEF T
        <3> QED BY <2>2, <3>1
    <2>4. ToPlayer = (c \o rest) \o w
        BY <1>4 DEF ToPlayer, Uploading, Filled
    <2>5. c \o rest = s
        BY <2>1, UploadContents
    <2>6. h \o s \in Seq(Cell) /\ InOrder(h \o s)
        <3>1. reading = IF m \in 1..(LengthOf(f) - 1) THEN <<f, m>> ELSE None
            BY <2>1, <2>3 DEF Filed
        <3> HIDE DEF m, T
        <3> QED BY <2>1, <2>3, <3>1, FileHalfInOrder
    <2>7. w \in Seq(Cell) /\ InOrder(w) /\ Fresh(w)
        BY <2>1, ContentsIsSeq DEF Filed, IsBuffer
    <2>8. h \in Seq(Cell)
        BY <1>2, HalfIsSeq
    <2>9. c \in Seq(Cell) /\ rest \in Seq(Cell) /\ s \in Seq(Cell)
        <3>1. c \in Seq(Cell)
            BY <2>1, UploadContents
        <3>2. rest \in Seq(Cell)
            BY <2>1, <2>2, UploadContents
        <3>3. s \in Seq(Cell)
            BY <2>1, <2>3, FileRestInOrder
        <3> QED BY <3>1, <3>2, <3>3
    <2> HIDE DEF f, T, m, rest, c, w, h, s
    <2>10. h \o (s \o w) = (h \o s) \o w
        BY SMTT(20), <2>7, <2>8, <2>9, ConcatAssociative
    <2>11. InOrder((h \o s) \o w)
        BY <2>6, <2>7, JoinInOrder
    <2> QED BY <1>1, <2>4, <2>5, <2>10, <2>11 DEF h
<1> QED BY <1>3, <1>4

-----------------------------------------------------------------------------
(***************************************************************************)
(* From the player.                                                        *)
(***************************************************************************)

\* What the player's program sends is made of these.
TypedByte == Typed \X (Nat \ {0})

\* The part of a packet that was taken says how much is still to come.
IsPart(p) ==
    /\ p.bytes \in Seq(TypedByte) /\ p.state \in {"ReadLen1", "ReadLen2", "ReadData"}
    /\ p.state = "ReadLen1" => p.bytes = <<>>
    /\ p.state = "ReadLen2" => Len(p.bytes) = 1
    /\ p.state = "ReadData" =>
          /\ Len(p.bytes) > 1 /\ p.length \in Nat \ {0}
          /\ p.length = Length[p.bytes[1][1]] - Len(p.bytes)

\* Of the packet that is read the first bytes are there, and how many are needed is known.
InGood(r, p, more) ==
    /\ IsRing(r) /\ Contents(r) \in Seq(TypedByte) /\ more \in Seq(TypedByte) /\ IsPart(p)
    /\ InOrder((p.bytes \o Contents(r)) \o more) /\ Fresh((p.bytes \o Contents(r)) \o more)

InInv == InGood(receiving, packet, net)

LEMMA TypedAreCells ==
    /\ TypedByte \subseteq Byte /\ TypedByte \subseteq Cell
    /\ Seq(TypedByte) \subseteq Seq(Cell)
    /\ \A t \in Typed : t \in Sent /\ t \notin File /\ LengthOf(t) = Length[t] /\ Length[t] \in Nat
                        /\ Length[t] > 2
<1>1. TypedByte \subseteq Byte /\ TypedByte \subseteq Cell
    BY DEF TypedByte, Byte, Cell
<1>2. Seq(TypedByte) \subseteq Seq(Cell)
    <2> HIDE DEF TypedByte, Cell
    <2> QED BY <1>1, SeqMonotonic
<1>3. \A t \in Typed : t \in Sent /\ t \notin File /\ LengthOf(t) = Length[t] /\ Length[t] \in Nat
                       /\ Length[t] > 2
    BY PacketsAreApart, LengthsAreKnown, Lengths DEF Sent
<1> QED BY <1>1, <1>2, <1>3

\* A sequence is what comes first and what comes after it.
LEMMA InTwo ==
    ASSUME NEW S, NEW s \in Seq(S), NEW n \in 0..Len(s)
    PROVE  /\ SubSeq(s, 1, n) \in Seq(S) /\ Len(SubSeq(s, 1, n)) = n
           /\ SubSeq(s, n + 1, Len(s)) \in Seq(S)
           /\ s = SubSeq(s, 1, n) \o SubSeq(s, n + 1, Len(s))
           /\ \A k \in 1..n : SubSeq(s, 1, n)[k] = s[k]
<1>1. Len(s) \in Nat /\ n \in Nat
    BY LenProperties
<1>2. \A i \in 1..n : s[i] \in S
    <2>1. \A i \in 1..n : i \in 1..Len(s)
        BY <1>1
    <2> QED BY <2>1, ElementOfSeq
<1>3. \A i \in (n + 1)..Len(s) : s[i] \in S
    <2>1. \A i \in (n + 1)..Len(s) : i \in 1..Len(s)
        BY <1>1
    <2> QED BY <2>1, ElementOfSeq
<1>4. /\ SubSeq(s, 1, n) \in Seq(S) /\ Len(SubSeq(s, 1, n)) = IF 1 <= n THEN n - 1 + 1 ELSE 0
      /\ \A i \in 1..(n - 1 + 1) : SubSeq(s, 1, n)[i] = s[1 + i - 1]
    BY <1>1, <1>2, SubSeqProperties
<1>5. SubSeq(s, n + 1, Len(s)) \in Seq(S)
    BY <1>1, <1>3, SubSeqProperties
<1>6. SubSeq(s, 1, n) \o SubSeq(s, n + 1, Len(s)) = SubSeq(s, 1, Len(s))
    <2>1. 1 \in 1..(Len(s) + 1) /\ n \in (1 - 1)..Len(s) /\ Len(s) \in n..Len(s)
        BY <1>1
    <2> QED BY <2>1, ConcatAdjacentSubSeq
<1>7. SubSeq(s, 1, Len(s)) = s
    BY SubSeqFull
<1>8. Len(SubSeq(s, 1, n)) = n
    BY <1>1, <1>4
<1>9. \A k \in 1..n : SubSeq(s, 1, n)[k] = s[k]
    <2>1. \A k \in 1..n : k \in 1..(n - 1 + 1) /\ 1 + k - 1 = k
        BY <1>1
    <2> QED BY <1>4, <2>1
<1> QED BY <1>4, <1>5, <1>6, <1>7, <1>8, <1>9

\* What comes after a sequence.
LEMMA AfterIt ==
    ASSUME NEW S, NEW a \in Seq(S), NEW b \in Seq(S)
    PROVE  /\ a \o b \in Seq(S) /\ Len(a) \in 0..Len(a \o b)
           /\ SubSeq(a \o b, Len(a) + 1, Len(a \o b)) = b
           /\ \A k \in 1..Len(a) : (a \o b)[k] = a[k]
<1> DEFINE m == Len(a)
           n == Len(b)
           both == a \o b
           u == SubSeq(both, m + 1, m + n)
<1>1. m \in Nat /\ n \in Nat
    BY LenProperties
<1>2. /\ both \in Seq(S) /\ Len(both) = m + n
      /\ \A i \in 1..(m + n) : both[i] = IF i <= m THEN a[i] ELSE b[i - m]
    BY ConcatProperties
<1> HIDE DEF m, n, both
<1>3. \A i \in (m + 1)..(m + n) : both[i] \in S
    <2>1. \A i \in (m + 1)..(m + n) : i \in 1..(m + n)
        BY <1>1
    <2> QED BY <1>2, <2>1, ElementOfSeq
<1>4. /\ u \in Seq(S) /\ Len(u) = IF m + 1 <= m + n THEN m + n - (m + 1) + 1 ELSE 0
      /\ \A i \in 1..(m + n - (m + 1) + 1) : u[i] = both[(m + 1) + i - 1]
    BY <1>1, <1>3, SubSeqProperties
<1>5. Len(u) = n
    BY <1>1, <1>4
<1>6. \A i \in 1..n : u[i] = b[i]
    <2> SUFFICES ASSUME NEW i \in 1..n PROVE u[i] = b[i]
        OBVIOUS
    <2>1. /\ i \in 1..(m + n - (m + 1) + 1) /\ (m + 1) + i - 1 = m + i /\ m + i \in 1..(m + n)
          /\ ~(m + i <= m) /\ (m + i) - m = i
        BY <1>1
    <2>2. u[i] = both[m + i]
        BY <1>4, <2>1
    <2>3. both[m + i] = b[(m + i) - m]
        BY <1>2, <2>1
    <2> QED BY <2>1, <2>2, <2>3
<1> HIDE DEF u
<1>7. u = b
    BY <1>4, <1>5, <1>6, SeqEqual DEF n
<1>8. \A k \in 1..m : both[k] = a[k]
    <2>1. \A k \in 1..m : k \in 1..(m + n) /\ k <= m
        BY <1>1
    <2> QED BY <1>2, <2>1
<1>9. m \in 0..Len(both)
    BY <1>1, <1>2
<1> QED BY <1>2, <1>7, <1>8, <1>9 DEF u, m, n, both

\* A stream that begins with a packet goes on with it.
LEMMA RunsOn ==
    ASSUME NEW s \in Seq(TypedByte), InOrder(s), Fresh(s), s # <<>>
    PROVE  /\ s[1][1] \in Typed
           /\ \A k \in 1..Len(s) : k <= Length[s[1][1]] => s[k] = <<s[1][1], k>>
<1> DEFINE t == s[1][1]
           n == Len(s)
           P(k) == (k \in 1..n /\ k <= Length[t]) => s[k] = <<t, k>>
<1>1. n \in Nat /\ n # 0
    BY LenProperties, EmptySeq
<1>2. \A i \in 1..n : s[i] \in TypedByte
    BY ElementOfSeq
<1>3. 1 \in 1..n
    BY <1>1
<1>4. s[1] \in TypedByte /\ First(s[1])
    BY <1>2, <1>3 DEF Fresh
<1>5. t \in Typed /\ s[1] = <<t, 1>>
    BY <1>4 DEF TypedByte, First
<1>6. t \notin File /\ LengthOf(t) = Length[t] /\ Length[t] \in Nat
    BY <1>5, TypedAreCells
<1> HIDE DEF t, n
<1>7. ASSUME NEW k \in Nat \ {0}, P(k) PROVE P(k + 1)
    <2> SUFFICES ASSUME k + 1 \in 1..n, k + 1 <= Length[t] PROVE s[k + 1] = <<t, k + 1>>
        OBVIOUS
    <2>1. k \in 1..n /\ k <= Length[t] /\ k # Length[t] /\ k + 1 \in 2..n /\ (k + 1) - 1 = k
        BY <1>1, <1>6
    <2>2. s[k] = <<t, k>>
        BY <1>7, <2>1
    <2>3. ~Ends(s[k])
        <3>1. s[k] # Blank
            <4>1. s[k] \in Byte
                BY <1>2, <2>1, TypedAreCells
            <4> QED BY <4>1, Cells
        <3> QED BY <1>6, <2>1, <2>2, <3>1 DEF Ends, Last
    <2>4. Follows(s[k], s[k + 1])
        <3>1. Follows(s[(k + 1) - 1], s[k + 1])
            BY <2>1 DEF InOrder, n
        <3> QED BY <2>1, <3>1
    <2>5. ~Full(s[k][1])
        BY <1>6, <2>2 DEF Full
    <2> QED BY <2>2, <2>3, <2>4, <2>5 DEF Follows
<1>8. P(1)
    BY <1>5
<1> HIDE DEF P
<1>9. \A k \in Nat \ {0} : P(k)
    <2> DEFINE T == {k \in Nat : k # 0 => P(k)}
    <2>1. 0 \in T
        OBVIOUS
    <2>2. \A k \in T : k + 1 \in T
        BY <1>7, <1>8
    <2> HIDE DEF T
    <2>3. Nat \subseteq T
        BY <2>1, <2>2, NumbersFollow
    <2> QED BY <2>3 DEF T
<1> QED BY <1>1, <1>5, <1>9 DEF P, t, n

\* However four sequences are put together, they are one.
LEMMA RegroupMiddle ==
    ASSUME NEW S, NEW a \in Seq(S), NEW b \in Seq(S), NEW c \in Seq(S), NEW d \in Seq(S)
    PROVE  (a \o b) \o (c \o d) = (a \o (b \o c)) \o d
<1> DEFINE e == a \o b
<1>1. e \in Seq(S)
    BY ConcatProperties
<1>2. a \o (b \o c) = e \o c
    BY SMTT(20), ConcatAssociative
<1> HIDE DEF e
<1>3. (e \o c) \o d = e \o (c \o d)
    BY SMTT(20), <1>1, ConcatAssociative
<1> QED BY <1>2, <1>3 DEF e

LEMMA TypeIsGood ==
    ASSUME InInv, NEW t \in Typed, Type(t)
    PROVE  InInv' /\ ToServer' = ToServer \o Whole(t)
<1> DEFINE w == Whole(t)
           s == (packet.bytes \o Contents(receiving)) \o net
           more == net \o w
<1>1. net' = more /\ UNCHANGED <<receiving, packet>>
    BY DEF Type
<1>2. /\ IsRing(receiving) /\ Contents(receiving) \in Seq(TypedByte) /\ net \in Seq(TypedByte)
      /\ IsPart(packet) /\ packet.bytes \in Seq(TypedByte) /\ InOrder(s) /\ Fresh(s)
    BY DEF InInv, InGood, IsPart
<1>3. t \in Sent /\ LengthOf(t) \in Nat \ {0} /\ 1 \in 1..LengthOf(t)
    BY TypedAreCells, Lengths
<1>4. w \in Seq(Byte) /\ InOrder(w) /\ Fresh(w)
    BY <1>3, WholeInOrder DEF Whole
<1>5. w \in Seq(TypedByte)
    <2>1. /\ Len(w) = LengthOf(t) - 1 + 1
          /\ \A k \in 1..Len(w) : w[k] = <<t, 1 + k - 1>>
        BY <1>3, WholeInOrder DEF Whole
    <2>2. w = [k \in 1..(LengthOf(t) - 1 + 1) |-> <<t, 1 + k - 1>>]
        BY DEF Whole, Bytes
    <2>3. \A k \in 1..(LengthOf(t) - 1 + 1) : <<t, 1 + k - 1>> \in TypedByte
        BY DEF TypedByte
    <2>4. LengthOf(t) - 1 + 1 \in Nat
        BY <1>3
    <2> HIDE DEF w, TypedByte
    <2> QED BY <2>2, <2>3, <2>4
<1>6. packet.bytes \o Contents(receiving) \in Seq(TypedByte) /\ s \in Seq(TypedByte)
    <2>1. packet.bytes \o Contents(receiving) \in Seq(TypedByte)
        BY <1>2, ConcatProperties
    <2> HIDE DEF TypedByte
    <2> QED BY <1>2, <2>1, ConcatProperties
<1> HIDE DEF w
<1>7. (packet.bytes \o Contents(receiving)) \o more = s \o w
    <2> HIDE DEF s
    <2>1. net \in Seq(TypedByte) /\ w \in Seq(TypedByte)
        BY <1>2, <1>5
    <2> DEFINE a == packet.bytes \o Contents(receiving)
    <2>2. a \in Seq(TypedByte)
        BY <1>6
    <2> HIDE DEF a
    <2>3. (a \o net) \o w = a \o (net \o w)
        BY <2>1, <2>2, ConcatAssociative
    <2> QED BY <2>3 DEF a, s
<1>8. InOrder(s \o w) /\ Fresh(s \o w)
    <2>1. s \in Seq(Cell) /\ w \in Seq(Cell)
        BY <1>5, <1>6, TypedAreCells
    <2> HIDE DEF s
    <2> QED BY <1>2, <1>4, <2>1, JoinInOrder
<1>9. more \in Seq(TypedByte)
    BY <1>2, <1>5, ConcatProperties
<1> HIDE DEF more
<1>10. InGood(receiving, packet, more)
    BY <1>2, <1>7, <1>8, <1>9 DEF InGood
<1>11. ToServer' = ToServer \o Whole(t)
    BY <1>1, <1>7 DEF ToServer, w
<1> QED BY <1>1, <1>10, <1>11 DEF InInv

LEMMA DoRecvIsGood ==
    ASSUME InInv, NEW n \in 1..Chunk, DoRecv(n)
    PROVE  InInv' /\ ToServer' = ToServer
<1> DEFINE h == SubSeq(net, 1, n)
           more == SubSeq(net, n + 1, Len(net))
           q == Put(receiving, h)
           b == packet.bytes
           c == Contents(receiving)
<1>1. /\ net' = more /\ receiving' = q /\ packet' = packet /\ n <= Room(receiving) /\ n <= Len(net)
      /\ n \in Nat
    BY BuffersAreSized DEF DoRecv
<1>2. /\ IsRing(receiving) /\ c \in Seq(TypedByte) /\ net \in Seq(TypedByte)
      /\ IsPart(packet) /\ b \in Seq(TypedByte) /\ InOrder((b \o c) \o net) /\ Fresh((b \o c) \o net)
    BY DEF InInv, InGood, IsPart
<1>3. n \in 0..Len(net)
    BY <1>1
<1>4. h \in Seq(TypedByte) /\ Len(h) = n /\ more \in Seq(TypedByte) /\ net = h \o more
    BY <1>2, <1>3, InTwo
<1>5. h \in Seq(Cell)
    BY <1>4, TypedAreCells
<1> HIDE DEF h, more
<1>6. IsRing(q) /\ Contents(q) = c \o h
    BY <1>1, <1>2, <1>4, <1>5, PutRing
<1> HIDE DEF b, c, q
<1>7. c \o h \in Seq(TypedByte) /\ b \o c \in Seq(TypedByte)
    BY <1>2, <1>4, ConcatProperties
<1>8. (b \o (c \o h)) \o more = (b \o c) \o net
    <2>1. b \o (c \o h) = (b \o c) \o h
        BY SMTT(20), <1>2, <1>4, ConcatAssociative
    <2>2. ((b \o c) \o h) \o more = (b \o c) \o (h \o more)
        BY SMTT(20), <1>4, <1>7, ConcatAssociative
    <2> QED BY <1>4, <2>1, <2>2
<1>9. InGood(q, packet, more)
    <2>1. packet.bytes \o Contents(q) = b \o (c \o h)
        BY <1>6 DEF b
    <2> QED BY <1>2, <1>4, <1>6, <1>7, <1>8, <2>1 DEF InGood
<1>10. ToServer' = ToServer
    BY <1>1, <1>6, <1>8 DEF ToServer, b, c
<1> QED BY <1>1, <1>9, <1>10 DEF InInv

\* The first bytes of what comes are the next of the packet that is read.
LEMMA PartGoesOn ==
    ASSUME NEW p, IsPart(p), NEW h \in Seq(TypedByte), h # <<>>, NEW rest \in Seq(TypedByte),
           InOrder((p.bytes \o h) \o rest), Fresh((p.bytes \o h) \o rest),
           p.state = "ReadData" => Len(h) <= p.length,
           p.state # "ReadData" => Len(h) = 1
    PROVE  LET q == Cut(p, h) IN
           /\ IsPart(q)
           /\ InOrder(q.bytes \o rest) /\ Fresh(q.bytes \o rest)
           /\ q.bytes = p.bytes \o h \/ q = NoPacket
<1> DEFINE b == p.bytes
           w == b \o h
           s == w \o rest
           q == Cut(p, h)
           t == s[1][1]
<1>1. b \in Seq(TypedByte) /\ Len(h) \in Nat \ {0} /\ Len(b) \in Nat
    BY LenProperties, EmptySeq DEF IsPart
<1>2. w \in Seq(TypedByte) /\ Len(w) = Len(b) + Len(h) /\ \A k \in 1..Len(b) : w[k] = b[k]
    <2>1. w \in Seq(TypedByte) /\ Len(w) = Len(b) + Len(h)
        BY <1>1, ConcatProperties
    <2> HIDE DEF b, TypedByte
    <2>2. \A k \in 1..Len(b) : w[k] = b[k]
        BY <1>1, AfterIt
    <2> QED BY <2>1, <2>2
<1>3. w[Len(b) + 1] = h[1]
    <2>1. /\ \A k \in 1..(Len(b) + Len(h)) : w[k] = IF k <= Len(b) THEN b[k] ELSE h[k - Len(b)]
        BY <1>1, ConcatProperties
    <2>2. Len(b) + 1 \in 1..(Len(b) + Len(h)) /\ ~(Len(b) + 1 <= Len(b)) /\ (Len(b) + 1) - Len(b) = 1
        BY <1>1
    <2> QED BY <2>1, <2>2
<1> HIDE DEF w
<1>4. /\ s \in Seq(TypedByte) /\ Len(w) \in 0..Len(s) /\ SubSeq(s, Len(w) + 1, Len(s)) = rest
      /\ \A k \in 1..Len(w) : s[k] = w[k]
    <2> HIDE DEF TypedByte
    <2> QED BY <1>2, AfterIt
<1>5. InOrder(s) /\ Fresh(s)
    BY DEF s, w, b
<1> HIDE DEF s
<1>6. Len(w) \in 1..Len(s) /\ Len(s) \in Nat /\ s # <<>>
    <2>1. Len(s) \in Nat
        BY <1>4, LenProperties
    <2>2. Len(w) \in 1..Len(s)
        BY <1>1, <1>2, <1>4, <2>1
    <2>3. s # <<>>
        BY <1>1, <1>2, <2>2
    <2> QED BY <2>1, <2>2, <2>3
<1>7. t \in Typed /\ \A k \in 1..Len(s) : k <= Length[t] => s[k] = <<t, k>>
    BY <1>4, <1>5, <1>6, RunsOn
<1>8. t \notin File /\ LengthOf(t) = Length[t] /\ Length[t] \in Nat /\ Length[t] > 2
    BY <1>7, TypedAreCells
<1>9. ASSUME p.state = "ReadData"
      PROVE  Len(b) > 1 /\ p.length \in Nat \ {0} /\ p.length = Length[t] - Len(b) /\ Len(h) <= p.length
    <2>1. /\ Len(b) > 1 /\ p.length \in Nat \ {0} /\ p.length = Length[b[1][1]] - Len(b)
          /\ Len(h) <= p.length
        BY <1>9 DEF IsPart
    <2>2. 1 \in 1..Len(b) /\ 1 \in 1..Len(w)
        BY <1>1, <1>2, <2>1
    <2>3. b[1] = s[1]
        BY <1>2, <1>4, <2>2
    <2> HIDE DEF b
    <2> QED BY <2>1, <2>3
<1>10. Len(w) <= Length[t]
    <2>1. CASE p.state = "ReadData"
        <3> HIDE DEF b, t
        <3> QED BY <1>1, <1>2, <1>8, <1>9, <2>1
    <2>2. CASE p.state # "ReadData"
        <3>1. Len(b) = 0 \/ Len(b) = 1
            <4>1. Len(<<>>) = 0
                OBVIOUS
            <4>2. b = <<>> \/ Len(b) = 1
                BY <2>2 DEF IsPart
            <4> HIDE DEF b
            <4> QED BY <4>1, <4>2
        <3>2. Len(h) = 1
            BY Zenon, <2>2
        <3> HIDE DEF b, t
        <3> QED BY <1>1, <1>2, <1>8, <3>1, <3>2
    <2> QED BY <2>1, <2>2
<1>11. \A k \in 1..Len(w) : w[k] = <<t, k>>
    <2> SUFFICES ASSUME NEW k \in 1..Len(w) PROVE w[k] = <<t, k>>
        OBVIOUS
    <2>1. k \in 1..Len(s) /\ k <= Length[t]
        BY <1>6, <1>8, <1>10
    <2> QED BY <1>4, <1>7, <2>1
<1> HIDE DEF t
<1>12. ASSUME q.bytes = w
       PROVE  InOrder(q.bytes \o rest) /\ Fresh(q.bytes \o rest)
    BY <1>5, <1>12 DEF s
<1>13. CASE p.state = "ReadLen1"
    <2>1. q = [state |-> "ReadLen2", bytes |-> h, length |-> p.length]
        BY <1>13 DEF Cut
    <2>2. b = <<>> /\ Len(h) = 1
        BY <1>13 DEF IsPart
    <2>3. w = h
        BY <2>2, ConcatEmptySeq DEF w
    <2>4. q.state = "ReadLen2" /\ q.bytes = h
        BY <2>1
    <2> HIDE DEF q
    <2>5. IsPart(q)
        BY <2>2, <2>4 DEF IsPart
    <2> QED BY <1>12, <2>3, <2>4, <2>5 DEF q, w, b
<1>14. CASE p.state = "ReadLen2"
    <2>1. q = [state |-> "ReadData", bytes |-> w, length |-> LengthSaid(b[1], h[1])]
        BY <1>14 DEF Cut, w
    <2>2. Len(b) = 1 /\ Len(h) = 1 /\ Len(w) = 2
        BY <1>1, <1>2, <1>14 DEF IsPart
    <2>3. b[1] = <<t, 1>> /\ h[1] = <<t, 2>> /\ w[1] = <<t, 1>>
        <3>1. 1 \in 1..Len(w) /\ 2 \in 1..Len(w) /\ 1 \in 1..Len(b) /\ Len(b) + 1 = 2
            BY <2>2
        <3>2. w[1] = <<t, 1>> /\ w[2] = <<t, 2>>
            BY <1>11, <3>1
        <3> HIDE DEF b
        <3> QED BY <1>2, <1>3, <3>1, <3>2
    <2>4. LengthSaid(b[1], h[1]) = Length[t] - 2
        BY <2>3 DEF LengthSaid
    <2>5. q.state = "ReadData" /\ q.bytes = w /\ q.length = Length[t] - 2
        BY <2>1, <2>4
    <2> HIDE DEF q
    <2>6. IsPart(q)
        <3>1. q.length \in Nat \ {0} /\ w[1][1] = t /\ q.length = Length[t] - Len(w) /\ Len(w) > 1
            BY <1>8, <2>2, <2>3, <2>5
        <3> HIDE DEF b
        <3> QED BY <1>2, <2>5, <3>1 DEF IsPart
    <2> QED BY <1>12, <2>5, <2>6 DEF q, w, b
<1>15. CASE p.state = "ReadData" /\ Len(h) # p.length
    <2>1. q = [state |-> "ReadData", bytes |-> w, length |-> p.length - Len(h)]
        BY <1>15 DEF Cut, w
    <2>2. q.state = "ReadData" /\ q.bytes = w /\ q.length = p.length - Len(h)
        BY <2>1
    <2>3. /\ Len(b) > 1 /\ p.length \in Nat \ {0} /\ p.length = Length[t] - Len(b) /\ Len(h) <= p.length
          /\ Len(h) # p.length
        BY <1>9, <1>15
    <2>4. w[1][1] = t
        <3>1. 1 \in 1..Len(w)
            <4> HIDE DEF b
            <4> QED BY <1>1, <1>2, <2>3
        <3> QED BY <1>11, <3>1
    <2> HIDE DEF q, b
    <2>5. q.length \in Nat \ {0} /\ q.length = Length[t] - Len(w) /\ Len(w) > 1
        BY <1>1, <1>2, <1>8, <2>2, <2>3
    <2>6. IsPart(q)
        BY <1>2, <2>2, <2>4, <2>5 DEF IsPart
    <2> QED BY <1>12, <2>2, <2>6 DEF q, w, b
<1>16. CASE p.state = "ReadData" /\ Len(h) = p.length
    <2>1. q = NoPacket
        BY <1>16 DEF Cut
    <2>2. Len(w) = Length[t]
        <3>1. p.length = Length[t] - Len(b)
            BY <1>9, <1>16
        <3> HIDE DEF b
        <3> QED BY <1>1, <1>2, <1>8, <1>16, <3>1
    <2>3. Ends(s[Len(w)])
        <3>1. Len(w) \in 1..Len(w)
            BY <1>8, <2>2
        <3>2. s[Len(w)] = <<t, Len(w)>>
            BY <1>4, <1>11, <3>1
        <3> QED BY <1>8, <2>2, <3>2 DEF Ends, Last
    <2>4. InOrder(rest) /\ Fresh(rest)
        <3>1. s \in Seq(Cell) /\ Len(w) # 0 /\ Len(w) \in 0..Len(s)
            BY <1>4, <1>6, TypedAreCells
        <3> QED BY <1>4, <1>5, <2>3, <3>1, SuffixInOrder
    <2>5. q.bytes = <<>> /\ IsPart(q)
        <3>1. <<>> \in Seq(TypedByte)
            BY EmptySeq
        <3> QED BY <2>1, <3>1 DEF IsPart, NoPacket
    <2>6. <<>> \o rest = rest
        BY ConcatEmptySeq
    <2> HIDE DEF q
    <2> QED BY <2>1, <2>4, <2>5, <2>6 DEF q
<1>17. p.state \in {"ReadLen1", "ReadLen2", "ReadData"}
    BY DEF IsPart
<1> QED BY <1>13, <1>14, <1>15, <1>16, <1>17

LEMMA ReadMoreIsGood ==
    ASSUME InInv, ReadMore
    PROVE  /\ InInv'
           /\ ToServer' = ToServer \/ \E W \in Seq(TypedByte) : ToServer = W \o ToServer'
<1> DEFINE wanted == IF packet.state = "ReadData" THEN packet.length ELSE 1
           n == IF wanted < receiving.used THEN wanted ELSE receiving.used
           b == packet.bytes
           c == Contents(receiving)
           h == SubSeq(c, 1, n)
           d == SubSeq(c, n + 1, Len(c))
           r == Take(receiving, n)
           p == Cut(packet, Peek(receiving, n))
<1>1. n > 0 /\ packet' = p /\ receiving' = r /\ net' = net
    BY DEF ReadMore
<1>2. /\ IsRing(receiving) /\ c \in Seq(TypedByte) /\ net \in Seq(TypedByte)
      /\ IsPart(packet) /\ b \in Seq(TypedByte) /\ InOrder((b \o c) \o net) /\ Fresh((b \o c) \o net)
    BY DEF InInv, InGood, IsPart
<1>3. receiving.used \in Nat /\ wanted \in Nat \ {0}
    BY <1>2 DEF IsRing, IsPart
<1>4. n \in 1..receiving.used /\ n <= wanted /\ n \in 0..receiving.used
    BY <1>1, <1>3
<1>5. Len(c) = receiving.used
    BY <1>2, ContentsIsSeq
<1> HIDE DEF n
<1>6. h \in Seq(TypedByte) /\ Len(h) = n /\ d \in Seq(TypedByte) /\ c = h \o d /\ h # <<>>
    <2>1. n \in 0..Len(c) /\ n # 0
        BY <1>4, <1>5
    <2> HIDE DEF c
    <2>2. h \in Seq(TypedByte) /\ Len(h) = n /\ d \in Seq(TypedByte) /\ c = h \o d
        BY <1>2, <2>1, InTwo
    <2> QED BY <2>1, <2>2
<1>7. Peek(receiving, n) = h
    <2>1. /\ Peek(receiving, n) \in Seq(Cell) /\ Len(Peek(receiving, n)) = n
          /\ \A j \in 1..n : Peek(receiving, n)[j] = c[j]
        BY <1>2, <1>4, RingContents
    <2>2. n \in 0..Len(c)
        BY <1>4, <1>5
    <2> HIDE DEF c
    <2>3. \A j \in 1..n : h[j] = c[j]
        BY <1>2, <2>2, InTwo
    <2>4. h \in Seq(Cell)
        BY <1>6, TypedAreCells
    <2> DEFINE k == Peek(receiving, n)
    <2> HIDE DEF h, k
    <2>5. k = h
        BY <1>6, <2>1, <2>3, <2>4, SeqEqual DEF k
    <2> QED BY <2>5 DEF k
<1>8. IsRing(r) /\ Contents(r) = d
    BY <1>2, <1>4, <1>5, TakeRing
<1>9. p = Cut(packet, h)
    BY <1>7
<1>10. /\ packet.state = "ReadData" => Len(h) <= packet.length
       /\ packet.state # "ReadData" => Len(h) = 1
    BY <1>4, <1>6
<1> HIDE DEF r, p, h, d, c, b, wanted
<1>11. d \o net \in Seq(TypedByte) /\ b \o h \in Seq(TypedByte)
    BY <1>2, <1>6, ConcatProperties
<1>12. (b \o c) \o net = (b \o h) \o (d \o net)
    <2>1. /\ b \in Seq(TypedByte) /\ net \in Seq(TypedByte)
          /\ h \in Seq(TypedByte) /\ d \in Seq(TypedByte)
        BY <1>2, <1>6
    <2>2. (b \o h) \o (d \o net) = (b \o (h \o d)) \o net
        BY SMTT(20), <2>1, RegroupMiddle
    <2> QED BY <1>6, <2>2
<1>13. /\ IsPart(p) /\ InOrder(p.bytes \o (d \o net)) /\ Fresh(p.bytes \o (d \o net))
       /\ p.bytes = b \o h \/ p = NoPacket
    <2>1. InOrder((packet.bytes \o h) \o (d \o net)) /\ Fresh((packet.bytes \o h) \o (d \o net))
        BY <1>2, <1>12 DEF b
    <2> QED BY <1>2, <1>6, <1>9, <1>10, <1>11, <2>1, PartGoesOn DEF b
<1>14. (p.bytes \o d) \o net = p.bytes \o (d \o net)
    <2> DEFINE a == p.bytes
    <2>1. a \in Seq(TypedByte) /\ d \in Seq(TypedByte) /\ net \in Seq(TypedByte)
        BY <1>2, <1>6, <1>13 DEF IsPart
    <2> HIDE DEF a
    <2>2. (a \o d) \o net = a \o (d \o net)
        BY <2>1, ConcatAssociative
    <2> QED BY <2>2 DEF a
<1>15. InGood(r, p, net)
    BY <1>2, <1>6, <1>8, <1>13, <1>14 DEF InGood
<1>16. ToServer' = p.bytes \o (d \o net) /\ ToServer = (b \o h) \o (d \o net)
    BY <1>1, <1>8, <1>12, <1>14 DEF ToServer, b, c
<1>17. ToServer' = ToServer \/ ToServer = (b \o h) \o ToServer'
    <2>1. CASE p.bytes = b \o h
        BY <1>16, <2>1
    <2>2. CASE p = NoPacket
        <3>1. p.bytes = <<>> /\ <<>> \o (d \o net) = d \o net
            BY <1>11, <2>2, ConcatEmptySeq DEF NoPacket
        <3> QED BY <1>16, <3>1
    <2> QED BY <1>13, <2>1, <2>2
<1> QED BY <1>1, <1>11, <1>15, <1>17 DEF InInv

-----------------------------------------------------------------------------
(***************************************************************************)
(* Every step.                                                             *)
(***************************************************************************)

\* The invariant of both directions.
StreamInv ==
    /\ OutInv /\ InInv
    /\ connected \in {"open", "closed", "gone"} /\ torn \in BOOLEAN

LEMMA InIsWhole ==
    ASSUME InInv
    PROVE  InOrder(ToServer)
BY DEF InInv, InGood, ToServer

LEMMA StreamInitially ==
    ASSUME Init
    PROVE  StreamInv
<1> DEFINE r == Empty(Size)
           q == Empty(RecvSize)
<1>1. /\ sending = r /\ spare = None /\ upload = NoUpload /\ reading = None
      /\ net = <<>> /\ receiving = q /\ packet = NoPacket
    BY DEF Init
<1>2. IsRing(r) /\ Contents(r) = <<>> /\ r.size = Size /\ IsRing(q) /\ Contents(q) = <<>>
    BY SizesArePositive, EmptyRing
<1> HIDE DEF r, q
<1>3. InOrder(<<>>) /\ Fresh(<<>>) /\ <<>> \o <<>> = <<>>
    BY ConcatEmptySeq, EmptySeq DEF InOrder, Fresh
<1>4. Plain(r, None)
    BY <1>2, <1>3 DEF Plain, Half
<1>5. NoUpload.file = None /\ NoUpload = [file |-> NoUpload.file, pos |-> NoUpload.pos]
    BY DEF NoUpload
<1>6. OutGood(r, None, NoUpload, None, torn)
    BY <1>2, <1>4, <1>5 DEF OutGood, IsBuffer
<1>7. IsPart(NoPacket) /\ NoPacket.bytes = <<>>
    BY EmptySeq DEF IsPart, NoPacket
<1>8. InGood(q, NoPacket, <<>>)
    BY <1>2, <1>3, <1>7, EmptySeq DEF InGood
<1> QED BY <1>1, <1>6, <1>8 DEF StreamInv, OutInv, InInv, Init

LEMMA StreamNext ==
    ASSUME StreamInv, [Next]_vars
    PROVE  StreamInv'
<1>0. connected' \in {"open", "closed", "gone"} /\ torn' \in BOOLEAN
    <2>1. connected \in {"open", "closed", "gone"} /\ torn \in BOOLEAN
        BY DEF StreamInv
    <2> QED BY <2>1 DEF out, Next, Send, Upload, Type, Sends, DoSend, Receives, DoRecv, Tick, UploadMore, UploadEnd,
                        ReadMore, Close, Bury, vars
<1>1. UNCHANGED out => OutInv'
    BY DEF StreamInv, OutInv, out
<1>2. UNCHANGED in => InInv'
    BY DEF StreamInv, InInv, in
<1>3. ASSUME NEW p \in Packet, Send(p) PROVE OutInv' /\ InInv'
    <2>1. UNCHANGED in
        BY <1>3 DEF Send, Close, in
    <2> QED BY <1>2, <1>3, <2>1, SendIsGood DEF StreamInv
<1>4. ASSUME NEW f \in File, Upload(f) PROVE OutInv' /\ InInv'
    <2>1. UNCHANGED in
        BY <1>4 DEF Upload, in
    <2> QED BY <1>2, <1>4, <2>1, UploadIsGood DEF StreamInv
<1>5. ASSUME NEW t \in Typed, Type(t) PROVE OutInv' /\ InInv'
    <2>1. UNCHANGED out
        BY <1>5 DEF Type, out
    <2> QED BY <1>1, <1>5, <2>1, TypeIsGood DEF StreamInv
<1>6. ASSUME NEW n \in 1..Chunk, DoSend(n) PROVE OutInv' /\ InInv'
    <2>1. UNCHANGED in
        BY <1>6 DEF DoSend, in
    <2> QED BY <1>2, <1>6, <2>1, DoSendIsGood DEF StreamInv
<1>7. ASSUME NEW n \in 1..Chunk, DoRecv(n) PROVE OutInv' /\ InInv'
    <2>1. UNCHANGED out
        BY <1>7 DEF DoRecv, out
    <2> QED BY <1>1, <1>7, <2>1, DoRecvIsGood DEF StreamInv
<1>8. ASSUME Uploading, UploadMore PROVE OutInv' /\ InInv'
    <2>1. UNCHANGED in
        BY <1>8 DEF UploadMore, in
    <2> QED BY <1>2, <1>8, <2>1, UploadMoreIsGood DEF StreamInv
<1>9. ASSUME Uploading, UploadEnd PROVE OutInv' /\ InInv'
    <2>1. UNCHANGED in
        BY <1>9 DEF UploadEnd, in
    <2> QED BY <1>2, <1>9, <2>1, UploadEndIsGood DEF StreamInv
<1>10. ASSUME ReadMore PROVE OutInv' /\ InInv'
    <2>1. UNCHANGED out
        BY <1>10 DEF ReadMore, out
    <2> QED BY <1>1, <1>10, <2>1, ReadMoreIsGood DEF StreamInv
<1>11. ASSUME Close \/ Bury \/ UNCHANGED vars PROVE OutInv' /\ InInv'
    <2>1. UNCHANGED out /\ UNCHANGED in
        BY <1>11 DEF Close, Bury, vars
    <2> QED BY <1>1, <1>2, <2>1
<1> QED
    BY <1>0, <1>3, <1>4, <1>5, <1>6, <1>7, <1>8, <1>9, <1>10, <1>11
    DEF StreamInv, Next, Sends, Receives, Tick

\* PacketsWhole: whatever turns the buffers take and however little a socket takes at once,
\* what is on its way is whole packets and files, in order.
THEOREM PacketsAreWhole == Spec => []PacketsWhole
<1>1. Init => StreamInv
    BY StreamInitially
<1>2. StreamInv /\ [Next]_vars => StreamInv'
    BY StreamNext
<1>3. StreamInv => PacketsWhole
    BY OutIsWhole, InIsWhole DEF StreamInv, PacketsWhole
<1> QED BY <1>1, <1>2, <1>3, PTL DEF Spec

-----------------------------------------------------------------------------
(***************************************************************************)
(* The packets of a stream.                                                *)
(***************************************************************************)

\* Induction over sequences, for a set of them.
LEMMA SequencesFollow ==
    ASSUME NEW S, NEW T, <<>> \in T, \A s \in Seq(S), e \in S : s \in T => Append(s, e) \in T
    PROVE  Seq(S) \subseteq T
<1> DEFINE N == {n \in Nat : \A s \in Seq(S) : Len(s) = n => s \in T}
<1>1. 0 \in N
    BY EmptySeq
<1>2. ASSUME NEW n \in Nat, n \in N PROVE n + 1 \in N
    <2> SUFFICES ASSUME NEW s \in Seq(S), Len(s) = n + 1 PROVE s \in T
        OBVIOUS
    <2>1. s # <<>>
        BY <1>2, EmptySeq
    <2>2. PICK u \in Seq(S), e \in S : s = Append(u, e)
        BY <2>1, SequenceEmptyOrAppend
    <2>3. Len(u) \in Nat /\ Len(s) = Len(u) + 1
        BY <2>2, AppendProperties, LenProperties
    <2>4. Len(u) = n
        BY <2>3
    <2>5. u \in T
        BY <1>2, <2>4
    <2> QED BY <2>2, <2>5
<1>3. Nat \subseteq N
    <2> HIDE DEF N
    <2> QED BY <1>1, <1>2, NumbersFollow
<1>4. \A s \in Seq(S) : Len(s) \in N
    BY <1>3, LenProperties
<1> QED BY <1>4

\* One more byte is looked at.
Begin(g, s, n) ==
    IF n = 0 THEN <<>> ELSE IF First(s[n]) THEN Append(g[n - 1], s[n][1]) ELSE g[n - 1]
Begins(g, s) == g = [n \in 0..Len(s) |-> Begin(g, s, n)]

LEMMA BegunExists ==
    ASSUME NEW s \in Seq(Cell)
    PROVE  \E g : Begins(g, s)
<1> DEFINE T == {k \in Nat : \E g : g = [n \in 0..k |-> Begin(g, s, n)]}
<1>1. 0 \in T
    <2> DEFINE g == [n \in 0..0 |-> <<>>]
    <2>1. \A n \in 0..0 : Begin(g, s, n) = <<>>
        BY DEF Begin
    <2>2. g = [n \in 0..0 |-> Begin(g, s, n)]
        <3> HIDE DEF g
        <3>1. g = [n \in 0..0 |-> <<>>]
            BY DEF g
        <3> QED BY Zenon, <2>1, <3>1
    <2> HIDE DEF g
    <2> QED BY <2>2
<1>2. ASSUME NEW k \in Nat, k \in T PROVE k + 1 \in T
    <2>1. PICK g : g = [n \in 0..k |-> Begin(g, s, n)]
        BY <1>2
    <2> DEFINE h == [n \in 0..(k + 1) |-> Begin(g, s, n)]
    <2>2. \A n \in 0..k : h[n] = g[n]
        <3>1. \A n \in 0..k : n \in 0..(k + 1)
            BY <1>2
        <3>2. \A n \in 0..k : g[n] = Begin(g, s, n)
            BY Zenon, <2>1
        <3> QED BY <3>1, <3>2
    <2>3. h = [n \in 0..(k + 1) |-> Begin(g, s, n)]
        OBVIOUS
    <2> HIDE DEF h
    <2>4. \A n \in 0..(k + 1) : Begin(g, s, n) = Begin(h, s, n)
        <3> SUFFICES ASSUME NEW n \in 0..(k + 1) PROVE Begin(g, s, n) = Begin(h, s, n)
            OBVIOUS
        <3>1. n = 0 \/ n - 1 \in 0..k
            BY <1>2
        <3>2. n = 0 \/ h[n - 1] = g[n - 1]
            BY <2>2, <3>1
        <3> QED BY Zenon, <3>2 DEF Begin
    <2>5. h = [n \in 0..(k + 1) |-> Begin(h, s, n)]
        BY Zenon, <2>3, <2>4
    <2> QED BY <1>2, <2>5
<1>3. Nat \subseteq T
    <2> HIDE DEF T
    <2> QED BY <1>1, <1>2, NumbersFollow
<1>4. Len(s) \in T
    BY <1>3, LenProperties
<1> QED BY <1>4 DEF Begins

LEMMA BegunIs ==
    ASSUME NEW s \in Seq(Cell)
    PROVE  \E g : Begins(g, s) /\ Begun(s) = g[Len(s)]
<1> DEFINE g == CHOOSE h : h = [n \in 0..Len(s) |->
                                  IF n = 0 THEN <<>>
                                  ELSE IF First(s[n]) THEN Append(h[n - 1], s[n][1]) ELSE h[n - 1]]
<1>1. Begun(s) = g[Len(s)]
    BY DEF Begun
<1>2. \E h : h = [n \in 0..Len(s) |->
                    IF n = 0 THEN <<>>
                    ELSE IF First(s[n]) THEN Append(h[n - 1], s[n][1]) ELSE h[n - 1]]
    BY Zenon, BegunExists DEF Begins, Begin
<1>3. g = [n \in 0..Len(s) |->
             IF n = 0 THEN <<>>
             ELSE IF First(s[n]) THEN Append(g[n - 1], s[n][1]) ELSE g[n - 1]]
    BY Zenon, <1>2
<1> HIDE DEF g
<1>4. Begins(g, s)
    BY Zenon, <1>3 DEF Begins, Begin
<1> QED BY <1>1, <1>4

LEMMA BegunOfNothing == Begun(<<>>) = <<>>
<1>1. PICK g : Begins(g, <<>>) /\ Begun(<<>>) = g[Len(<<>>)]
    <2>1. <<>> \in Seq(Cell)
        BY EmptySeq
    <2> QED BY <2>1, BegunIs
<1>2. g[0] = Begin(g, <<>>, 0)
    BY <1>1 DEF Begins
<1> QED BY <1>1, <1>2 DEF Begin

\* The packets of a stream are those of the stream before its last byte, and the packet
\* that begins with it.
LEMMA BegunOfAppend ==
    ASSUME NEW s \in Seq(Cell), NEW c \in Cell
    PROVE  Begun(Append(s, c)) = IF First(c) THEN Append(Begun(s), c[1]) ELSE Begun(s)
<1> DEFINE t == Append(s, c)
           n == Len(s)
<1>1. t \in Seq(Cell) /\ Len(t) = n + 1 /\ (\A i \in 1..n : t[i] = s[i]) /\ t[n + 1] = c /\ n \in Nat
    <2> HIDE DEF Cell
    <2> QED BY AppendProperties, LenProperties
<1> HIDE DEF t, n
<1>2. PICK g : Begins(g, s) /\ Begun(s) = g[n]
    BY BegunIs DEF n
<1>3. PICK h : Begins(h, t) /\ Begun(t) = h[n + 1]
    <2>1. \E h : Begins(h, t) /\ Begun(t) = h[Len(t)]
        BY <1>1, BegunIs
    <2> QED BY <1>1, <2>1
<1>4. /\ \A k \in 0..n : g[k] = Begin(g, s, k)
      /\ \A k \in 0..(n + 1) : h[k] = Begin(h, t, k)
    <2>1. g = [k \in 0..n |-> Begin(g, s, k)] /\ h = [k \in 0..(n + 1) |-> Begin(h, t, k)]
        BY Zenon, <1>1, <1>2, <1>3 DEF Begins, n
    <2> QED BY Zenon, <2>1
<1> DEFINE T == {k \in Nat : k <= n => h[k] = g[k]}
<1>5. 0 \in T
    <2>1. 0 \in 0..n /\ 0 \in 0..(n + 1)
        BY <1>1
    <2>2. h[0] = <<>> /\ g[0] = <<>>
        BY <1>4, <2>1 DEF Begin
    <2> QED BY <2>2
<1>6. ASSUME NEW k \in Nat, k \in T PROVE k + 1 \in T
    <2> SUFFICES ASSUME k + 1 <= n PROVE h[k + 1] = g[k + 1]
        BY <1>6
    <2>1. k + 1 \in 0..n /\ k + 1 \in 0..(n + 1) /\ k + 1 \in 1..n /\ (k + 1) - 1 = k /\ k + 1 # 0 /\ k <= n
        BY <1>1, <1>6
    <2>2. h[k] = g[k] /\ t[k + 1] = s[k + 1]
        BY <1>1, <1>6, <2>1
    <2>3. h[k + 1] = Begin(h, t, k + 1) /\ g[k + 1] = Begin(g, s, k + 1)
        BY <1>4, <2>1
    <2>4. Begin(h, t, k + 1) = Begin(g, s, k + 1)
        BY <2>1, <2>2 DEF Begin
    <2> QED BY <2>3, <2>4
<1>7. n \in T
    <2>1. Nat \subseteq T
        <3> HIDE DEF T
        <3> QED BY <1>5, <1>6, NumbersFollow
    <2> QED BY <1>1, <2>1
<1>8. h[n] = g[n]
    BY <1>1, <1>7
<1>9. h[n + 1] = Begin(h, t, n + 1)
    <2>1. n + 1 \in 0..(n + 1)
        BY <1>1
    <2> QED BY <1>4, <2>1
<1>10. Begin(h, t, n + 1) = IF First(c) THEN Append(h[n], c[1]) ELSE h[n]
    <2>1. n + 1 # 0 /\ (n + 1) - 1 = n
        BY <1>1
    <2> QED BY <1>1, <2>1 DEF Begin
<1> QED BY <1>2, <1>3, <1>8, <1>9, <1>10 DEF t

LEMMA BegunIsSeq ==
    ASSUME NEW s \in Seq(Cell)
    PROVE  Begun(s) \in Seq(Sent)
<1> DEFINE T == {u \in Seq(Cell) : Begun(u) \in Seq(Sent)}
<1>1. <<>> \in T
    BY BegunOfNothing, EmptySeq
<1>2. ASSUME NEW u \in Seq(Cell), NEW e \in Cell, u \in T PROVE Append(u, e) \in T
    <2>1. Append(u, e) \in Seq(Cell)
        <3> HIDE DEF Cell
        <3> QED BY AppendProperties
    <2>2. First(e) => e[1] \in Sent
        BY Cells DEF First
    <2>3. Begun(Append(u, e)) = IF First(e) THEN Append(Begun(u), e[1]) ELSE Begun(u)
        BY BegunOfAppend
    <2>4. Begun(u) \in Seq(Sent)
        BY <1>2
    <2>5. First(e) => Append(Begun(u), e[1]) \in Seq(Sent)
        <3> HIDE DEF Sent
        <3> QED BY <2>2, <2>4, AppendProperties
    <2> QED BY <2>1, <2>3, <2>4, <2>5
<1>3. Seq(Cell) \subseteq T
    <2> HIDE DEF T, Cell
    <2> QED BY <1>1, <1>2, SequencesFollow
<1> QED BY <1>3

\* The packets of one stream and then those of another.
LEMMA BegunOfConcat ==
    ASSUME NEW s \in Seq(Cell), NEW t \in Seq(Cell)
    PROVE  Begun(s \o t) = Begun(s) \o Begun(t)
<1> DEFINE T == {u \in Seq(Cell) : Begun(s \o u) = Begun(s) \o Begun(u)}
<1>0. Begun(s) \in Seq(Sent) /\ \A u \in Seq(Cell) : Begun(u) \in Seq(Sent)
    BY BegunIsSeq
<1>1. <<>> \in T
    <2>1. s \o <<>> = s /\ Begun(s) \o <<>> = Begun(s) /\ <<>> \in Seq(Cell)
        BY <1>0, ConcatEmptySeq, EmptySeq
    <2> QED BY <2>1, BegunOfNothing
<1>2. ASSUME NEW u \in Seq(Cell), NEW e \in Cell, u \in T PROVE Append(u, e) \in T
    <2> DEFINE w == s \o u
    <2>1. Append(u, e) \in Seq(Cell) /\ w \in Seq(Cell)
        <3> HIDE DEF Cell
        <3> QED BY AppendProperties, ConcatProperties
    <2>2. s \o Append(u, e) = Append(w, e)
        <3>1. <<e>> \in Seq(Cell)
            <4> HIDE DEF Cell
            <4> QED OBVIOUS
        <3> HIDE DEF Cell, w
        <3>2. Append(u, e) = u \o <<e>> /\ Append(w, e) = w \o <<e>>
            BY <2>1, AppendIsConcat
        <3>3. s \o (u \o <<e>>) = (s \o u) \o <<e>>
            BY <3>1, ConcatAssociative
        <3> QED BY <3>2, <3>3 DEF w
    <2>3. Begun(w) = Begun(s) \o Begun(u)
        BY <1>2
    <2> HIDE DEF w
    <2>4. Begun(Append(w, e)) = IF First(e) THEN Append(Begun(w), e[1]) ELSE Begun(w)
        BY <2>1, BegunOfAppend
    <2>5. Begun(Append(u, e)) = IF First(e) THEN Append(Begun(u), e[1]) ELSE Begun(u)
        BY BegunOfAppend
    <2>6. First(e) => Append(Begun(s) \o Begun(u), e[1]) = Begun(s) \o Append(Begun(u), e[1])
        <3> SUFFICES ASSUME First(e)
                     PROVE  Append(Begun(s) \o Begun(u), e[1]) = Begun(s) \o Append(Begun(u), e[1])
            OBVIOUS
        <3> DEFINE a == Begun(s)
                   b == Begun(u)
                   p == e[1]
        <3>1. a \in Seq(Sent) /\ b \in Seq(Sent) /\ p \in Sent
            BY <1>0, Cells DEF First
        <3> HIDE DEF a, b, p, Sent
        <3>2. a \o b \in Seq(Sent) /\ <<p>> \in Seq(Sent)
            BY <3>1, ConcatProperties
        <3>3. Append(a \o b, p) = (a \o b) \o <<p>> /\ Append(b, p) = b \o <<p>>
            BY <3>1, <3>2, AppendIsConcat
        <3>4. (a \o b) \o <<p>> = a \o (b \o <<p>>)
            BY <3>1, <3>2, ConcatAssociative
        <3>5. Append(a \o b, p) = a \o Append(b, p)
            BY <3>3, <3>4
        <3> QED BY <3>5 DEF a, b, p
    <2>7. Begun(s \o Append(u, e)) = Begun(s) \o Begun(Append(u, e))
        BY <2>2, <2>3, <2>4, <2>5, <2>6
    <2> QED BY <2>1, <2>7
<1>3. Seq(Cell) \subseteq T
    <2> HIDE DEF T, Cell
    <2> QED BY <1>1, <1>2, SequencesFollow
<1> QED BY <1>3

\* Without the first byte of a packet there is none.
LEMMA BegunOfRest ==
    ASSUME NEW s \in Seq(Cell), \A i \in 1..Len(s) : ~First(s[i])
    PROVE  Begun(s) = <<>>
<1> DEFINE T == {u \in Seq(Cell) : (\A i \in 1..Len(u) : ~First(u[i])) => Begun(u) = <<>>}
<1>1. <<>> \in T
    BY BegunOfNothing, EmptySeq
<1>2. ASSUME NEW u \in Seq(Cell), NEW e \in Cell, u \in T PROVE Append(u, e) \in T
    <2>1. /\ Append(u, e) \in Seq(Cell) /\ Len(Append(u, e)) = Len(u) + 1 /\ Len(u) \in Nat
          /\ \A i \in 1..Len(u) : Append(u, e)[i] = u[i]
          /\ Append(u, e)[Len(u) + 1] = e
        <3> HIDE DEF Cell
        <3> QED BY AppendProperties, LenProperties
    <2> SUFFICES ASSUME \A i \in 1..Len(Append(u, e)) : ~First(Append(u, e)[i])
                 PROVE  Begun(Append(u, e)) = <<>>
        BY <2>1
    <2>2. Len(u) + 1 \in 1..Len(Append(u, e)) /\ \A i \in 1..Len(u) : i \in 1..Len(Append(u, e))
        BY <2>1
    <2>3. ~First(e) /\ \A i \in 1..Len(u) : ~First(u[i])
        BY <2>1, <2>2
    <2>4. Begun(u) = <<>>
        BY <1>2, <2>3
    <2> QED BY <2>3, <2>4, BegunOfAppend
<1>3. Seq(Cell) \subseteq T
    <2> HIDE DEF T, Cell
    <2> QED BY <1>1, <1>2, SequencesFollow
<1> QED BY <1>3

\* A packet of which only the first byte is a first one.
LEMMA BegunOfOne ==
    ASSUME NEW s \in Seq(Cell), s # <<>>, First(s[1]), \A i \in 2..Len(s) : ~First(s[i])
    PROVE  Begun(s) = <<s[1][1]>>
<1>1. Len(s) \in Nat /\ Len(s) # 0
    BY LenProperties, EmptySeq
<1>2. 1 \in 0..Len(s) /\ 1 \in 1..1 /\ 1 \in 1..Len(s)
    BY <1>1
<1> DEFINE h == SubSeq(s, 1, 1)
           rest == SubSeq(s, 2, Len(s))
           c == s[1]
<1>3. h \in Seq(Cell) /\ Len(h) = 1 /\ rest \in Seq(Cell) /\ s = h \o rest /\ h[1] = c
    <2> HIDE DEF Cell
    <2>1. /\ SubSeq(s, 1, 1) \in Seq(Cell) /\ Len(SubSeq(s, 1, 1)) = 1
          /\ SubSeq(s, 1 + 1, Len(s)) \in Seq(Cell)
          /\ s = SubSeq(s, 1, 1) \o SubSeq(s, 1 + 1, Len(s))
          /\ \A k \in 1..1 : SubSeq(s, 1, 1)[k] = s[k]
        BY <1>2, InTwo
    <2> QED BY <1>2, <2>1
<1>4. c \in Cell
    BY <1>2, ElementOfSeq
<1> HIDE DEF h, rest
<1>5. /\ Len(h \o rest) = Len(h) + Len(rest)
      /\ \A i \in 1..(Len(h) + Len(rest)) : (h \o rest)[i] = IF i <= Len(h) THEN h[i] ELSE rest[i - Len(h)]
    BY <1>3, ConcatProperties
<1>6. \A i \in 1..Len(rest) : ~First(rest[i])
    <2> SUFFICES ASSUME NEW i \in 1..Len(rest) PROVE ~First(rest[i])
        OBVIOUS
    <2>1. Len(rest) \in Nat
        BY <1>3, LenProperties
    <2>2. i + 1 \in 1..(1 + Len(rest)) /\ ~(i + 1 <= 1) /\ (i + 1) - 1 = i /\ i + 1 \in 2..(1 + Len(rest))
        BY <2>1
    <2>3. s[i + 1] = rest[i]
        BY <1>3, <1>5, <2>2
    <2>4. Len(s) = 1 + Len(rest)
        BY <1>3, <1>5
    <2> QED BY <2>2, <2>3, <2>4
<1>7. Begun(rest) = <<>>
    BY <1>3, <1>6, BegunOfRest
<1>8. h = Append(<<>>, c)
    <2>1. Append(<<>>, c) \in Seq(Cell) /\ Len(Append(<<>>, c)) = 1 /\ Append(<<>>, c)[1] = c
        <3> HIDE DEF Cell
        <3> QED BY <1>4
    <2> DEFINE a == Append(<<>>, c)
    <2> HIDE DEF a, c
    <2>2. Len(a) = Len(h) /\ \A i \in 1..Len(a) : a[i] = h[i]
        BY <1>3, <2>1 DEF a
    <2>3. a \in Seq(Cell)
        BY <2>1 DEF a
    <2>4. a = h
        BY <1>3, <2>2, <2>3, SeqEqual
    <2> QED BY <2>4 DEF a
<1>9. Begun(h) = <<c[1]>>
    <2>1. <<>> \in Seq(Cell) /\ First(c)
        BY EmptySeq
    <2>2. Begun(Append(<<>>, c)) = Append(Begun(<<>>), c[1])
        BY <1>4, <2>1, BegunOfAppend
    <2>3. Append(<<>>, c[1]) = <<c[1]>>
        OBVIOUS
    <2> QED BY <1>8, <2>2, <2>3, BegunOfNothing
<1>10. Begun(s) = Begun(h) \o Begun(rest)
    BY <1>3, BegunOfConcat
<1>11. <<c[1]>> \o <<>> = <<c[1]>>
    <2>1. <<c[1]>> \in Seq({c[1]})
        OBVIOUS
    <2> QED BY <2>1, ConcatEmptySeq
<1> QED BY <1>7, <1>9, <1>10, <1>11

-----------------------------------------------------------------------------
(***************************************************************************)
(* What is owed to the player.                                             *)
(***************************************************************************)
\* A packet of which the player has read some is still owed.
HalfOwed(b) == IF b = None THEN <<>> ELSE <<b[1]>>

\* What is on its way, from the buffers.
Line(r, up, waits) ==
    (Contents(r) \o (IF up.file = None THEN <<>>
                     ELSE Bytes(up.file, Filled(up.file, up.pos) + 1, LengthOf(up.file))))
        \o (IF up.file = None THEN <<>> ELSE Contents(waits))

Promised(r, up, waits, b) == HalfOwed(b) \o Begun(Line(r, up, waits))

LEMMA OwedIs ==
    /\ Owed = IF torn \/ connected = "gone" THEN <<>> ELSE Promised(sending, upload, spare, reading)
    /\ Owed' = IF torn' \/ connected' = "gone" THEN <<>>
               ELSE Promised(sending', upload', spare', reading')
<1>1. ToPlayer = Line(sending, upload, spare)
    <2>1. CASE upload.file = None
        BY <2>1 DEF ToPlayer, Line, Uploading, Filled
    <2>2. CASE upload.file # None
        BY <2>2 DEF ToPlayer, Line, Uploading, Filled
    <2> QED BY <2>1, <2>2
<1>2. ToPlayer' = Line(sending', upload', spare')
    <2>1. CASE upload'.file = None
        BY <2>1 DEF ToPlayer, Line, Uploading, Filled
    <2>2. CASE upload'.file # None
        BY <2>2 DEF ToPlayer, Line, Uploading, Filled
    <2> QED BY <2>1, <2>2
<1> QED BY <1>1, <1>2 DEF Owed, Unread, HalfOwed, Promised

LEMMA HalfOwedIsSeq ==
    ASSUME NEW b, b = None \/ (b \in Byte /\ ~Ends(b))
    PROVE  HalfOwed(b) \in Seq(Sent)
<1>1. <<>> \in Seq(Sent)
    BY EmptySeq
<1>2. b # None => b[1] \in Sent
    BY Cells
<1>3. b # None => <<b[1]>> \in Seq(Sent)
    <2> HIDE DEF Sent
    <2> QED BY <1>2
<1> QED BY <1>1, <1>3 DEF HalfOwed

\* A packet that is sent is one packet.
LEMMA BegunOfWhole ==
    ASSUME NEW p \in Sent
    PROVE  Whole(p) \in Seq(Cell) /\ Begun(Whole(p)) = <<p>>
<1> DEFINE s == Whole(p)
           n == LengthOf(p)
<1>1. n \in Nat \ {0} /\ 1 \in 1..n /\ n - 1 + 1 = n
    BY Lengths
<1>2. s \in Seq(Byte) /\ Len(s) = n - 1 + 1 /\ \A k \in 1..Len(s) : s[k] = <<p, 1 + k - 1>>
    BY <1>1, WholeInOrder DEF Whole
<1>3. s \in Seq(Cell)
    <2>1. Byte \subseteq Cell
        BY DEF Cell
    <2> HIDE DEF Byte, Cell
    <2> QED BY <1>2, <2>1, SeqMonotonic
<1> HIDE DEF s, n
<1>4. Len(s) = n /\ 1 \in 1..Len(s)
    BY <1>1, <1>2
<1>5. \A k \in 1..Len(s) : s[k] = <<p, k>> /\ s[k] # Blank
    <2> SUFFICES ASSUME NEW k \in 1..Len(s) PROVE s[k] = <<p, k>> /\ s[k] # Blank
        OBVIOUS
    <2>1. k \in Nat \ {0} /\ 1 + k - 1 = k
        BY <1>1, <1>4
    <2>2. s[k] = <<p, k>>
        BY <1>2, <2>1
    <2>3. <<p, k>> \in Byte
        BY <2>1, Cells
    <2> QED BY <2>2, <2>3, Cells
<1>6. First(s[1]) /\ \A k \in 2..Len(s) : ~First(s[k])
    <2>1. \A k \in 2..Len(s) : k \in 1..Len(s) /\ k # 1
        BY <1>1, <1>4
    <2>2. \A k \in 1..Len(s) : First(s[k]) <=> k = 1
        BY <1>5 DEF First
    <2> QED BY <1>4, <2>1, <2>2
<1>7. s # <<>> /\ s[1][1] = p
    BY <1>1, <1>4, <1>5
<1> QED BY <1>3, <1>6, <1>7, BegunOfOne DEF s

\* Of a file the packet is the first byte.
LEMMA BegunOfFile ==
    ASSUME NEW f \in File, NEW T \in Nat, NEW m \in 0..LengthOf(f)
    PROVE  /\ FileRest(f, T, m) \in Seq(Cell)
           /\ Begun(FileRest(f, T, m)) = IF m = 0 THEN <<f>> ELSE <<>>
<1> DEFINE s == FileRest(f, T, m)
           n == LengthOf(f)
<1>1. n \in Nat \ {0} /\ m \in 0..n
    BY Lengths DEF Sent
<1>2. s \in Seq(Cell) /\ Len(s) = n - m /\ \A k \in 1..Len(s) : s[k] = FileByte(f, T, m + k)
    BY FileRestInOrder
<1> HIDE DEF s, n
<1>3. \A k \in 1..Len(s) : First(s[k]) => m + k = 1
    <2> SUFFICES ASSUME NEW k \in 1..Len(s), First(s[k]) PROVE m + k = 1
        OBVIOUS
    <2>1. m + k \in 1..n
        BY <1>1, <1>2
    <2>2. s[k] = <<f, m + k>> \/ s[k] = Blank
        <3>1. s[k] = FileByte(f, T, m + k)
            BY <1>2
        <3> QED BY <3>1 DEF FileByte
    <2> QED BY <2>2 DEF First
<1>4. CASE m = 0
    <2>1. 1 \in 1..Len(s) /\ m + 1 = 1 /\ 1 \in 1..n
        BY <1>1, <1>2, <1>4
    <2>2. s[1] = <<f, 1>>
        <3>1. s[1] = FileByte(f, T, 1)
            BY <1>2, <2>1
        <3> QED BY <2>1, <3>1, FileBytes DEF n
    <2>3. First(s[1])
        <3>1. <<f, 1>> \in Byte
            BY Cells DEF Sent
        <3> QED BY <2>2, <3>1, Cells DEF First
    <2>4. \A k \in 2..Len(s) : ~First(s[k])
        <3>1. \A k \in 2..Len(s) : k \in 1..Len(s) /\ m + k # 1
            BY <1>1, <1>2, <1>4
        <3> QED BY <1>3, <3>1
    <2>5. s # <<>>
        BY <2>1
    <2>6. Begun(s) = <<f>>
        <3>1. Begun(s) = <<s[1][1]>>
            BY <1>2, <2>3, <2>4, <2>5, BegunOfOne
        <3> QED BY <2>2, <3>1
    <2> QED BY <1>2, <1>4, <2>6 DEF s
<1>5. CASE m # 0
    <2>1. \A k \in 1..Len(s) : ~First(s[k])
        <3>1. \A k \in 1..Len(s) : m + k # 1
            BY <1>1, <1>2, <1>5
        <3> QED BY <1>3, <3>1
    <2>2. Begun(s) = <<>>
        BY <1>2, <2>1, BegunOfRest
    <2> QED BY <1>2, <1>5, <2>2 DEF s
<1> QED BY <1>4, <1>5

LEMMA PlainPromise ==
    ASSUME NEW r, IsBuffer(r), NEW up, up.file = None, NEW waits, NEW b
    PROVE  Promised(r, up, waits, b) = HalfOwed(b) \o Begun(Contents(r))
<1>1. Line(r, up, waits) = (Contents(r) \o <<>>) \o <<>>
    BY DEF Line
<1>2. Contents(r) \o <<>> = Contents(r)
    BY ContentsIsSeq, ConcatEmptySeq DEF IsBuffer
<1> QED BY <1>1, <1>2 DEF Promised

\* Until the last byte of a file was read the file is owed, and then what waits for it.
LEMMA FiledPromise ==
    ASSUME NEW r, NEW up, NEW waits, NEW b, OutGood(r, waits, up, b, FALSE), up.file # None
    PROVE  /\ Away(r, up) \in 0..LengthOf(up.file) /\ LengthOf(up.file) \in Nat
           /\ Begun(Contents(waits)) \in Seq(Sent)
           /\ Promised(r, up, waits, b) =
                 (IF Away(r, up) < LengthOf(up.file) THEN <<up.file>> ELSE <<>>) \o Begun(Contents(waits))
<1> DEFINE f == up.file
           T == Filled(f, up.pos)
           m == T - r.used
           rest == Bytes(f, T + 1, LengthOf(f))
           c == Contents(r)
           w == Contents(waits)
           s == FileRest(f, T, m)
           n == LengthOf(f)
<1>1. /\ f \in File /\ up.pos \in 0..FileSize[f] /\ IsUpload(r, f, up.pos) /\ IsBuffer(waits)
      /\ b = IF Away(r, up) \in 1..(n - 1) THEN <<f, Away(r, up)>> ELSE None
    BY DEF OutGood, Filed
<1>2. T \in 1..n /\ n \in Nat \ {0} /\ r.used \in 0..T
    BY <1>1, UploadSizes DEF IsUpload
<1>3. m \in 0..n /\ T \in Nat /\ m = Away(r, up)
    <2>1. m = Away(r, up)
        BY DEF Away
    <2> HIDE DEF T, n
    <2> QED BY <1>2, <2>1
<1>4. Line(r, up, waits) = (c \o rest) \o w
    BY DEF Line
<1>5. c \o rest = s
    BY <1>1, UploadContents
<1>6. s \in Seq(Cell) /\ Begun(s) = IF m = 0 THEN <<f>> ELSE <<>>
    BY <1>1, <1>3, BegunOfFile
<1>7. w \in Seq(Cell)
    BY <1>1, ContentsIsSeq DEF IsBuffer
<1>8. Begun(w) \in Seq(Sent)
    BY <1>7, BegunIsSeq
<1>9. b = IF m \in 1..(n - 1) THEN <<f, m>> ELSE None
    BY <1>1, <1>3
<1>10. m \in 1..(n - 1) => <<f, m>> # None
    <2>1. m \in 1..(n - 1) => <<f, m>> \in Byte
        BY <1>1, Cells DEF Sent
    <2> QED BY <2>1, Cells
<1> HIDE DEF m, s, w, c, rest, n, f
<1>11. Begun(s \o w) = Begun(s) \o Begun(w)
    BY <1>6, <1>7, BegunOfConcat
<1> DEFINE o == Begun(w)
<1> HIDE DEF o
<1>12. <<f>> \in Seq(Sent) /\ <<>> \in Seq(Sent) /\ o \in Seq(Sent)
    <2>1. f \in Sent
        BY <1>1 DEF Sent
    <2> HIDE DEF Sent
    <2> QED BY <1>8, <2>1, EmptySeq DEF o
<1>13. <<>> \o o = o /\ <<>> \o (<<f>> \o o) = <<f>> \o o
    <2>1. <<f>> \o o \in Seq(Sent)
        <3> HIDE DEF Sent
        <3> QED BY <1>12, ConcatProperties
    <2> QED BY <1>12, <2>1, ConcatEmptySeq
<1>14. HalfOwed(b) \o (Begun(s) \o o) = (IF m < n THEN <<f>> ELSE <<>>) \o o
    <2>1. CASE m = 0
        <3>1. b = None /\ m < n
            BY <1>2, <1>9, <2>1
        <3> QED BY <1>6, <1>13, <2>1, <3>1 DEF HalfOwed
    <2>2. CASE m \in 1..(n - 1)
        <3>1. b # None /\ b[1] = f /\ m < n /\ m # 0
            BY <1>2, <1>9, <1>10, <2>2
        <3> QED BY <1>6, <1>13, <3>1 DEF HalfOwed
    <2>3. CASE m = n
        <3>1. ~(m \in 1..(n - 1)) /\ ~(m < n) /\ m # 0
            BY <1>2, <2>3
        <3> QED BY <1>6, <1>9, <1>13, <3>1 DEF HalfOwed
    <2>4. m = 0 \/ m \in 1..(n - 1) \/ m = n
        BY <1>2, <1>3
    <2> QED BY <2>1, <2>2, <2>3, <2>4
<1>15. Promised(r, up, waits, b) = (IF m < n THEN <<f>> ELSE <<>>) \o o
    BY <1>4, <1>5, <1>11, <1>14 DEF Promised, o
<1> QED BY <1>2, <1>3, <1>8, <1>15 DEF o, w, m, n, f

\* What was read of a packet that has not ended is owed with it.
LEMMA HalfLeft ==
    ASSUME NEW s \in Seq(Cell), NEW b, b = None \/ (b \in Byte /\ ~Ends(b)),
           InOrder(Half(b) \o s), b = None => Fresh(s),
           NEW n \in 1..Len(s), ~Ends(s[n])
    PROVE  \E X \in Seq(Sent) : HalfOwed(b) \o Begun(SubSeq(s, 1, n)) = X \o <<s[n][1]>>
<1> DEFINE o == HalfOwed(b)
           Upto(k) == SubSeq(s, 1, k)
           Before(k) == IF k = 0 THEN b ELSE s[k]
           Goes(k) == Before(k) # None /\ ~Ends(Before(k))
           P(k) == Goes(k) => \E X \in Seq(Sent) : o \o Begun(Upto(k)) = X \o <<Before(k)[1]>>
           T == {k \in Nat : k <= Len(s) => P(k)}
<1>0. Len(s) \in Nat /\ n \in 1..Len(s)
    BY LenProperties
<1>1. o \in Seq(Sent)
    BY HalfOwedIsSeq
<1>2. InOrder(s)
    BY TailInOrder
<1>3. \A k \in 0..Len(s) : Upto(k) \in Seq(Cell) /\ Begun(Upto(k)) \in Seq(Sent)
    <2> SUFFICES ASSUME NEW k \in 0..Len(s) PROVE Upto(k) \in Seq(Cell) /\ Begun(Upto(k)) \in Seq(Sent)
        OBVIOUS
    <2>1. Upto(k) \in Seq(Cell)
        <3> HIDE DEF Cell
        <3> QED BY InTwo
    <2> QED BY <2>1, BegunIsSeq
<1>4. \A k \in 1..Len(s) : s[k] \in Cell /\ (~Ends(s[k]) => s[k] \in Byte /\ s[k] # None /\ s[k][1] \in Sent)
    <2> SUFFICES ASSUME NEW k \in 1..Len(s)
                 PROVE  s[k] \in Cell /\ (~Ends(s[k]) => s[k] \in Byte /\ s[k] # None /\ s[k][1] \in Sent)
        OBVIOUS
    <2>1. s[k] \in Cell
        BY ElementOfSeq
    <2>2. ~Ends(s[k]) => s[k] # Blank
        BY DEF Ends
    <2> QED BY <2>1, <2>2, Cells
<1>5. 0 \in T
    <2> SUFFICES ASSUME Goes(0) PROVE \E X \in Seq(Sent) : o \o Begun(Upto(0)) = X \o <<b[1]>>
        OBVIOUS
    <2>1. b # None /\ b[1] \in Sent
        BY Cells
    <2>2. Upto(0) = <<>>
        BY <1>0
    <2>3. o = <<b[1]>> /\ o \o <<>> = o /\ <<>> \o <<b[1]>> = <<b[1]>> /\ <<>> \in Seq(Sent)
        <3>1. o = <<b[1]>>
            BY <2>1 DEF HalfOwed
        <3>2. o \o <<>> = o /\ <<>> \o o = o
            BY <1>1, ConcatEmptySeq
        <3> QED BY <3>1, <3>2, EmptySeq
    <2> QED BY <2>2, <2>3, BegunOfNothing
<1>6. ASSUME NEW k \in Nat, k \in T PROVE k + 1 \in T
    <2> SUFFICES ASSUME k + 1 <= Len(s), Goes(k + 1)
                 PROVE  \E X \in Seq(Sent) : o \o Begun(Upto(k + 1)) = X \o <<s[k + 1][1]>>
        BY SMTT(20), <1>0
    <2> DEFINE c == s[k + 1]
               e == Before(k)
               h == Upto(k)
    <2>1. k + 1 \in 1..Len(s) /\ k \in 0..Len(s) /\ k + 1 # 0 /\ k <= Len(s)
        BY <1>0, <1>6
    <2>2. c \in Cell /\ ~Ends(c) /\ c[1] \in Sent
        <3>1. Before(k + 1) = c
            BY <2>1
        <3> QED BY <1>4, <2>1, <3>1
    <2>3. h \in Seq(Cell) /\ Begun(h) \in Seq(Sent)
        BY <1>3, <2>1
    <2>4. Upto(k + 1) = Append(h, c)
        <3>1. 1 \in 1..Len(s) /\ k + 1 \in 1..Len(s) /\ (k + 1) - 1 = k
            BY <1>0, <2>1
        <3>2. SubSeq(s, 1, k + 1) = SubSeq(s, 1, (k + 1) - 1) \o <<s[k + 1]>>
            <4> HIDE DEF Cell
            <4> QED BY <3>1, SubSeqRecursiveSecond
        <3>3. Append(h, c) = h \o <<c>>
            <4> HIDE DEF Cell, h, c
            <4> QED BY <2>2, <2>3, AppendIsConcat
        <3> QED BY <3>1, <3>2, <3>3
    <2>5. Begun(Upto(k + 1)) = IF First(c) THEN Append(Begun(h), c[1]) ELSE Begun(h)
        BY <2>2, <2>3, <2>4, BegunOfAppend
    <2>6. CASE First(c)
        <3> DEFINE q == Begun(h)
                   p == c[1]
        <3>1. Append(q, p) = q \o <<p>> /\ o \o q \in Seq(Sent) /\ <<p>> \in Seq(Sent)
            <4>1. q \in Seq(Sent) /\ p \in Sent
                BY <2>2, <2>3
            <4> HIDE DEF q, p, o, Sent
            <4> QED BY <1>1, <4>1, AppendIsConcat, ConcatProperties
        <3>2. o \o (q \o <<p>>) = (o \o q) \o <<p>>
            <4>1. q \in Seq(Sent)
                BY <2>3
            <4> HIDE DEF q, p, o, Sent
            <4> QED BY <1>1, <3>1, <4>1, ConcatAssociative
        <3> QED BY <2>5, <2>6, <3>1, <3>2
    <2>7. CASE ~First(c)
        <3>1. Follows(e, c) /\ e # None
            <4>1. CASE k = 0
                <5>1. e = b /\ c = s[1] /\ s # <<>>
                    BY <2>1, <4>1
                <5>2. b # None
                    BY <2>7, <5>1 DEF Fresh
                <5>3. Follows(b, c)
                    <6> DEFINE u == <<b>> \o s
                    <6>1. b \in Cell /\ u = Half(b) \o s
                        BY <5>2 DEF Half, Cell
                    <6>2. <<b>> \in Seq(Cell) /\ Len(<<b>>) = 1
                        <7> HIDE DEF Cell
                        <7> QED BY <6>1
                    <6>3. /\ Len(u) = 1 + Len(s)
                          /\ \A i \in 1..(1 + Len(s)) : u[i] = IF i <= 1 THEN <<b>>[i] ELSE s[i - 1]
                        <7> HIDE DEF Cell
                        <7> QED BY <6>2, ConcatProperties
                    <6> HIDE DEF u
                    <6>4. u[1] = b /\ u[2] = s[1] /\ 2 \in 2..Len(u) /\ 2 - 1 = 1
                        <7>1. 1 \in 1..(1 + Len(s)) /\ 2 \in 1..(1 + Len(s)) /\ 2 \in 2..(1 + Len(s))
                            BY <1>0, <2>1
                        <7> QED BY <6>3, <7>1
                    <6>5. Follows(u[2 - 1], u[2])
                        BY <6>1, <6>4 DEF InOrder
                    <6> QED BY <5>1, <6>4, <6>5
                <5> QED BY <5>1, <5>2, <5>3
            <4>2. CASE k # 0
                <5>1. e = s[k] /\ k + 1 \in 2..Len(s) /\ (k + 1) - 1 = k /\ k \in 1..Len(s)
                    BY <1>0, <2>1, <4>2
                <5>2. Follows(s[(k + 1) - 1], s[k + 1])
                    BY <1>2, <5>1 DEF InOrder
                <5>3. s[k] # None
                    <6>1. s[k] \in Byte \/ s[k] = Blank
                        BY <1>4, <5>1 DEF Cell
                    <6>2. ~Ends(s[k])
                        BY <2>2, <2>7, <5>1, <5>2 DEF Follows, Ends
                    <6> QED BY <1>4, <5>1, <6>2
                <5> QED BY <5>1, <5>2, <5>3
            <4> QED BY <4>1, <4>2
        <3>2. c # Blank
            BY <2>2 DEF Ends
        <3>3. ~Ends(e) /\ c[1] = e[1]
            <4> HIDE DEF c, e
            <4>1. ~Ends(e) /\ c = <<e[1], e[2] + 1>>
                BY <2>7, <3>1, <3>2 DEF Follows
            <4> QED BY <4>1
        <3>4. P(k) /\ Goes(k)
            <4> HIDE DEF P
            <4> QED BY <1>6, <2>1, <3>1, <3>3
        <3>5. PICK X \in Seq(Sent) : o \o Begun(h) = X \o <<e[1]>>
            BY <3>4
        <3> HIDE DEF o, h, e
        <3>6. o \o Begun(Upto(k + 1)) = X \o <<c[1]>>
            BY <2>5, <2>7, <3>3, <3>5
        <3> QED BY <3>6
    <2> QED BY <2>6, <2>7
<1>7. n \in T
    <2>1. Nat \subseteq T
        <3> HIDE DEF T
        <3> QED BY <1>5, <1>6, NumbersFollow
    <2>2. n \in Nat
        BY <1>0
    <2> HIDE DEF T
    <2> QED BY <2>1, <2>2
<1>8. P(n) /\ Goes(n) /\ Before(n) = s[n]
    <2>1. n # 0 /\ n <= Len(s)
        BY <1>0
    <2> QED BY <1>4, <1>7, <2>1
<1> QED BY <1>8

\* What a socket takes of packets.
LEMMA TakenIsGiven ==
    ASSUME NEW r, IsBuffer(r), NEW b, b = None \/ (b \in Byte /\ ~Ends(b)), Plain(r, b),
           NEW n \in 1..r.used
    PROVE  LET c == Contents(r)[n]
               d == IF Ends(c) THEN None ELSE c
           IN  \E X \in Seq(Sent) :
                   HalfOwed(b) \o Begun(Contents(r)) = X \o (HalfOwed(d) \o Begun(Contents(Take(r, n))))
<1> DEFINE s == Contents(r)
           c == s[n]
           d == IF Ends(c) THEN None ELSE c
           h == SubSeq(s, 1, n)
           t == Contents(Take(r, n))
           o == HalfOwed(b)
<1>1. s \in Seq(Cell) /\ Len(s) = r.used /\ r.used \in Nat
    BY ContentsIsSeq DEF IsBuffer, IsRing
<1>2. n \in 0..r.used /\ n \in 0..Len(s) /\ n \in 1..Len(s)
    BY <1>1
<1>3. t = SubSeq(s, n + 1, Len(s))
    BY <1>1, <1>2, TakeRing DEF IsBuffer
<1>4. h \in Seq(Cell) /\ t \in Seq(Cell) /\ s = h \o t
    <2> HIDE DEF Cell, s, t
    <2> QED BY <1>1, <1>2, <1>3, InTwo
<1>5. c \in Cell
    BY <1>1, <1>2, ElementOfSeq
<1>6. InOrder(Half(b) \o s) /\ (b = None => Fresh(s))
    BY DEF Plain
<1> HIDE DEF s, h, t
<1> DEFINE x == Begun(h)
           y == Begun(t)
<1>7. x \in Seq(Sent) /\ y \in Seq(Sent) /\ o \in Seq(Sent) /\ Begun(s) = x \o y
    BY <1>4, BegunIsSeq, BegunOfConcat, HalfOwedIsSeq
<1> HIDE DEF x, y, o
<1>8. o \o (x \o y) = (o \o x) \o y /\ o \o x \in Seq(Sent)
    <2> HIDE DEF Sent
    <2> QED BY <1>7, ConcatAssociative, ConcatProperties
<1>9. CASE Ends(c)
    <2>1. HalfOwed(d) = <<>>
        BY <1>9 DEF HalfOwed
    <2>2. <<>> \o y = y
        BY <1>7, ConcatEmptySeq
    <2>3. o \o Begun(s) = (o \o x) \o (HalfOwed(d) \o y)
        BY <1>7, <1>8, <2>1, <2>2
    <2> QED BY <1>8, <2>3 DEF s, t, o, y
<1>10. CASE ~Ends(c)
    <2>1. c # None /\ c[1] \in Sent
        <3>1. c \in Byte
            BY <1>5, <1>10, Cells DEF Ends
        <3> QED BY <3>1, Cells
    <2>2. PICK X \in Seq(Sent) : o \o x = X \o <<c[1]>>
        <3>1. \E X \in Seq(Sent) : HalfOwed(b) \o Begun(SubSeq(s, 1, n)) = X \o <<s[n][1]>>
            BY <1>1, <1>2, <1>6, <1>10, HalfLeft
        <3> QED BY <3>1 DEF o, x, h
    <2>3. HalfOwed(d) = <<c[1]>>
        BY <1>10, <2>1 DEF HalfOwed
    <2> DEFINE z == <<c[1]>>
    <2>4. z \in Seq(Sent)
        <3> HIDE DEF Sent
        <3> QED BY <2>1
    <2> HIDE DEF z
    <2>5. (X \o z) \o y = X \o (z \o y)
        <3>1. X \in Seq(Sent) /\ z \in Seq(Sent) /\ y \in Seq(Sent)
            BY <1>7, <2>2, <2>4
        <3> HIDE DEF Sent
        <3> QED BY <3>1, ConcatAssociative
    <2>6. o \o Begun(s) = X \o (HalfOwed(d) \o y)
        BY <1>7, <1>8, <2>2, <2>3, <2>5 DEF z
    <2> QED BY <2>2, <2>6 DEF s, t, o, y
<1> QED BY <1>9, <1>10

LEMMA PromiseIsSeq ==
    ASSUME NEW r, NEW up, NEW waits, NEW b, OutGood(r, waits, up, b, FALSE)
    PROVE  Promised(r, up, waits, b) \in Seq(Sent)
<1>1. CASE up.file = None
    <2>1. IsBuffer(r) /\ HalfOwed(b) \in Seq(Sent)
        BY <1>1, HalfOwedIsSeq DEF OutGood
    <2>2. Begun(Contents(r)) \in Seq(Sent)
        BY <2>1, ContentsIsSeq, BegunIsSeq DEF IsBuffer
    <2>3. HalfOwed(b) \o Begun(Contents(r)) \in Seq(Sent)
        <3> HIDE DEF Sent
        <3> QED BY <2>1, <2>2, ConcatProperties
    <2> QED BY <1>1, <2>1, <2>3, PlainPromise
<1>2. CASE up.file # None
    <2> DEFINE a == IF Away(r, up) < LengthOf(up.file) THEN <<up.file>> ELSE <<>>
               o == Begun(Contents(waits))
    <2>1. Promised(r, up, waits, b) = a \o o /\ o \in Seq(Sent)
        BY <1>2, FiledPromise
    <2>2. up.file \in Sent
        BY <1>2 DEF OutGood, Sent
    <2>3. a \in Seq(Sent)
        <3> HIDE DEF Sent
        <3> QED BY <2>2, EmptySeq
    <2> HIDE DEF a, o, Sent
    <2> QED BY <2>1, <2>3, ConcatProperties
<1> QED BY <1>1, <1>2

\* Whatever comes before, another packet comes last.
LEMMA OneMore ==
    ASSUME NEW a \in Seq(Sent), NEW o \in Seq(Sent), NEW p \in Sent
    PROVE  a \o (o \o <<p>>) = Append(a \o o, p) /\ a \o o \in Seq(Sent)
<1> HIDE DEF Sent
<1>1. a \o o \in Seq(Sent) /\ <<p>> \in Seq(Sent)
    BY ConcatProperties
<1>2. Append(a \o o, p) = (a \o o) \o <<p>>
    BY <1>1, AppendIsConcat
<1>3. (a \o o) \o <<p>> = a \o (o \o <<p>>)
    BY <1>1, ConcatAssociative
<1> QED BY <1>1, <1>2, <1>3

LEMMA BegunOfPut ==
    ASSUME NEW r, IsBuffer(r), NEW p \in Packet, Length[p] <= Room(r)
    PROVE  /\ Begun(Contents(Put(r, Whole(p)))) = Begun(Contents(r)) \o <<p>>
           /\ Begun(Contents(r)) \in Seq(Sent)
<1>1. Whole(p) \in Seq(Cell) /\ Begun(Whole(p)) = <<p>>
    BY BegunOfWhole DEF Sent
<1>2. Len(Whole(p)) = Length[p]
    <2>1. p \in Sent /\ LengthOf(p) = Length[p] /\ LengthOf(p) \in Nat \ {0} /\ 1 \in 1..LengthOf(p)
        BY Lengths DEF Sent
    <2>2. LengthOf(p) - 1 + 1 = Length[p]
        BY <2>1
    <2> QED BY <2>1, <2>2, WholeInOrder DEF Whole
<1>3. Contents(Put(r, Whole(p))) = Contents(r) \o Whole(p)
    BY <1>1, <1>2, PutRing DEF IsBuffer
<1>4. Contents(r) \in Seq(Cell)
    BY ContentsIsSeq DEF IsBuffer
<1> QED BY <1>1, <1>3, <1>4, BegunOfConcat, BegunIsSeq

LEMMA SendIsOwed ==
    ASSUME OutInv, ~torn, NEW p \in Packet, Send(p), ~Close
    PROVE  /\ connected # "gone" /\ UNCHANGED <<connected, torn>>
           /\ Promised(sending, upload, spare, reading) \in Seq(Sent)
           /\ Promised(sending', upload', spare', reading')
              = Append(Promised(sending, upload, spare, reading), p)
<1>1. p \in Sent
    BY DEF Sent
<1>2. connected # "gone" /\ UNCHANGED <<connected, torn, upload, reading>>
    BY DEF Send
<1>3. OutGood(sending, spare, upload, reading, FALSE) /\ OutGood(sending', spare', upload, reading, FALSE)
    <2>1. OutInv'
        BY SendIsGood
    <2>2. torn = FALSE \/ OutGood(sending, spare, upload, reading, FALSE)
        BY DEF OutInv, OutGood
    <2>3. OutGood(sending, spare, upload, reading, FALSE)
        BY DEF OutInv, OutGood
    <2>4. OutGood(sending', spare', upload, reading, FALSE)
        BY <1>2, <2>1 DEF OutInv, OutGood
    <2> QED BY <2>3, <2>4
<1>4. CASE Uploading
    <2>1. /\ Length[p] <= Room(spare) /\ spare' = Put(spare, Whole(p)) /\ sending' = sending
          /\ upload.file # None
        BY <1>4 DEF Send, Uploading
    <2>2. IsBuffer(spare)
        BY <2>1 DEF OutInv, OutGood
    <2> DEFINE a == IF Away(sending, upload) < LengthOf(upload.file) THEN <<upload.file>> ELSE <<>>
               o == Begun(Contents(spare))
    <2>3. Promised(sending, upload, spare, reading) = a \o o /\ o \in Seq(Sent)
        BY <1>3, <2>1, FiledPromise
    <2>4. Promised(sending, upload, spare', reading) = a \o Begun(Contents(spare'))
        BY <1>3, <2>1, FiledPromise
    <2>5. Begun(Contents(spare')) = o \o <<p>>
        BY <2>1, <2>2, BegunOfPut
    <2>6. a \in Seq(Sent)
        <3>1. upload.file \in Sent
            BY <2>1 DEF OutInv, OutGood, Sent
        <3> HIDE DEF Sent
        <3> QED BY <3>1, EmptySeq
    <2> HIDE DEF a, o
    <2>7. a \o (o \o <<p>>) = Append(a \o o, p) /\ a \o o \in Seq(Sent)
        BY <1>1, <2>3, <2>6, OneMore
    <2> QED BY <1>2, <2>1, <2>3, <2>4, <2>5, <2>7
<1>5. CASE ~Uploading
    <2>1. /\ Length[p] <= Room(sending) /\ sending' = Put(sending, Whole(p)) /\ spare' = spare
          /\ upload.file = None
        BY <1>5 DEF Send, Uploading
    <2>2. IsBuffer(sending) /\ IsBuffer(sending')
        BY <1>3, <2>1 DEF OutGood
    <2> DEFINE a == HalfOwed(reading)
               o == Begun(Contents(sending))
    <2>3. Promised(sending, upload, spare, reading) = a \o o
        BY <2>1, <2>2, PlainPromise
    <2>4. Promised(sending', upload, spare, reading) = a \o Begun(Contents(sending'))
        BY <2>1, <2>2, PlainPromise
    <2>5. Begun(Contents(sending')) = o \o <<p>> /\ o \in Seq(Sent)
        BY <2>1, <2>2, BegunOfPut
    <2>6. a \in Seq(Sent)
        BY HalfOwedIsSeq DEF OutInv, OutGood
    <2> HIDE DEF a, o
    <2>7. a \o (o \o <<p>>) = Append(a \o o, p) /\ a \o o \in Seq(Sent)
        BY <1>1, <2>5, <2>6, OneMore
    <2> QED BY <1>2, <2>1, <2>3, <2>4, <2>5, <2>7
<1> QED BY <1>4, <1>5

LEMMA UploadIsOwed ==
    ASSUME OutInv, NEW f \in File, Upload(f), ~torn'
    PROVE  /\ ~torn /\ connected # "gone" /\ UNCHANGED connected
           /\ Promised(sending, upload, spare, reading) \in Seq(Sent)
           /\ Promised(sending', upload', spare', reading')
              = <<f>> \o Promised(sending, upload, spare, reading)
<1> DEFINE up == [file |-> f, pos |-> 0]
<1>1. /\ upload.file = None /\ upload' = up /\ spare' = sending /\ reading' = reading
      /\ sending' = Put(Empty(Capacity(f)), Bytes(f, 1, HeaderOf(f)))
      /\ ~torn /\ reading = None /\ connected # "gone" /\ UNCHANGED connected
    BY DEF Upload, Uploading
<1>2. up.file = f /\ up.pos = 0 /\ f # None
    BY PacketsAreApart
<1> HIDE DEF up
<1>3. IsBuffer(sending)
    BY <1>1 DEF OutInv, OutGood
<1>4. Promised(sending, upload, spare, reading) = Begun(Contents(sending)) /\ Begun(Contents(sending)) \in Seq(Sent)
    <2>1. Begun(Contents(sending)) \in Seq(Sent)
        BY <1>3, ContentsIsSeq, BegunIsSeq DEF IsBuffer
    <2>2. HalfOwed(None) \o Begun(Contents(sending)) = Begun(Contents(sending))
        BY <2>1, ConcatEmptySeq DEF HalfOwed
    <2> QED BY <1>1, <1>3, <2>1, <2>2, PlainPromise
<1>5. OutGood(sending', sending, up, None, FALSE)
    <2>1. OutInv'
        BY UploadIsGood
    <2> QED BY <1>1, <2>1 DEF OutInv, OutGood
<1>6. Away(sending', up) = 0
    <2>1. sending'.used = HeaderOf(f) /\ HeaderOf(f) \in Nat
        BY <1>1, UploadStarts, Lengths
    <2> QED BY <1>2, <2>1 DEF Away, Filled
<1>7. LengthOf(f) > 0
    BY Lengths DEF Sent
<1>8. Promised(sending', up, sending, None) = <<f>> \o Begun(Contents(sending))
    BY <1>2, <1>5, <1>6, <1>7, FiledPromise
<1> QED BY <1>1, <1>4, <1>8

LEMMA UploadMoreIsOwed ==
    ASSUME OutInv, ~torn, Uploading, UploadMore
    PROVE  /\ UNCHANGED <<connected, torn>>
           /\ Promised(sending', upload', spare', reading') = Promised(sending, upload, spare, reading)
<1>1. UNCHANGED <<connected, spare, reading, torn>>
    BY DEF UploadMore
<1>2. OutInv' /\ Away(sending', upload') = Away(sending, upload) /\ upload'.file = upload.file
    BY UploadMoreIsGood
<1>3. upload.file # None
    BY DEF Uploading
<1>4. OutGood(sending, spare, upload, reading, FALSE) /\ OutGood(sending', spare, upload', reading, FALSE)
    <2>1. OutGood(sending, spare, upload, reading, FALSE)
        BY DEF OutInv, OutGood
    <2>2. OutGood(sending', spare, upload', reading, FALSE)
        BY <1>1, <1>2 DEF OutInv, OutGood
    <2> QED BY <2>1, <2>2
<1>5. Promised(sending, upload, spare, reading)
      = (IF Away(sending, upload) < LengthOf(upload.file) THEN <<upload.file>> ELSE <<>>)
        \o Begun(Contents(spare))
    BY <1>3, <1>4, FiledPromise
<1>6. Promised(sending', upload', spare, reading)
      = (IF Away(sending', upload') < LengthOf(upload'.file) THEN <<upload'.file>> ELSE <<>>)
        \o Begun(Contents(spare))
    BY <1>2, <1>3, <1>4, FiledPromise
<1> QED BY <1>1, <1>2, <1>5, <1>6

LEMMA UploadEndIsOwed ==
    ASSUME OutInv, ~torn, Uploading, UploadEnd
    PROVE  /\ UNCHANGED <<connected, torn>>
           /\ Promised(sending', upload', spare', reading') = Promised(sending, upload, spare, reading)
<1> DEFINE f == upload.file
           o == Begun(Contents(spare))
<1>1. /\ upload.pos = FileSize[f] /\ sending.used = 0 /\ sending' = spare /\ upload' = NoUpload
      /\ UNCHANGED <<connected, reading, torn>> /\ f # None
    BY DEF UploadEnd, Uploading
<1>2. OutGood(sending, spare, upload, reading, FALSE)
    BY DEF OutInv, OutGood
<1>3. f \in File /\ upload.pos \in 0..FileSize[f] /\ IsBuffer(spare)
    BY <1>1, <1>2 DEF OutGood
<1>4. Away(sending, upload) = LengthOf(f) /\ LengthOf(f) \in Nat
    <2>1. Filled(f, upload.pos) = LengthOf(f) /\ LengthOf(f) \in Nat
        BY <1>1, <1>3, UploadSizes
    <2> QED BY <1>1, <2>1 DEF Away
<1>5. reading = None
    <2>1. reading = IF Away(sending, upload) \in 1..(LengthOf(f) - 1)
                    THEN <<f, Away(sending, upload)>> ELSE None
        BY <1>1, <1>2 DEF OutGood, Filed
    <2> HIDE DEF f
    <2>2. ~(Away(sending, upload) \in 1..(LengthOf(f) - 1))
        BY <1>4
    <2> QED BY <2>1, <2>2
<1>6. Promised(sending, upload, spare, reading) = <<>> \o o /\ o \in Seq(Sent)
    <2>1. ~(Away(sending, upload) < LengthOf(f))
        BY <1>4
    <2> QED BY <1>1, <1>2, <2>1, FiledPromise
<1>7. Promised(spare, NoUpload, spare', None) = <<>> \o o
    <2>1. NoUpload.file = None
        BY DEF NoUpload
    <2> QED BY <1>3, <2>1, PlainPromise DEF HalfOwed
<1> QED BY <1>1, <1>5, <1>6, <1>7

LEMMA DoSendIsOwed ==
    ASSUME OutInv, ~torn, NEW n \in 1..Chunk, DoSend(n)
    PROVE  /\ connected # "gone" /\ UNCHANGED <<connected, torn>>
           /\ Promised(sending', upload', spare', reading') \in Seq(Sent)
           /\ \E X \in Seq(Sent) :
                 Promised(sending, upload, spare, reading)
                 = X \o Promised(sending', upload', spare', reading')
<1> DEFINE c == Peek(sending, n)[n]
           q == Take(sending, n)
           b == Read(c)
<1>1. /\ connected # "gone" /\ n <= sending.used /\ reading' = b /\ sending' = q
      /\ UNCHANGED <<connected, spare, upload, torn>> /\ n \in Nat \ {0}
    BY BuffersAreSized DEF DoSend
<1>2. OutGood(sending, spare, upload, reading, FALSE) /\ OutGood(q, spare, upload, b, FALSE)
    <2>1. OutGood(sending, spare, upload, reading, FALSE)
        BY DEF OutInv, OutGood
    <2>2. OutInv'
        BY DoSendIsGood
    <2> HIDE DEF q, b
    <2>3. OutGood(q, spare, upload, b, FALSE)
        BY <1>1, <2>2 DEF OutInv, OutGood
    <2> QED BY <2>1, <2>3
<1>3. Promised(q, upload, spare, b) \in Seq(Sent)
    BY <1>2, PromiseIsSeq
<1>4. CASE upload.file = None
    <2>1. /\ IsBuffer(sending) /\ Plain(sending, reading) /\ IsBuffer(q)
          /\ (reading = None \/ (reading \in Byte /\ ~Ends(reading)))
        BY <1>2, <1>4 DEF OutGood
    <2>2. n \in 1..sending.used /\ n \in 0..sending.used /\ n \in 1..n
        BY <1>1, <2>1 DEF IsBuffer, IsRing
    <2>3. c = Contents(sending)[n]
        BY <2>1, <2>2, RingContents DEF IsBuffer
    <2>4. b = IF Ends(c) THEN None ELSE c
        BY DEF Read
    <2>5. \E X \in Seq(Sent) :
              HalfOwed(reading) \o Begun(Contents(sending)) = X \o (HalfOwed(b) \o Begun(Contents(q)))
        <3> HIDE DEF b, c
        <3> QED BY <2>1, <2>2, <2>3, <2>4, TakenIsGiven
    <2>6. Promised(sending, upload, spare, reading) = HalfOwed(reading) \o Begun(Contents(sending))
        BY <1>4, <2>1, PlainPromise
    <2>7. Promised(q, upload, spare, b) = HalfOwed(b) \o Begun(Contents(q))
        BY <1>4, <2>1, PlainPromise
    <2> HIDE DEF q, b
    <2> QED BY <1>1, <1>3, <2>5, <2>6, <2>7
<1>5. CASE upload.file # None
    <2> DEFINE f == upload.file
               m == Away(sending, upload)
               k == Away(q, upload)
               o == Begun(Contents(spare))
               L == LengthOf(f)
    <2>1. f \in File /\ upload.pos \in 0..FileSize[f] /\ IsUpload(sending, f, upload.pos)
        BY <1>2, <1>5 DEF OutGood
    <2>2. /\ m \in 0..L /\ L \in Nat /\ o \in Seq(Sent)
          /\ Promised(sending, upload, spare, reading) = (IF m < L THEN <<f>> ELSE <<>>) \o o
        BY <1>2, <1>5, FiledPromise
    <2>3. /\ k \in 0..L
          /\ Promised(q, upload, spare, b) = (IF k < L THEN <<f>> ELSE <<>>) \o o
        <3> HIDE DEF q, b
        <3> QED BY <1>2, <1>5, FiledPromise
    <2>4. m < k
        <3>1. sending.used \in Nat /\ Filled(f, upload.pos) \in Nat
            BY <2>1, UploadSizes DEF IsUpload
        <3>2. n \in 0..sending.used
            BY <1>1, <3>1
        <3>3. q.used = sending.used - n
            BY <2>1, <3>2, UploadTaken
        <3>4. m = Filled(f, upload.pos) - sending.used /\ k = Filled(f, upload.pos) - q.used
            BY DEF Away
        <3> HIDE DEF m, k, f, q
        <3> QED BY <1>1, <3>1, <3>3, <3>4
    <2> DEFINE P == Promised(sending, upload, spare, reading)
               Q == Promised(q, upload, spare, b)
               g == <<f>>
    <2>5. g \in Seq(Sent) /\ <<>> \in Seq(Sent)
        <3>1. f \in Sent
            BY <2>1 DEF Sent
        <3> HIDE DEF Sent
        <3> QED BY <3>1, EmptySeq
    <2>6. P = g \o o /\ (k < L => Q = g \o o) /\ (~(k < L) => Q = <<>> \o o)
        <3>1. m < L
            <4> HIDE DEF m, k, L
            <4> QED BY <2>2, <2>3, <2>4
        <3> QED BY <2>2, <2>3, <3>1
    <2>7. Q \in Seq(Sent)
        BY <1>3
    <2> HIDE DEF P, Q, o, m, k, L, g
    <2>8. \E X \in Seq(Sent) : P = X \o Q
        <3>1. CASE k < L
            <4>1. P = <<>> \o Q
                BY <2>6, <2>7, <3>1, ConcatEmptySeq
            <4> QED BY <2>5, <4>1
        <3>2. CASE ~(k < L)
            <4>1. Q = o
                BY <2>2, <2>6, <3>2, ConcatEmptySeq
            <4> QED BY <2>5, <2>6, <4>1
        <3> QED BY <3>1, <3>2
    <2> QED BY <1>1, <1>3, <2>8 DEF P, Q
<1> QED BY <1>4, <1>5

-----------------------------------------------------------------------------
(***************************************************************************)
(* Both directions are channels.                                           *)
(***************************************************************************)

\* What is taken from the front leaves the rest.
LEMMA FrontGone ==
    ASSUME NEW X \in Seq(Sent), NEW Y \in Seq(Sent)
    PROVE  X \o Y = Y \/ \E n \in 1..Len(X \o Y) : Y = SubSeq(X \o Y, n + 1, Len(X \o Y))
<1> HIDE DEF Sent
<1>1. CASE X = <<>>
    BY <1>1, ConcatEmptySeq
<1>2. CASE X # <<>>
    <2>1. Len(X) \in 0..Len(X \o Y) /\ SubSeq(X \o Y, Len(X) + 1, Len(X \o Y)) = Y
        BY AfterIt
    <2>2. Len(X) # 0 /\ Len(X) \in Nat
        BY <1>2, EmptySeq, LenProperties
    <2>3. Len(X) \in 1..Len(X \o Y)
        BY <2>1, <2>2
    <2> QED BY <2>1, <2>3
<1> QED BY <1>1, <1>2

\* To the player a step is one of the channel, and only what the socket takes is gone.
LEMMA OutStep ==
    ASSUME StreamInv, [Next]_vars
    PROVE  /\ [Out!Next]_(Out!vars)
           /\ Fewer(Owed', Owed) => Sends \/ torn' \/ Bury
<1> DEFINE P == Promised(sending, upload, spare, reading)
           Q == Promised(sending', upload', spare', reading')
           Dead(t, c) == t \/ c = "gone"
           At(t, c) == IF Dead(t, c) THEN "dead" ELSE c
<1>1. /\ Owed = (IF Dead(torn, connected) THEN <<>> ELSE P)
      /\ Owed' = (IF Dead(torn', connected') THEN <<>> ELSE Q)
    BY OwedIs
<1>2. OutInv /\ connected \in {"open", "closed", "gone"} /\ torn \in BOOLEAN
    BY DEF StreamInv
<1>3. /\ Out!vars = <<Owed, At(torn, connected)>>
      /\ Out!vars' = <<Owed', At(torn', connected')>>
    BY DEF Out!vars
<1>4. P \in Seq(Sent) \/ torn
    BY <1>2, PromiseIsSeq DEF OutInv, OutGood
<1>5. Len(<<>>) \in Nat /\ (~torn => Len(P) \in Nat)
    BY <1>4, LenProperties, EmptySeq
<1> HIDE DEF P, Q
<1>6. CASE Dead(torn, connected)
    <2>1. Dead(torn', connected')
        BY <1>2, <1>6 DEF Next, Send, Upload, Type, Sends, DoSend, Receives, DoRecv, Tick, UploadMore, UploadEnd,
                          ReadMore, Close, Bury, vars, out
    <2>2. Owed' = <<>> /\ Owed = <<>>
        BY <1>1, <1>6, <2>1
    <2>3. UNCHANGED Out!vars
        BY <1>3, <1>6, <2>1, <2>2
    <2>4. ~Fewer(Owed', Owed)
        BY <1>5, <2>2 DEF Fewer
    <2> QED BY <2>3, <2>4
<1>7. CASE ~Dead(torn, connected)
    <2>1. Owed = P /\ ~torn /\ connected # "gone" /\ Len(P) \in Nat /\ P \in Seq(Sent)
        BY <1>1, <1>2, <1>4, <1>5, <1>7
    <2>2. ASSUME Q = P, UNCHANGED <<torn, connected>>
          PROVE  UNCHANGED Out!vars /\ ~Fewer(Owed', Owed)
        <3>1. Owed' = Owed
            BY <1>1, <1>7, <2>2, <2>1
        <3> QED BY <1>3, <2>1, <2>2, <3>1 DEF Fewer
    <2>3. ASSUME UNCHANGED out, UNCHANGED connected
          PROVE  UNCHANGED Out!vars /\ ~Fewer(Owed', Owed)
        <3>1. Q = P /\ UNCHANGED <<torn, connected>>
            BY <2>3 DEF P, Q, out
        <3> QED BY <2>2, <3>1
    <2>4. ASSUME Close
          PROVE  [Out!Next]_(Out!vars) /\ ~Fewer(Owed', Owed)
        <3>1. UNCHANGED out /\ connected' = IF connected = "open" THEN "closed" ELSE connected
            BY <2>4 DEF Close
        <3>2. CASE connected = "open"
            <4>1. Q = P /\ torn' = torn /\ connected' = "closed"
                BY <3>1, <3>2 DEF P, Q, out
            <4>2. Owed' = Owed
                BY <1>1, <2>1, <4>1
            <4>3. Out!Close
                BY <2>1, <3>2, <4>1, <4>2 DEF Out!Close
            <4> QED BY <2>1, <4>2, <4>3 DEF Fewer, Out!Next
        <3>3. CASE connected # "open"
            BY <2>3, <3>1, <3>3
        <3> QED BY <3>2, <3>3
    <2>5. ASSUME NEW p \in Packet, Send(p)
          PROVE  [Out!Next]_(Out!vars) /\ ~Fewer(Owed', Owed)
        <3>1. CASE Close
            BY <2>4, <3>1
        <3>2. CASE ~Close
            <4>1. UNCHANGED <<connected, torn>> /\ P \in Seq(Sent) /\ Q = Append(P, p)
                BY <1>2, <2>1, <2>5, <3>2, SendIsOwed DEF P, Q
            <4>2. Owed' = Append(Owed, p)
                BY <1>1, <2>1, <4>1
            <4>3. Out!Send
                BY <1>2, <2>1, <4>1, <4>2 DEF Out!Send
            <4>4. Len(Append(P, p)) = Len(P) + 1
                <5>1. p \in Sent
                    BY DEF Sent
                <5> HIDE DEF Sent
                <5> QED BY <4>1, <5>1, AppendProperties
            <4>5. ~Fewer(Owed', Owed)
                BY <2>1, <4>2, <4>4 DEF Fewer
            <4> QED BY <4>3, <4>5 DEF Out!Next
        <3> QED BY <3>1, <3>2
    <2>6. ASSUME NEW f \in File, Upload(f)
          PROVE  [Out!Next]_(Out!vars) /\ (~Fewer(Owed', Owed) \/ torn')
        <3>1. CASE torn'
            <4>1. Owed' = <<>>
                BY <1>1, <3>1
            <4>2. Out!Die
                BY <3>1, <4>1 DEF Out!Die
            <4> QED BY <3>1, <4>2 DEF Out!Next
        <3>2. CASE ~torn'
            <4>1. UNCHANGED connected /\ P \in Seq(Sent) /\ Q = <<f>> \o P
                BY <1>2, <2>6, <3>2, UploadIsOwed DEF P, Q
            <4>2. Owed' = <<f>> \o Owed
                BY <1>1, <2>1, <3>2, <4>1
            <4>3. Out!Overtake
                BY <1>2, <2>1, <3>2, <4>1, <4>2 DEF Out!Overtake
            <4>4. Len(<<f>> \o P) = 1 + Len(P)
                <5>1. f \in Sent
                    BY DEF Sent
                <5>2. <<f>> \in Seq(Sent) /\ Len(<<f>>) = 1
                    <6> HIDE DEF Sent
                    <6> QED BY <5>1
                <5> HIDE DEF Sent
                <5> QED BY <4>1, <5>2, ConcatProperties
            <4>5. ~Fewer(Owed', Owed)
                BY <2>1, <4>2, <4>4 DEF Fewer
            <4> QED BY <4>3, <4>5 DEF Out!Next
        <3> QED BY <3>1, <3>2
    <2>7. ASSUME NEW n \in 1..Chunk, DoSend(n)
          PROVE  [Out!Next]_(Out!vars)
        <3>1. /\ UNCHANGED <<connected, torn>> /\ Q \in Seq(Sent)
              /\ \E X \in Seq(Sent) : P = X \o Q
            BY <1>2, <2>1, <2>7, DoSendIsOwed DEF P, Q
        <3>2. Owed' = Q
            BY <1>1, <2>1, <3>1
        <3>3. P = Q \/ \E n2 \in 1..Len(P) : Q = SubSeq(P, n2 + 1, Len(P))
            <4>1. PICK X \in Seq(Sent) : P = X \o Q
                BY <3>1
            <4>2. X \o Q = Q \/ \E n2 \in 1..Len(X \o Q) : Q = SubSeq(X \o Q, n2 + 1, Len(X \o Q))
                BY <3>1, FrontGone
            <4> QED BY <4>1, <4>2
        <3>4. CASE P = Q
            BY <2>2, <3>1, <3>4
        <3>5. CASE \E n2 \in 1..Len(P) : Q = SubSeq(P, n2 + 1, Len(P))
            <4>1. Out!Deliver
                BY <1>2, <2>1, <3>1, <3>2, <3>5 DEF Out!Deliver
            <4> QED BY <4>1 DEF Out!Next
        <3> QED BY <3>3, <3>4, <3>5
    <2>8. ASSUME Uploading, UploadMore \/ UploadEnd
          PROVE  UNCHANGED Out!vars /\ ~Fewer(Owed', Owed)
        <3>1. UNCHANGED <<connected, torn>> /\ Q = P
            BY <1>2, <2>1, <2>8, UploadMoreIsOwed, UploadEndIsOwed DEF P, Q
        <3> QED BY <2>2, <3>1
    <2>9. ASSUME Bury
          PROVE  [Out!Next]_(Out!vars)
        <3>1. connected' = "gone" /\ Owed' = <<>>
            BY <1>1, <2>9 DEF Bury
        <3>2. Out!Die
            BY <3>1 DEF Out!Die
        <3> QED BY <3>2 DEF Out!Next
    <2>10. ASSUME (\E t \in Typed : Type(t)) \/ Receives \/ ReadMore \/ UNCHANGED vars
           PROVE  UNCHANGED Out!vars /\ ~Fewer(Owed', Owed)
        <3>1. UNCHANGED out /\ UNCHANGED connected
            BY <2>10 DEF Type, Receives, DoRecv, ReadMore, vars
        <3> QED BY <2>3, <3>1
    <2>11. Sends => \E n \in 1..Chunk : DoSend(n)
        BY DEF Sends
    <2>12. Tick => (Uploading /\ (UploadMore \/ UploadEnd)) \/ ReadMore
        BY DEF Tick
    <2> HIDE DEF Dead, At
    <2> QED BY <2>4, <2>5, <2>6, <2>7, <2>8, <2>9, <2>10, <2>11, <2>12 DEF Next
<1> QED BY <1>6, <1>7

\* What the handlers are owed.
LEMMA DueIs ==
    /\ Due = IF connected = "gone" THEN <<>> ELSE Begun(ToServer)
    /\ Due' = IF connected' = "gone" THEN <<>> ELSE Begun(ToServer')
<1>1. Begun(ToServer)' = Begun(ToServer')
    BY DEF Begun
<1> QED BY <1>1 DEF Due

\* To the handlers a step is one of the channel, and only what they get is gone.
LEMMA InStep ==
    ASSUME StreamInv, [Next]_vars
    PROVE  /\ [In!Next]_(In!vars)
           /\ Fewer(Due', Due) => ReadMore \/ Bury
<1> DEFINE P == Begun(ToServer)
           Q == Begun(ToServer')
           At(c) == IF c = "gone" THEN "dead" ELSE c
<1>1. /\ Due = (IF connected = "gone" THEN <<>> ELSE P)
      /\ Due' = (IF connected' = "gone" THEN <<>> ELSE Q)
    BY DueIs
<1>2. InInv /\ connected \in {"open", "closed", "gone"}
    BY DEF StreamInv
<1>3. /\ In!vars = <<Due, At(connected)>>
      /\ In!vars' = <<Due', At(connected')>>
    BY DEF In!vars
<1>4. ASSUME NEW x \in Seq(TypedByte), NEW y \in Seq(TypedByte), NEW z \in Seq(TypedByte)
      PROVE  (x \o y) \o z \in Seq(Cell)
    <2>1. x \in Seq(Cell) /\ y \in Seq(Cell) /\ z \in Seq(Cell)
        BY TypedAreCells
    <2> HIDE DEF Cell
    <2>2. x \o y \in Seq(Cell)
        BY <2>1, ConcatProperties
    <2> HIDE DEF TypedByte
    <2> QED BY <2>1, <2>2, ConcatProperties
<1>9. ToServer \in Seq(Cell) /\ (InInv' => ToServer' \in Seq(Cell))
    <2>1. InInv => /\ packet.bytes \in Seq(TypedByte) /\ Contents(receiving) \in Seq(TypedByte)
                   /\ net \in Seq(TypedByte)
        BY DEF InInv, InGood, IsPart
    <2>2. InInv' => /\ packet'.bytes \in Seq(TypedByte) /\ Contents(receiving') \in Seq(TypedByte)
                    /\ net' \in Seq(TypedByte)
        BY DEF InInv, InGood, IsPart
    <2>3. ToServer' = (packet'.bytes \o Contents(receiving')) \o net'
        BY DEF ToServer, Contents
    <2>4. ToServer = (packet.bytes \o Contents(receiving)) \o net
        BY DEF ToServer
    <2> QED BY <1>2, <1>4, <2>1, <2>2, <2>3, <2>4
<1>5. ToServer \in Seq(Cell) /\ P \in Seq(Sent) /\ Len(P) \in Nat /\ Len(<<>>) \in Nat
    BY <1>9, BegunIsSeq, LenProperties, EmptySeq
<1>6. UNCHANGED in => Q = P
    BY DEF in, ToServer
<1> HIDE DEF P, Q
<1>7. CASE connected = "gone"
    <2>1. connected' = "gone"
        BY <1>7 DEF Next, Send, Upload, Type, Sends, DoSend, Receives, DoRecv, Tick, UploadMore, UploadEnd,
                    ReadMore, Close, Bury, vars
    <2>2. UNCHANGED In!vars /\ ~Fewer(Due', Due)
        BY <1>1, <1>3, <1>5, <1>7, <2>1 DEF Fewer
    <2> QED BY <2>2
<1>8. CASE connected # "gone"
    <2>1. Due = P
        BY <1>1, <1>8
    <2>2. ASSUME Q = P, UNCHANGED connected
          PROVE  UNCHANGED In!vars /\ ~Fewer(Due', Due)
        <3>1. Due' = Due
            BY <1>1, <1>8, <2>2
        <3> QED BY <1>3, <1>5, <2>1, <2>2, <3>1 DEF Fewer
    <2>3. ASSUME Close
          PROVE  [In!Next]_(In!vars) /\ ~Fewer(Due', Due)
        <3>1. UNCHANGED in /\ connected' = IF connected = "open" THEN "closed" ELSE connected
            BY <2>3 DEF Close
        <3>2. CASE connected = "open"
            <4>1. connected' = "closed" /\ Q = P
                BY <1>6, <3>1, <3>2
            <4>2. Due' = Due
                BY <1>1, <2>1, <4>1
            <4>3. In!Close
                BY <3>2, <4>1, <4>2 DEF In!Close
            <4> QED BY <1>5, <2>1, <4>2, <4>3 DEF Fewer, In!Next
        <3>3. CASE connected # "open"
            BY <1>6, <2>2, <3>1, <3>3
        <3> QED BY <3>2, <3>3
    <2>4. ASSUME NEW t \in Typed, Type(t)
          PROVE  [In!Next]_(In!vars) /\ ~Fewer(Due', Due)
        <3>1. ToServer' = ToServer \o Whole(t) /\ connected' = connected
            BY <1>2, <2>4, TypeIsGood DEF Type
        <3>2. t \in Sent
            BY DEF Sent
        <3>3. Whole(t) \in Seq(Cell) /\ Begun(Whole(t)) = <<t>>
            BY <3>2, BegunOfWhole
        <3>4. Q = P \o <<t>>
            BY <1>5, <3>1, <3>3, BegunOfConcat DEF P, Q
        <3>5. P \o <<t>> = Append(P, t) /\ Len(Append(P, t)) = Len(P) + 1
            <4> HIDE DEF Sent
            <4> QED BY <1>5, <3>2, AppendIsConcat, AppendProperties
        <3>6. Due' = Append(Due, t)
            BY <1>1, <1>8, <2>1, <3>1, <3>4, <3>5
        <3>7. In!Send
            BY <1>2, <1>8, <3>1, <3>6 DEF In!Send
        <3>8. ~Fewer(Due', Due)
            BY <1>5, <2>1, <3>5, <3>6 DEF Fewer
        <3> QED BY <3>7, <3>8 DEF In!Next
    <2>5. ASSUME NEW n \in 1..Chunk, DoRecv(n)
          PROVE  UNCHANGED In!vars /\ ~Fewer(Due', Due)
        <3>1. ToServer' = ToServer /\ connected' = connected
            BY <1>2, <2>5, DoRecvIsGood DEF DoRecv
        <3>2. Q = P
            BY <3>1 DEF P, Q
        <3> QED BY <2>2, <3>1, <3>2
    <2>6. ASSUME ReadMore
          PROVE  [In!Next]_(In!vars)
        <3>1. /\ ToServer' = ToServer \/ \E W \in Seq(TypedByte) : ToServer = W \o ToServer'
              /\ connected' = connected /\ InInv'
            BY <1>2, <2>6, ReadMoreIsGood DEF ReadMore
        <3>2. CASE ToServer' = ToServer
            <4>1. Q = P
                BY <3>2 DEF P, Q
            <4> QED BY <2>2, <3>1, <4>1
        <3>3. CASE \E W \in Seq(TypedByte) : ToServer = W \o ToServer'
            <4>1. PICK W \in Seq(TypedByte) : ToServer = W \o ToServer'
                BY <3>3
            <4>2. W \in Seq(Cell) /\ ToServer' \in Seq(Cell)
                <5>1. ToServer' \in Seq(Cell)
                    BY <1>9, <3>1
                <5> QED BY <5>1, TypedAreCells
            <4>3. P = Begun(W) \o Q /\ Begun(W) \in Seq(Sent) /\ Q \in Seq(Sent)
                BY <4>1, <4>2, BegunOfConcat, BegunIsSeq DEF P, Q
            <4>4. P = Q \/ \E n \in 1..Len(P) : Q = SubSeq(P, n + 1, Len(P))
                BY <4>3, FrontGone
            <4>5. CASE P = Q
                BY <2>2, <3>1, <4>5
            <4>6. CASE \E n \in 1..Len(P) : Q = SubSeq(P, n + 1, Len(P))
                <5>1. Due' = Q
                    BY <1>1, <1>8, <3>1
                <5>2. In!Deliver
                    BY <1>2, <1>8, <2>1, <3>1, <4>6, <5>1 DEF In!Deliver
                <5> QED BY <5>2 DEF In!Next
            <4> QED BY <4>4, <4>5, <4>6
        <3> QED BY <3>1, <3>2, <3>3
    <2>7. ASSUME Bury
          PROVE  [In!Next]_(In!vars)
        <3>1. connected' = "gone" /\ Due' = <<>>
            BY <1>1, <2>7 DEF Bury
        <3>2. In!Die
            BY <3>1 DEF In!Die
        <3> QED BY <3>2 DEF In!Next
    <2>8. ASSUME UNCHANGED in, UNCHANGED connected
          PROVE  UNCHANGED In!vars /\ ~Fewer(Due', Due)
        BY <1>6, <2>2, <2>8
    <2>9. ASSUME NEW p \in Packet, Send(p)
          PROVE  [In!Next]_(In!vars) /\ ~Fewer(Due', Due)
        <3>1. Close \/ (UNCHANGED in /\ UNCHANGED connected)
            BY <2>9 DEF Send
        <3> QED BY <2>3, <2>8, <3>1
    <2>10. ASSUME \/ \E f \in File : Upload(f)
                  \/ Sends \/ UploadMore \/ UploadEnd \/ UNCHANGED vars
           PROVE  UNCHANGED In!vars /\ ~Fewer(Due', Due)
        <3>1. UNCHANGED in /\ UNCHANGED connected
            BY <2>10 DEF Upload, Sends, DoSend, UploadMore, UploadEnd, vars, in
        <3> QED BY <2>8, <3>1
    <2>11. Receives => \E n \in 1..Chunk : DoRecv(n)
        BY DEF Receives
    <2>12. Tick => UploadMore \/ UploadEnd \/ ReadMore
        BY DEF Tick
    <2> HIDE DEF At
    <2> QED BY <2>3, <2>4, <2>5, <2>6, <2>7, <2>9, <2>10, <2>11, <2>12 DEF Next
<1> QED BY <1>7, <1>8

LEMMA ChannelsInitially ==
    ASSUME Init
    PROVE  Out!Init /\ In!Init
<1>1. Owed = Promised(sending, upload, spare, reading) /\ connected = "open" /\ ~torn
    BY OwedIs DEF Init
<1>2. StreamInv
    BY StreamInitially
<1>3. upload.file = None /\ reading = None /\ sending = Empty(Size)
    BY DEF Init, NoUpload
<1>4. Contents(sending) = <<>> /\ IsBuffer(sending)
    BY <1>2, <1>3, SizesArePositive, EmptyRing DEF StreamInv, OutInv, OutGood
<1>5. <<>> \o <<>> = <<>>
    BY EmptySeq, ConcatEmptySeq
<1>6. Owed = <<>>
    BY <1>1, <1>3, <1>4, <1>5, PlainPromise, BegunOfNothing DEF HalfOwed
<1>7. Contents(receiving) = <<>> /\ packet.bytes = <<>> /\ net = <<>>
    BY SizesArePositive, EmptyRing DEF Init, NoPacket
<1>8. Due = <<>>
    BY <1>1, <1>5, <1>7, BegunOfNothing DEF Due, ToServer
<1> QED BY <1>1, <1>6, <1>8 DEF Out!Init, In!Init

\* What PacketsDelivered promises of every step: what is owed to the player and to the
\* handlers is the abstract channel's, packets once and in the order in which they were
\* sent.
THEOREM PacketsInTurn == Spec => Out!Safe /\ In!Safe
<1>1. Init => StreamInv /\ Out!Init /\ In!Init
    BY StreamInitially, ChannelsInitially
<1>2. StreamInv /\ [Next]_vars => StreamInv' /\ [Out!Next]_(Out!vars) /\ [In!Next]_(In!vars)
    BY StreamNext, OutStep, InStep
<1> QED BY <1>1, <1>2, PTL DEF Spec, Out!Safe, In!Safe

\* What is owed to the player is gone only when the socket took it, when a file was sent
\* into a packet, or with the connection, and what is due to the handlers only when they
\* get it.
THEOREM NothingIsForgotten ==
    Spec => /\ [][Fewer(Owed', Owed) => Sends \/ torn' \/ Bury]_vars
            /\ [][Fewer(Due', Due) => ReadMore \/ Bury]_vars
<1>1. Init => StreamInv
    BY StreamInitially
<1>2. StreamInv /\ [Next]_vars =>
          /\ StreamInv'
          /\ Fewer(Owed', Owed) => Sends \/ torn' \/ Bury
          /\ Fewer(Due', Due) => ReadMore \/ Bury
    BY StreamNext, OutStep, InStep
<1> QED BY <1>1, <1>2, PTL DEF Spec

-----------------------------------------------------------------------------
(***************************************************************************)
(* The bytes of numbers.                                                   *)
(***************************************************************************)
\* Division by seven.
LEMMA Sevenths ==
    ASSUME NEW n \in Nat
    PROVE  n \div 7 \in Nat /\ 7 * (n \div 7) <= n /\ n < 7 * (n \div 7) + 7
OBVIOUS

\* A number that fits in a byte is not changed by it.
LEMMA ByteIsKept == \A n \in 0..255 : n % 256 = n
OBVIOUS

\* The first values, for any start in the range.
LEMMA InitDecodes ==
    \A start \in AllStarts : \A s1 \in InitParts(start) :
        s1 \in 0..252 /\ InitRest(start, s1) \in 0..252 /\ InitStart(start, s1) = start
<1> SUFFICES ASSUME NEW start \in AllStarts, NEW s1 \in InitParts(start)
    PROVE  s1 \in 0..252 /\ InitRest(start, s1) \in 0..252 /\ InitStart(start, s1) = start
    OBVIOUS
<1> USE DEF AllStarts
<1> DEFINE low == Quotient(start - 252 + 13 + 6)
           high == Quotient(start + 13)
<1>1. high \in Nat /\ 7 * high <= start + 13
    BY Sevenths DEF Quotient
<1>2. start - 233 >= 0 => low \in Nat /\ start - 233 < 7 * low + 7 /\ 7 * low >= start - 239
    BY Sevenths DEF Quotient
<1>3. low \in Int
    <2>1. CASE start - 233 >= 0
        BY <2>1, <1>2
    <2>2. CASE ~(start - 233 >= 0)
        <3>1. 233 - start \in Nat /\ start - 252 + 13 + 6 = -(233 - start)
            BY <2>2
        <3>2. (233 - start) \div 7 \in Nat
            BY <3>1, Sevenths
        <3>3. low = -((-(start - 252 + 13 + 6)) \div 7) /\ -(start - 252 + 13 + 6) = 233 - start
            BY <2>2 DEF Quotient
        <3> QED BY <3>2, <3>3
    <2> QED BY <2>1, <2>2
<1> HIDE DEF low, high
<1>4. s1 \in Int /\ s1 <= high /\ s1 >= 0 /\ s1 >= low
    <2>1. Larger(0, low) \in Int /\ Larger(0, low) >= 0 /\ Larger(0, low) >= low
        BY <1>3 DEF Larger
    <2>2. s1 \in Larger(0, low)..high
        BY DEF InitParts, low, high
    <2> HIDE DEF Larger
    <2>3. s1 \in Int /\ s1 <= high /\ s1 >= Larger(0, low)
        BY <1>1, <2>1, <2>2
    <2> QED BY <1>3, <2>1, <2>3
<1>5. s1 \in 0..252
    BY <1>1, <1>4
<1> DEFINE s2 == start - s1 * 7 + 13
<1>6. 0 <= s2 /\ s2 <= 252 /\ s2 \in Int
    BY <1>1, <1>2, <1>4, <1>5
<1>7. s2 % 256 = s2 /\ s2 \in 0..252
    <2> HIDE DEF s2
    <2> QED BY <1>6, ByteIsKept
<1>8. InitRest(start, s1) = s2
    BY <1>7 DEF InitRest
<1>9. s1 * 7 + s2 - 13 = start
    BY <1>5
<1> QED BY <1>5, <1>7, <1>8, <1>9 DEF InitStart

\* Division with a rest, by any number.
LEMMA Division ==
    \A n \in Nat, k \in Nat \ {0} :
        n = k * (n \div k) + (n % k) /\ n % k \in Nat /\ n % k < k /\ n \div k \in Nat
OBVIOUS

\* A digit is read as it was written.
LEMMA DigitsDecode == (\A d \in 0..252 : Digit(d + 1) = d) /\ Digit(NoDigit) = 0
BY SMT DEF Digit, NoDigit

\* A number is read as it was written, if its last digit fits in a byte.
THEOREM NumbersDecode ==
    \A n \in Nat : n < 253 * Max3 => Number(ENumber(n)) = n
<1> SUFFICES ASSUME NEW n \in Nat, n < 253 * Max3 PROVE Number(ENumber(n)) = n
    OBVIOUS
<1> DEFINE d1 == n % Max1
           d2 == (n % Max2) \div Max1
           d3 == (n % Max3) \div Max2
           d4 == n \div Max3
           r2 == n % Max2
           r3 == n % Max3
           q1 == n \div Max1
           q2 == n \div Max2
           s2 == r2 % Max1
           s3 == r3 % Max2
<1>1. Max1 \in Nat \ {0} /\ Max2 \in Nat \ {0} /\ Max3 \in Nat \ {0}
    BY SMT DEF Max1, Max2, Max3
<1>2. n = Max1 * q1 + d1 /\ d1 \in Nat /\ d1 < Max1 /\ q1 \in Nat
    BY <1>1, Division
<1>3. n = Max2 * q2 + r2 /\ r2 \in Nat /\ r2 < Max2 /\ q2 \in Nat
    BY <1>1, Division
<1>4. n = Max3 * d4 + r3 /\ r3 \in Nat /\ r3 < Max3 /\ d4 \in Nat
    BY <1>1, Division
<1>5. r2 = Max1 * d2 + s2 /\ s2 \in Nat /\ s2 < Max1 /\ d2 \in Nat
    BY <1>1, <1>3, Division
<1>6. r3 = Max2 * d3 + s3 /\ s3 \in Nat /\ s3 < Max2 /\ d3 \in Nat
    BY <1>1, <1>4, Division
<1> HIDE DEF d1, d2, d3, d4, r2, r3, q1, q2, s2, s3
<1>7. d4 <= 252
    BY SMT, <1>4 DEF Max3
<1>8. s3 = r2
    BY SMT, <1>3, <1>4, <1>6 DEF Max2, Max3
<1>9. s2 = d1
    BY SMT, <1>2, <1>3, <1>5 DEF Max1, Max2
<1>10. d1 \in 0..252 /\ d2 \in 0..252 /\ d3 \in 0..252 /\ d4 \in 0..252
    BY SMT, <1>2, <1>3, <1>4, <1>5, <1>6, <1>7 DEF Max1, Max2, Max3
<1>11. n = d4 * Max3 + d3 * Max2 + d2 * Max1 + d1
    BY SMT, <1>4, <1>5, <1>6, <1>8, <1>9, <1>10 DEF Max1, Max2, Max3
<1>12. (n < Max1 => d2 = 0) /\ (n < Max2 => d3 = 0) /\ (n < Max3 => d4 = 0)
    BY SMT, <1>10, <1>11 DEF Max1, Max2, Max3
<1>13. (d4 + 1) % 256 = d4 + 1
    BY <1>10, ByteIsKept
<1>14. ENumber(n) = <<d1 + 1, IF n < Max1 THEN NoDigit ELSE d2 + 1,
                      IF n < Max2 THEN NoDigit ELSE d3 + 1,
                      IF n < Max3 THEN NoDigit ELSE d4 + 1>>
    <2>1. ENumber(n) = <<d1 + 1, IF n < Max1 THEN NoDigit ELSE d2 + 1,
                         IF n < Max2 THEN NoDigit ELSE d3 + 1,
                         IF n < Max3 THEN NoDigit ELSE (d4 + 1) % 256>>
        BY Zenon DEF ENumber, d1, d2, d3, d4
    <2> QED BY Zenon, <1>13, <2>1
<1> DEFINE b == ENumber(n)
<1>15. b[1] = d1 + 1 /\ b[2] = IF n < Max1 THEN NoDigit ELSE d2 + 1
    BY <1>14
<1>16. /\ b[3] = IF n < Max2 THEN NoDigit ELSE d3 + 1
       /\ b[4] = IF n < Max3 THEN NoDigit ELSE d4 + 1
    BY <1>14
<1> HIDE DEF b
<1>17. Digit(b[1]) = d1 /\ Digit(b[2]) = d2 /\ Digit(b[3]) = d3 /\ Digit(b[4]) = d4
    <2> HIDE DEF d1, d2, d3, d4
    <2>1. Digit(b[1]) = d1
        BY ZenonT(30), <1>10, <1>15, DigitsDecode
    <2>2. Digit(b[2]) = d2
        BY ZenonT(30), <1>10, <1>12, <1>15, DigitsDecode
    <2>3. Digit(b[3]) = d3
        BY ZenonT(30), <1>10, <1>12, <1>16, DigitsDecode
    <2>4. Digit(b[4]) = d4
        BY ZenonT(30), <1>10, <1>12, <1>16, DigitsDecode
    <2> QED BY ZenonT(30), <2>1, <2>2, <2>3, <2>4
<1>18. Number(b) = d4 * Max3 + d3 * Max2 + d2 * Max1 + d1
    BY ZenonT(30), <1>17 DEF Number
<1> QED BY ZenonT(30), <1>11, <1>18 DEF b

\* One digit is read as it was written, and two are.
LEMMA CharsDecode == \A n \in 0..252 : CharRead(n) = n
<1> SUFFICES ASSUME NEW n \in 0..252 PROVE CharRead(n) = n
    OBVIOUS
<1>1. ENumber(n)[1] = n + 1
    BY SMT DEF ENumber, Max1
<1> QED BY SMT, <1>1 DEF CharRead, Number, Digit, NoDigit, Max1, Max2, Max3

LEMMA MaximaAreNatural ==
    /\ Max2 \in Nat /\ Max3 \in Nat /\ Max2 < Max3 /\ Max3 < 253 * Max3
    /\ 1757 + 252 < Max2
BY SMT DEF Max2, Max3

LEMMA ShortsDecode == \A n \in 0..(Max2 - 1) : ShortRead(n) = n
<1> SUFFICES ASSUME NEW n \in 0..(Max2 - 1) PROVE ShortRead(n) = n
    OBVIOUS
<1>1. n \in Nat /\ n < Max2
    BY SMTT(30), MaximaAreNatural
<1>2. n < Max3 /\ n < 253 * Max3
    BY SMTT(30), <1>1, MaximaAreNatural
<1>3. Number(ENumber(n)) = n
    BY ZenonT(30), <1>1, <1>2, NumbersDecode
<1>4. ENumber(n)[3] = NoDigit /\ ENumber(n)[4] = NoDigit
    BY SMTT(30), <1>1, <1>2 DEF ENumber
<1> QED BY ZenonT(30), <1>3, <1>4 DEF ShortRead, Number

\* The values of a ping, for any start in the range.
LEMMA UpdateDecodes ==
    \A start \in AllStarts : \A s1 \in UpdateParts(start) :
        UpdateRest(start, s1) \in 0..252 /\ UpdateStart(start, s1) = start
<1> SUFFICES ASSUME NEW start \in AllStarts, NEW s1 \in UpdateParts(start)
    PROVE  UpdateRest(start, s1) \in 0..252 /\ UpdateStart(start, s1) = start
    OBVIOUS
<1>1. start \in Int /\ 0 <= start /\ start <= 1757
    BY SMTT(30) DEF AllStarts
<1>2. s1 \in Int /\ start <= s1 /\ s1 <= start + 252
    BY SMTT(30), <1>1 DEF UpdateParts
<1>3. PICK s2 \in 0..252 : s2 = s1 - start
    BY SMTT(30), <1>1, <1>2
<1>4. UpdateRest(start, s1) = s2
    <2>1. s2 % 256 = s2
        BY SMTT(30), ByteIsKept
    <2> QED BY SMTT(30), <1>3, <2>1 DEF UpdateRest
<1>5. s1 \in 0..(Max2 - 1)
    BY SMTT(30), <1>1, <1>2, MaximaAreNatural
<1>6. ShortRead(s1) = s1 /\ CharRead(s2) = s2
    BY ZenonT(30), <1>5, ShortsDecode, CharsDecode
<1>7. UpdateStart(start, s1) = s1 - s2
    BY ZenonT(30), <1>4, <1>6 DEF UpdateStart
<1>8. s1 - s2 = start
    BY SMTT(30), <1>1, <1>2, <1>3
<1> QED BY ZenonT(30), <1>4, <1>7, <1>8

\* The client computes the start the server has chosen, whichever part the server
\* picks, both at the beginning and with every ping.
THEOREM StartsDecode ==
    \A start \in AllStarts :
        /\ \A s1 \in InitParts(start) : InitStart(start, s1) = start
        /\ \A s1 \in UpdateParts(start) : UpdateStart(start, s1) = start
BY ZenonT(30), InitDecodes, UpdateDecodes

-----------------------------------------------------------------------------
(***************************************************************************)
(* No wrong number, while the connection is open.                          *)
(***************************************************************************)
SentKind == {"Init", "Other", "Pong"}

Shapes ==
    /\ server = [initialized |-> server.initialized, seq_start |-> server.seq_start,
                 upcoming_seq_start |-> server.upcoming_seq_start, seq |-> server.seq,
                 needpong |-> server.needpong]
    /\ server.initialized \in BOOLEAN /\ server.needpong \in BOOLEAN
    /\ server.seq_start \in Int /\ server.upcoming_seq_start \in Int /\ server.seq \in Int
    /\ client = [phase |-> client.phase, start |-> client.start, seq |-> client.seq]
    /\ client.start \in Int /\ client.seq \in Int
    /\ to_server \in Seq([kind : SentKind, number : Int, encoded : BOOLEAN])
    /\ to_client \in Seq([kind : {"Accepted", "Ping"}, start : Int])
    /\ queue \in Seq(SentKind)

\* Where pings and the answers to them are.
Pings == {i \in 1..Len(to_client) : to_client[i].kind = "Ping"}
Pongs == {i \in 1..Len(to_server) : to_server[i].kind = "Pong"}
Waiting == {i \in 1..Len(queue) : queue[i] = "Pong"}

\* One ping at most is open, wherever it or its answer is, and the server waits for it.
OnePing ==
    /\ \A i, j \in Pings : i = j
    /\ \A i, j \in Pongs : i = j
    /\ \A i, j \in Waiting : i = j
    /\ Pings # {} => Pongs = {} /\ Waiting = {}
    /\ Pongs # {} => Waiting = {}
    /\ Pings # {} \/ Pongs # {} \/ Waiting # {} => server.needpong
    /\ \A i \in Pings : to_client[i].start = server.upcoming_seq_start

\* The start that the client counted from when it sent the i-th packet under way: the
\* new one from its answer to the ping on.
StartOf(i) == IF \E j \in Pongs : j <= i THEN server.upcoming_seq_start ELSE server.seq_start

\* The packets under way count on from what the server has counted, and the client from
\* the last of them.
NumbersGoOn ==
    /\ \A i \in 1..Len(to_server) :
          to_server[i].number - StartOf(i) =
              IF i = 1 THEN server.seq ELSE Next10(to_server[i - 1].number - StartOf(i - 1))
    /\ client.seq = IF to_server = <<>> THEN server.seq
                    ELSE Next10(to_server[Len(to_server)].number - StartOf(Len(to_server)))

\* How far client and server are with each other.
Greeting ==
    /\ ~server.initialized /\ server.seq_start = 0
    /\ \A i \in 1..Len(to_client) : to_client[i].kind = "Ping"
    /\ \/ client.phase = "New" /\ to_server = <<>> /\ queue = <<>>
       \/ /\ client.phase = "Waiting" /\ queue = <<>>
          /\ Len(to_server) = 1 /\ to_server[1].kind = "Init"
       \/ client.phase = "Waiting" /\ to_server = <<>> /\ queue = <<"Init">>

Accepting ==
    /\ server.initialized /\ client.phase = "Waiting" /\ to_server = <<>> /\ queue = <<>>
    /\ \A i, j \in 1..Len(to_client) :
          to_client[i].kind = "Accepted" =>
              /\ to_client[i].start = server.seq_start
              /\ to_client[j].kind = "Accepted" => i = j

Talking ==
    /\ server.initialized /\ client.phase = "Ready"
    /\ client.start = StartOf(Len(to_server))
    /\ \A i \in 1..Len(to_client) : to_client[i].kind = "Ping"
    /\ \A i \in 1..Len(to_server) : to_server[i].kind # "Init" /\ to_server[i].encoded
    /\ \A i \in 1..Len(queue) : queue[i] # "Init"

Agreed == Shapes /\ OnePing /\ NumbersGoOn /\ (Greeting \/ Accepting \/ Talking)

SequenceInv == NeverWrongNumber /\ (closed = "No" => Agreed)

\* What is added to a sequence, and what is left of it.
LEMMA Appended ==
    ASSUME NEW S, NEW s \in Seq(S), NEW e \in S
    PROVE  /\ Append(s, e) \in Seq(S) /\ Len(s) \in Nat /\ Len(Append(s, e)) = Len(s) + 1
           /\ \A i \in 1..Len(s) : Append(s, e)[i] = s[i]
           /\ Append(s, e)[Len(s) + 1] = e
           /\ s = <<>> <=> Len(s) = 0
OBVIOUS

LEMMA LengthsAreNatural ==
    Shapes => Len(to_server) \in Nat /\ Len(queue) \in Nat /\ Len(to_client) \in Nat
<1> SUFFICES ASSUME Shapes PROVE Len(to_server) \in Nat /\ Len(queue) \in Nat /\ Len(to_client) \in Nat
    OBVIOUS
<1>1. \A S : \A s \in Seq(S) : Len(s) \in Nat
    OBVIOUS
<1> QED BY ZenonT(30), <1>1 DEF Shapes

LEMMA NoneLeft ==
    ASSUME NEW S, NEW s \in Seq(S)
    PROVE  s = <<>> <=> Len(s) = 0
OBVIOUS

LEMMA Rest ==
    ASSUME NEW S, NEW s \in Seq(S), s # <<>>
    PROVE  /\ Tail(s) \in Seq(S) /\ Len(s) \in Nat \ {0} /\ Len(Tail(s)) = Len(s) - 1
           /\ \A i \in 1..(Len(s) - 1) : Tail(s)[i] = s[i + 1]
           /\ Head(s) = s[1] /\ s[1] \in S
           /\ Tail(s) = <<>> <=> Len(s) = 1
<1>1. Len(s) \in Nat \ {0}
    OBVIOUS
<1>2. Tail(s) \in Seq(S) /\ Len(Tail(s)) = Len(s) - 1
    OBVIOUS
<1>3. \A i \in 1..(Len(s) - 1) : Tail(s)[i] = s[i + 1]
    OBVIOUS
<1>4. Head(s) = s[1] /\ s[1] \in S
    OBVIOUS
<1>5. Tail(s) = <<>> <=> Len(Tail(s)) = 0
    BY ZenonT(30), <1>2, NoneLeft
<1> QED BY <1>1, <1>2, <1>3, <1>4, <1>5

\* A packet that the client sends counts on.
LEMMA SentFollows ==
    ASSUME Shapes, Shapes', NumbersGoOn, NEW p \in [kind : SentKind, number : Int, encoded : BOOLEAN],
           to_server' = Append(to_server, p), server' = server,
           client'.seq = Next10(client.seq),
           \A i \in 1..Len(to_server) : StartOf(i)' = StartOf(i),
           \A n : n = Len(to_server) + 1 => p.number - StartOf(n)' = client.seq
    PROVE  NumbersGoOn'
<1> DEFINE S == [kind : SentKind, number : Int, encoded : BOOLEAN]
<1>1. PICK n \in Nat : n = Len(to_server)
    BY LengthsAreNatural
<1>2. /\ Len(to_server)' = n + 1 /\ to_server'[n + 1] = p /\ to_server' # <<>>
      /\ \A i \in 1..n : to_server'[i] = to_server[i]
      /\ to_server = <<>> <=> n = 0
    <2>1. to_server \in Seq(S) /\ p \in S
        BY DEF Shapes
    <2> HIDE DEF S
    <2>2. /\ Len(Append(to_server, p)) = Len(to_server) + 1
          /\ \A i \in 1..Len(to_server) : Append(to_server, p)[i] = to_server[i]
          /\ Append(to_server, p)[Len(to_server) + 1] = p
          /\ to_server = <<>> <=> Len(to_server) = 0
        BY <2>1, Appended
    <2>3. Append(to_server, p) # <<>>
        BY <2>1
    <2> QED BY <1>1, <2>2, <2>3
<1>3. p.number - StartOf(n + 1)' = client.seq
    BY <1>1
<1>4. client.seq = IF n = 0 THEN server.seq ELSE Next10(to_server[n].number - StartOf(n))
    BY <1>1, <1>2 DEF NumbersGoOn
<1>5. \A i \in 1..(n + 1) : to_server'[i].number - StartOf(i)' =
          IF i = 1 THEN server.seq ELSE Next10(to_server'[i - 1].number - StartOf(i - 1)')
    <2> SUFFICES ASSUME NEW i \in 1..(n + 1)
                 PROVE  to_server'[i].number - StartOf(i)' =
                            IF i = 1 THEN server.seq
                            ELSE Next10(to_server'[i - 1].number - StartOf(i - 1)')
        OBVIOUS
    <2>1. CASE i = n + 1
        <3>1. CASE n = 0
            BY <1>2, <1>3, <1>4, <2>1, <3>1
        <3>2. CASE n # 0
            <4>1. n \in 1..n /\ i - 1 = n /\ i # 1
                BY <2>1, <3>2
            <4>2. to_server'[n] = to_server[n] /\ StartOf(n)' = StartOf(n)
                BY <1>1, <1>2, <4>1
            <4> QED BY <1>2, <1>3, <1>4, <2>1, <3>2, <4>1, <4>2
        <3> QED BY <3>1, <3>2
    <2>2. CASE i # n + 1
        <3>1. i \in 1..n /\ (i # 1 => i - 1 \in 1..n)
            BY <2>2
        <3>2. to_server'[i] = to_server[i] /\ StartOf(i)' = StartOf(i)
            BY <1>1, <1>2, <3>1
        <3>3. i # 1 => to_server'[i - 1] = to_server[i - 1] /\ StartOf(i - 1)' = StartOf(i - 1)
            BY <1>1, <1>2, <3>1
        <3>4. to_server[i].number - StartOf(i) =
                  IF i = 1 THEN server.seq ELSE Next10(to_server[i - 1].number - StartOf(i - 1))
            BY <1>1, <3>1 DEF NumbersGoOn
        <3> QED BY <3>2, <3>3, <3>4
    <2> QED BY <2>1, <2>2
<1>6. client'.seq = Next10(p.number - StartOf(n + 1)')
    BY <1>3
<1> QED BY <1>2, <1>5, <1>6 DEF NumbersGoOn

\* A packet that the server takes has the number it counts on, and leaves the others so.
LEMMA TakenFollows ==
    ASSUME Shapes, NumbersGoOn, OnePing, to_server # <<>>, to_server' = Tail(to_server),
           client' = client, server'.seq = Next10(server.seq),
           server'.upcoming_seq_start = server.upcoming_seq_start,
           server'.seq_start = IF to_server[1].kind = "Pong" THEN server.upcoming_seq_start
                               ELSE server.seq_start
    PROVE  /\ to_server[1].number = StartOf(1) + server.seq
           /\ NumbersGoOn'
           /\ \A i \in 1..(Len(to_server) - 1) : StartOf(i)' = StartOf(i + 1)
           /\ \A n : n = Len(to_server) => StartOf(n - 1)' = StartOf(n)
<1>1. PICK n \in Nat \ {0} : n = Len(to_server)
    BY Rest DEF Shapes
<1>2. /\ Len(to_server') = n - 1
      /\ \A i \in 1..(n - 1) : to_server'[i] = to_server[i + 1]
      /\ to_server' = <<>> <=> n = 1
      /\ to_server[1].number \in Int
    <2> DEFINE S == [kind : SentKind, number : Int, encoded : BOOLEAN]
    <2>1. to_server \in Seq(S)
        BY DEF Shapes
    <2>2. to_server[1] \in S => to_server[1].number \in Int
        OBVIOUS
    <2> HIDE DEF S
    <2> QED BY <1>1, <2>1, <2>2, Rest
<1>3. \A i \in 1..n : StartOf(i) \in Int
    BY DEF StartOf, Shapes
<1>4. \A i \in 0..(n - 1) : StartOf(i)' = StartOf(i + 1)
    <2> SUFFICES ASSUME NEW i \in 0..(n - 1) PROVE StartOf(i)' = StartOf(i + 1)
        OBVIOUS
    <2>1. \A j \in 1..(n - 1) : j \in Pongs' <=> j + 1 \in Pongs
        BY <1>1, <1>2 DEF Pongs
    <2>2. Pongs' \subseteq 1..(n - 1) /\ Pongs \subseteq 1..n
        BY <1>1, <1>2 DEF Pongs
    <2>3. CASE 1 \in Pongs
        <3>1. Pongs = {1}
            BY <2>3 DEF OnePing
        <3>2. Pongs' = {}
            BY <2>1, <2>2, <3>1
        <3>3. server'.seq_start = server.upcoming_seq_start
            BY <2>3 DEF Pongs
        <3> QED BY <3>1, <3>2, <3>3 DEF StartOf
    <2>4. CASE 1 \notin Pongs
        <3>1. server'.seq_start = server.seq_start
            BY <1>1, <2>4 DEF Pongs
        <3>2. (\E j \in Pongs' : j <= i) <=> (\E j \in Pongs : j <= i + 1)
            <4>1. ASSUME NEW j \in Pongs', j <= i PROVE \E k \in Pongs : k <= i + 1
                BY <2>1, <2>2, <4>1
            <4>2. ASSUME NEW k \in Pongs, k <= i + 1 PROVE \E j \in Pongs' : j <= i
                <5>1. k # 1 /\ k - 1 \in 1..(n - 1) /\ (k - 1) + 1 = k /\ k - 1 <= i
                    BY <2>2, <2>4, <4>2
                <5> QED BY <2>1, <5>1
            <4> QED BY <4>1, <4>2
        <3> QED BY <3>1, <3>2 DEF StartOf
    <2> QED BY <2>3, <2>4
<1>5. \A i \in 1..n : to_server[i].number - StartOf(i) =
                IF i = 1 THEN server.seq ELSE Next10(to_server[i - 1].number - StartOf(i - 1))
    BY <1>1 DEF NumbersGoOn
<1>6. to_server[1].number - StartOf(1) = server.seq
    BY <1>5
<1>7. to_server[1].number = StartOf(1) + server.seq
    <2>1. server.seq \in Int
        BY DEF Shapes
    <2>2. StartOf(1) \in Int
        BY <1>3
    <2> QED BY <1>2, <1>6, <2>1, <2>2
<1>8. client.seq = Next10(to_server[n].number - StartOf(n))
    BY <1>1 DEF NumbersGoOn
<1>9. NumbersGoOn'
    <2>1. \A i \in 1..(n - 1) : to_server'[i].number - StartOf(i)' =
              IF i = 1 THEN server'.seq ELSE Next10(to_server'[i - 1].number - StartOf(i - 1)')
        <3> SUFFICES ASSUME NEW i \in 1..(n - 1)
                     PROVE  to_server'[i].number - StartOf(i)' =
                              IF i = 1 THEN server'.seq
                              ELSE Next10(to_server'[i - 1].number - StartOf(i - 1)')
            OBVIOUS
        <3>1. to_server'[i].number - StartOf(i)' = to_server[i + 1].number - StartOf(i + 1)
            BY <1>2, <1>4
        <3>2. to_server[i + 1].number - StartOf(i + 1) = Next10(to_server[i].number - StartOf(i))
            BY <1>5
        <3>3. CASE i = 1
            BY <1>6, <3>1, <3>2, <3>3
        <3>4. CASE i # 1
            <4>1. i - 1 \in 1..(n - 1) /\ (i - 1) + 1 = i
                BY <3>4
            <4>2. to_server'[i - 1].number - StartOf(i - 1)' = to_server[i].number - StartOf(i)
                BY <1>2, <1>4, <4>1
            <4> QED BY <3>1, <3>2, <3>4, <4>2
        <3> QED BY <3>3, <3>4
    <2>2. client'.seq = IF n = 1 THEN server'.seq
                        ELSE Next10(to_server'[n - 1].number - StartOf(n - 1)')
        <3>1. CASE n = 1
            BY <1>6, <1>8, <3>1
        <3>2. CASE n # 1
            <4>1. n - 1 \in 1..(n - 1) /\ (n - 1) + 1 = n
                BY <3>2
            <4>2. to_server'[n - 1].number - StartOf(n - 1)' = to_server[n].number - StartOf(n)
                BY <1>2, <1>4, <4>1
            <4> QED BY <1>8, <3>2, <4>2
        <3> QED BY <3>1, <3>2
    <2> QED BY <1>2, <2>1, <2>2 DEF NumbersGoOn
<1>10. StartOf(n - 1)' = StartOf(n)
    BY <1>4
<1> QED BY <1>1, <1>4, <1>7, <1>9, <1>10

LEMMA NextIsInteger == \A n \in Int : Next10(n) \in Int
BY SMTT(30), PeriodIsPositive DEF Next10

\* The first packet.
LEMMA HelloStep == ASSUME Agreed, Hello PROVE Agreed'
<1> DEFINE S == [kind : SentKind, number : Int, encoded : BOOLEAN]
           p == Numbered("Init", 0)
<1>1. /\ Shapes /\ NumbersGoOn /\ OnePing /\ Greeting
      /\ to_server = <<>> /\ queue = <<>> /\ client.phase = "New"
    BY DEF Agreed, Hello, Greeting, Accepting, Talking
<1>2. /\ client' = [phase |-> "Waiting", start |-> client.start, seq |-> Next10(client.seq)]
      /\ to_server' = Append(to_server, p) /\ UNCHANGED <<server, queue, to_client>>
    BY <1>1 DEF Hello, Shapes
<1>3. client.seq = server.seq /\ server.seq \in Int /\ client.seq \in Int /\ client.start \in Int
    BY <1>1 DEF NumbersGoOn, Shapes
<1>4. p \in S /\ p.kind = "Init" /\ p.number = client.seq
    BY <1>3 DEF Numbered, SentKind
<1> HIDE DEF p
<1>5. to_server \in Seq(S) /\ Len(to_server) = 0
    BY <1>1 DEF Shapes
<1>6. to_server' \in Seq(S) /\ Len(to_server') = 1 /\ to_server'[1] = p
    <2> HIDE DEF S
    <2> QED BY <1>2, <1>4, <1>5, Appended
<1>7. Shapes'
    <2>1. Next10(client.seq) \in Int
        BY <1>3, NextIsInteger
    <2> HIDE DEF S
    <2> QED BY <1>1, <1>2, <1>3, <1>6, <2>1 DEF Shapes, S
<1>8. Pongs' = {} /\ Pongs = {} /\ Pings' = Pings /\ Waiting' = Waiting
    BY <1>2, <1>4, <1>5, <1>6 DEF Pongs, Pings, Waiting
<1>9. OnePing'
    BY <1>1, <1>2, <1>8 DEF OnePing
<1>10. NumbersGoOn'
    <2>1. \A n : n = Len(to_server) + 1 => p.number - StartOf(n)' = client.seq
        BY <1>1, <1>2, <1>3, <1>4, <1>8 DEF StartOf, Greeting
    <2>2. client'.seq = Next10(client.seq)
        BY <1>2
    <2> HIDE DEF S
    <2> QED BY <1>1, <1>2, <1>4, <1>5, <1>7, <2>1, <2>2, SentFollows DEF S
<1>11. Greeting'
    BY <1>1, <1>2, <1>4, <1>6 DEF Greeting
<1> QED BY <1>7, <1>9, <1>10, <1>11 DEF Agreed

\* A packet of a client that has been accepted.
LEMMA SpeakStep == ASSUME Agreed, Speak PROVE Agreed'
<1> DEFINE S == [kind : SentKind, number : Int, encoded : BOOLEAN]
           p == Numbered("Other", client.start)
<1>1. Shapes /\ NumbersGoOn /\ OnePing /\ Talking
    BY DEF Agreed, Speak, Greeting, Accepting, Talking
<1>2. /\ client' = [phase |-> "Ready", start |-> client.start, seq |-> Next10(client.seq)]
      /\ to_server' = Append(to_server, p) /\ UNCHANGED <<server, queue, to_client>>
    BY <1>1 DEF Speak, Shapes
<1>3. client.seq \in Int /\ client.start \in Int
    BY <1>1 DEF Shapes
<1>4. /\ p \in S /\ p.kind = "Other" /\ p.number = client.start + client.seq /\ p.encoded
    <2>1. client.phase = "Ready"
        BY <1>1 DEF Talking
    <2>2. p = [kind |-> "Other", number |-> client.start + client.seq, encoded |-> TRUE]
        BY Zenon, <2>1 DEF Numbered
    <2>3. client.start + client.seq \in Int
        BY <1>3
    <2> HIDE DEF p
    <2> QED BY <2>2, <2>3 DEF SentKind
<1> HIDE DEF p
<1>5. PICK n \in Nat : n = Len(to_server)
    BY <1>1, LengthsAreNatural
<1>6. /\ to_server' \in Seq(S) /\ Len(to_server') = n + 1 /\ to_server'[n + 1] = p
      /\ \A i \in 1..n : to_server'[i] = to_server[i]
    <2>1. to_server \in Seq(S)
        BY <1>1 DEF Shapes
    <2> HIDE DEF S
    <2> QED BY <1>2, <1>4, <1>5, <2>1, Appended
<1>7. Shapes'
    <2>1. Next10(client.seq) \in Int
        BY <1>3, NextIsInteger
    <2> HIDE DEF S
    <2> QED BY <1>1, <1>2, <1>3, <1>6, <2>1 DEF Shapes, S
<1>8. Pongs' = Pongs /\ Pings' = Pings /\ Waiting' = Waiting /\ Pongs \subseteq 1..n
    BY <1>2, <1>4, <1>5, <1>6 DEF Pongs, Pings, Waiting
<1>9. OnePing'
    BY <1>1, <1>2, <1>8 DEF OnePing
<1>10. StartOf(n + 1)' = client.start /\ \A i \in 1..n : StartOf(i)' = StartOf(i)
    <2>1. client.start = StartOf(n)
        BY <1>1, <1>5 DEF Talking
    <2> QED BY <1>2, <1>8, <2>1 DEF StartOf
<1>11. NumbersGoOn'
    <2>1. p.number - StartOf(n + 1)' = client.seq
        BY <1>3, <1>4, <1>10
    <2>2. client'.seq = Next10(client.seq)
        BY <1>2
    <2> HIDE DEF S
    <2> QED BY <1>1, <1>2, <1>4, <1>5, <1>7, <1>10, <2>1, <2>2, SentFollows DEF S
<1>12. Talking'
    <2>1. client'.start = StartOf(n + 1)' /\ client'.phase = "Ready"
        BY <1>2, <1>10
    <2>2. \A i \in 1..(n + 1) : to_server'[i].kind # "Init" /\ to_server'[i].encoded
        BY <1>1, <1>4, <1>5, <1>6 DEF Talking
    <2> QED BY <1>1, <1>2, <1>6, <2>1, <2>2 DEF Talking
<1> QED BY <1>7, <1>9, <1>11, <1>12 DEF Agreed

\* A message is received.
LEMMA Received ==
    ASSUME Shapes, to_client # <<>>
    PROVE  /\ Len(to_client) \in Nat \ {0} /\ Len(Tail(to_client)) = Len(to_client) - 1
           /\ \A i \in 1..(Len(to_client) - 1) : Tail(to_client)[i] = to_client[i + 1]
           /\ Head(to_client) = to_client[1] /\ to_client[1].start \in Int
           /\ to_client[1].kind \in {"Accepted", "Ping"}
           /\ Tail(to_client) \in Seq([kind : {"Accepted", "Ping"}, start : Int])
<1> DEFINE S == [kind : {"Accepted", "Ping"}, start : Int]
<1>1. to_client \in Seq(S)
    BY DEF Shapes
<1>2. to_client[1] \in S => to_client[1].start \in Int /\ to_client[1].kind \in {"Accepted", "Ping"}
    OBVIOUS
<1> HIDE DEF S
<1> QED BY <1>1, <1>2, Rest DEF S

\* What is left of the messages.
LEMMA ReceivedPings ==
    ASSUME Shapes, OnePing, to_client # <<>>, to_client' = Tail(to_client)
    PROVE  /\ 1 \in Pings => Pings' = {} /\ Pongs = {} /\ Waiting = {} /\ server.needpong
           /\ \A i \in Pings' : i + 1 \in Pings /\ to_client'[i] = to_client[i + 1] /\ i \in Nat
           /\ Pings' # {} => Pings # {}
<1>1. PICK n \in Nat \ {0} : n = Len(to_client)
    BY Received
<1>2. \A i \in 1..(n - 1) : to_client'[i] = to_client[i + 1]
    BY <1>1, Received
<1>3. Len(to_client') = n - 1
    BY <1>1, Received
<1>4. \A i \in Pings' : i + 1 \in Pings /\ to_client'[i] = to_client[i + 1] /\ i \in 1..(n - 1)
    BY <1>1, <1>2, <1>3 DEF Pings
<1>5. ASSUME 1 \in Pings PROVE Pings' = {} /\ Pongs = {} /\ Waiting = {} /\ server.needpong
    <2>1. \A i \in Pings' : i + 1 = 1
        BY <1>4, <1>5 DEF OnePing
    <2>2. Pings' = {}
        BY <1>4, <2>1
    <2> QED BY <1>5, <2>2 DEF OnePing
<1>6. \A i \in Pings' : i \in Nat
    BY <1>4
<1>7. Pings' # {} => Pings # {}
    BY <1>4
<1> QED BY <1>4, <1>5, <1>6, <1>7

\* A ping is answered.
LEMMA PongStep ==
    ASSUME Agreed, Listen, Head(to_client).kind = "Ping", client.phase = "Ready"
    PROVE  Agreed'
<1> DEFINE S == [kind : SentKind, number : Int, encoded : BOOLEAN]
           start == server.upcoming_seq_start
           p == Numbered("Pong", start)
<1>1. Shapes /\ NumbersGoOn /\ OnePing /\ Talking
    BY DEF Agreed, Greeting, Accepting, Talking
<1>2. to_client # <<>> /\ to_client' = Tail(to_client)
    BY DEF Listen
<1>3. 1 \in Pings /\ Head(to_client) = to_client[1] /\ to_client[1].start = start /\ start \in Int
    <2>1. 1 \in Pings /\ Head(to_client) = to_client[1]
        BY <1>1, <1>2, Received DEF Pings
    <2> QED BY <1>1, <2>1 DEF OnePing, Shapes
<1>4. Pings' = {} /\ Pongs = {} /\ Waiting = {} /\ server.needpong
    BY <1>1, <1>2, <1>3, ReceivedPings
<1>5. /\ client' = [phase |-> "Ready", start |-> start, seq |-> Next10(client.seq)]
      /\ to_server' = Append(to_server, p) /\ UNCHANGED <<server, queue>>
    <2>1. /\ client' = [client EXCEPT !.start = start, !.seq = Next10(client.seq)]
          /\ to_server' = Append(to_server, p) /\ UNCHANGED <<server, queue>>
        BY <1>3 DEF Listen
    <2>2. client = [phase |-> "Ready", start |-> client.start, seq |-> client.seq]
        BY <1>1 DEF Shapes
    <2> QED BY <2>1, <2>2
<1>6. p \in S /\ p.kind = "Pong" /\ p.number = start + client.seq /\ p.encoded /\ client.seq \in Int
    <2>1. p = [kind |-> "Pong", number |-> start + client.seq, encoded |-> TRUE]
        BY Zenon DEF Numbered
    <2>2. client.seq \in Int
        BY <1>1 DEF Shapes
    <2>3. start + client.seq \in Int
        BY <1>3, <2>2
    <2> HIDE DEF p, start
    <2> QED BY <2>1, <2>2, <2>3 DEF SentKind
<1> HIDE DEF p
<1>7. PICK n \in Nat : n = Len(to_server)
    BY <1>1, LengthsAreNatural
<1>8. /\ to_server' \in Seq(S) /\ Len(to_server') = n + 1 /\ to_server'[n + 1] = p
      /\ \A i \in 1..n : to_server'[i] = to_server[i]
    <2>1. to_server \in Seq(S)
        BY <1>1 DEF Shapes
    <2> HIDE DEF S
    <2> QED BY <1>5, <1>6, <1>7, <2>1, Appended
<1>9. Shapes'
    <2>1. Next10(client.seq) \in Int
        BY <1>6, NextIsInteger
    <2>2. to_client' \in Seq([kind : {"Accepted", "Ping"}, start : Int])
        BY <1>1, <1>2, Received
    <2> HIDE DEF S
    <2> QED BY <1>1, <1>3, <1>5, <1>8, <2>1, <2>2 DEF Shapes, S
<1>10. Pongs' = {n + 1} /\ Waiting' = {}
    <2>1. \A i \in 1..n : i \notin Pongs'
        BY <1>4, <1>7, <1>8 DEF Pongs
    <2>2. n + 1 \in Pongs' /\ Pongs' \subseteq 1..(n + 1)
        BY <1>6, <1>8 DEF Pongs
    <2>3. Waiting' = Waiting
        BY <1>5 DEF Waiting
    <2>4. \A i \in Pongs' : i = n + 1
        BY <2>1, <2>2
    <2> QED BY <1>4, <2>2, <2>3, <2>4
<1>11. OnePing'
    BY <1>4, <1>5, <1>10 DEF OnePing
<1>12. StartOf(n + 1)' = start /\ \A i \in 1..n : StartOf(i)' = StartOf(i)
    BY <1>4, <1>5, <1>10 DEF StartOf
<1>13. NumbersGoOn'
    <2>1. p.number - StartOf(n + 1)' = client.seq
        BY <1>3, <1>6, <1>12
    <2>2. client'.seq = Next10(client.seq)
        BY <1>5
    <2> HIDE DEF S
    <2> QED BY <1>1, <1>5, <1>6, <1>7, <1>9, <1>12, <2>1, <2>2, SentFollows DEF S
<1>14. Talking'
    <2>1. client'.start = StartOf(n + 1)' /\ client'.phase = "Ready"
        BY <1>5, <1>12
    <2>2. \A i \in 1..(n + 1) : to_server'[i].kind # "Init" /\ to_server'[i].encoded
        <3> SUFFICES ASSUME NEW i \in 1..(n + 1)
                     PROVE  to_server'[i].kind # "Init" /\ to_server'[i].encoded
            OBVIOUS
        <3>1. CASE i = n + 1
            BY <1>6, <1>8, <3>1
        <3>2. CASE i # n + 1
            <4>1. i \in 1..n
                BY <3>2
            <4> QED BY <1>1, <1>7, <1>8, <4>1 DEF Talking
        <3> QED BY <3>1, <3>2
    <2>3. \A i \in 1..Len(to_client') : to_client'[i].kind = "Ping"
        BY <1>1, <1>2, Received DEF Talking
    <2> QED BY <1>1, <1>5, <1>8, <2>1, <2>2, <2>3 DEF Talking
<1> QED BY <1>9, <1>11, <1>13, <1>14 DEF Agreed

\* The client is accepted.
LEMMA AcceptedStep ==
    ASSUME Agreed, Listen, Head(to_client).kind = "Accepted"
    PROVE  Agreed'
<1>1. to_client # <<>> /\ to_client' = Tail(to_client) /\ Shapes /\ OnePing /\ NumbersGoOn
    BY DEF Listen, Agreed
<1>2. PICK n \in Nat \ {0} : n = Len(to_client)
    BY <1>1, Received
<1>3. to_client[1].kind = "Accepted" /\ Head(to_client) = to_client[1] /\ 1 \in 1..n
    BY <1>1, <1>2, Received
<1>4. Accepting
    BY <1>2, <1>3 DEF Agreed, Greeting, Talking
<1>5. /\ to_client[1].start = server.seq_start /\ server.seq_start \in Int
      /\ \A i \in 1..n : to_client[i].kind = "Accepted" => i = 1
    BY <1>1, <1>2, <1>3, <1>4 DEF Accepting, Shapes
<1>6. /\ client' = [phase |-> "Ready", start |-> server.seq_start, seq |-> client.seq]
      /\ UNCHANGED <<server, to_server, queue>>
    <2>1. client' = [client EXCEPT !.phase = "Ready", !.start = server.seq_start]
          /\ UNCHANGED <<server, to_server, queue>>
        BY <1>3, <1>5 DEF Listen
    <2>2. client = [phase |-> client.phase, start |-> client.start, seq |-> client.seq]
        BY <1>1 DEF Shapes
    <2> QED BY <2>1, <2>2
<1>7. Shapes'
    <2>1. to_client' \in Seq([kind : {"Accepted", "Ping"}, start : Int])
        BY <1>1, Received
    <2> QED BY <1>1, <1>5, <1>6, <2>1 DEF Shapes
<1>8. Pongs' = Pongs /\ Waiting' = Waiting /\ Pongs = {} /\ Waiting = {}
    BY <1>4, <1>6 DEF Pongs, Waiting, Accepting
<1>9. OnePing'
    <2>1. \A i \in Pings' : i + 1 \in Pings /\ to_client'[i] = to_client[i + 1] /\ i \in Nat
        BY <1>1, ReceivedPings
    <2>2. Pings' # {} => Pings # {}
        BY <1>1, ReceivedPings
    <2>3. \A i, j \in Pings' : i = j
        BY <1>1, <2>1 DEF OnePing
    <2>4. \A i \in Pings' : to_client'[i].start = server.upcoming_seq_start
        BY <1>1, <2>1 DEF OnePing
    <2>5. Pings' # {} => server.needpong
        BY <1>1, <2>2 DEF OnePing
    <2>6. server' = server /\ Pongs' = {} /\ Waiting' = {}
        BY <1>6, <1>8
    <2> HIDE DEF Pings, Pongs, Waiting
    <2> QED BY <2>3, <2>4, <2>5, <2>6 DEF OnePing
<1>10. NumbersGoOn'
    BY <1>1, <1>4, <1>6 DEF NumbersGoOn, Accepting
<1>11. Talking'
    <2>1. StartOf(0)' = server.seq_start /\ Len(to_server) = 0 /\ Len(queue) = 0
        BY <1>4, <1>6, <1>8 DEF StartOf, Accepting
    <2>2. \A i \in 1..Len(to_client') : to_client'[i].kind = "Ping"
        <3> SUFFICES ASSUME NEW i \in 1..Len(to_client') PROVE to_client'[i].kind = "Ping"
            OBVIOUS
        <3>1. i \in 1..(n - 1) /\ i + 1 \in 1..n /\ i + 1 # 1
            BY <1>1, <1>2, Received
        <3>2. to_client'[i] = to_client[i + 1]
            BY <1>1, <1>2, <3>1, Received
        <3>3. to_client'[i].kind # "Accepted"
            BY <1>5, <3>1, <3>2
        <3>4. to_client'[i].kind \in {"Accepted", "Ping"}
            <4> DEFINE S == [kind : {"Accepted", "Ping"}, start : Int]
            <4>1. to_client' \in Seq(S)
                BY <1>7 DEF Shapes
            <4>2. \A e \in S : e.kind \in {"Accepted", "Ping"}
                OBVIOUS
            <4> HIDE DEF S
            <4>3. to_client'[i] \in S
                BY <4>1
            <4> QED BY <4>2, <4>3
        <3> QED BY <3>3, <3>4
    <2> QED BY <1>4, <1>6, <2>1, <2>2 DEF Talking, Accepting
<1> QED BY <1>7, <1>9, <1>10, <1>11 DEF Agreed

\* A ping is dropped by a client that has not been accepted.
LEMMA DroppedStep ==
    ASSUME Agreed, Listen, Head(to_client).kind = "Ping", client.phase # "Ready"
    PROVE  Agreed'
<1>1. /\ to_client # <<>> /\ to_client' = Tail(to_client) /\ Shapes /\ OnePing /\ NumbersGoOn
      /\ UNCHANGED <<server, to_server, queue, client>>
    BY DEF Listen, Agreed
<1>2. PICK n \in Nat \ {0} : n = Len(to_client)
    BY <1>1, Received
<1>3. Len(to_client') = n - 1 /\ \A i \in 1..(n - 1) : to_client'[i] = to_client[i + 1]
    BY <1>1, <1>2, Received
<1>4. 1 \in Pings
    BY <1>1, <1>2, Received DEF Pings
<1>5. Pings' = {} /\ Pongs = {} /\ Waiting = {} /\ Pongs' = Pongs /\ Waiting' = Waiting
    <2>1. Pings' = {} /\ Pongs = {} /\ Waiting = {}
        BY <1>1, <1>4, ReceivedPings
    <2> QED BY <1>1, <2>1 DEF Pongs, Waiting
<1>6. Shapes'
    <2>1. to_client' \in Seq([kind : {"Accepted", "Ping"}, start : Int])
        BY <1>1, Received
    <2> QED BY <1>1, <2>1 DEF Shapes
<1>7. OnePing'
    BY <1>5 DEF OnePing
<1>8. NumbersGoOn'
    BY <1>1, <1>5 DEF NumbersGoOn, StartOf
<1>9. Greeting' \/ Accepting'
    <2>1. CASE Greeting
        <3>1. \A i \in 1..Len(to_client') : to_client'[i].kind = "Ping"
            BY <1>2, <1>3, <2>1 DEF Greeting
        <3> QED BY <1>1, <2>1, <3>1 DEF Greeting
    <2>2. CASE Accepting
        <3> SUFFICES ASSUME NEW i \in 1..Len(to_client'), NEW j \in 1..Len(to_client'),
                            to_client'[i].kind = "Accepted"
                     PROVE  /\ to_client'[i].start = server'.seq_start
                            /\ to_client'[j].kind = "Accepted" => i = j
            BY <1>1, <2>2 DEF Accepting
        <3>1. i \in 1..(n - 1) /\ j \in 1..(n - 1) /\ i + 1 \in 1..n /\ j + 1 \in 1..n
            BY <1>3
        <3>2. to_client'[i] = to_client[i + 1] /\ to_client'[j] = to_client[j + 1]
            BY <1>3, <3>1
        <3>3. /\ to_client[i + 1].start = server.seq_start
              /\ to_client[j + 1].kind = "Accepted" => i + 1 = j + 1
            BY <1>2, <2>2, <3>1, <3>2 DEF Accepting
        <3> QED BY <1>1, <3>1, <3>2, <3>3
    <2> QED BY <2>1, <2>2 DEF Agreed, Talking
<1> QED BY <1>6, <1>7, <1>8, <1>9 DEF Agreed

LEMMA ListenStep == ASSUME Agreed, Listen PROVE Agreed'
<1>1. Head(to_client).kind \in {"Accepted", "Ping"}
    BY Received DEF Agreed, Listen
<1> QED BY <1>1, PongStep, AcceptedStep, DroppedStep

\* A packet is taken and its number tested: it is the one that is expected.
LEMMA ExecuteStep == ASSUME Agreed, Execute PROVE Agreed' /\ closed' = closed
<1> DEFINE S == [kind : SentKind, number : Int, encoded : BOOLEAN]
           taken == to_server[1]
<1>1. Shapes /\ OnePing /\ NumbersGoOn /\ to_server # <<>> /\ to_server' = Tail(to_server)
      /\ UNCHANGED <<client, to_client>>
    BY DEF Agreed, Execute
<1>2. to_server \in Seq(S)
    BY <1>1 DEF Shapes
<1>3. PICK n \in Nat \ {0} : n = Len(to_server)
    <2> HIDE DEF S
    <2> QED BY <1>1, <1>2, Rest
<1>4. /\ to_server' \in Seq(S) /\ Len(to_server') = n - 1 /\ Head(to_server) = taken
      /\ \A i \in 1..(n - 1) : to_server'[i] = to_server[i + 1]
      /\ taken \in S
    <2> HIDE DEF S
    <2> QED BY <1>1, <1>2, <1>3, Rest
<1>5. taken.kind \in SentKind
    BY <1>4
<1>6. server' = [initialized |-> server.initialized,
                 seq_start |-> IF taken.kind = "Pong" THEN server.upcoming_seq_start
                               ELSE server.seq_start,
                 upcoming_seq_start |-> server.upcoming_seq_start,
                 seq |-> Next10(server.seq), needpong |-> server.needpong]
    <2> DEFINE first == IF taken.kind = "Pong" THEN server.upcoming_seq_start ELSE server.seq_start
    <2>1. server' = [server EXCEPT !.seq_start = first, !.seq = Next10(server.seq)]
        BY <1>4 DEF Execute, Counted
    <2> HIDE DEF taken, first
    <2>2. server' = [initialized |-> server.initialized, seq_start |-> first,
                     upcoming_seq_start |-> server.upcoming_seq_start,
                     seq |-> Next10(server.seq), needpong |-> server.needpong]
        BY <1>1, <2>1 DEF Shapes
    <2> QED BY <2>2 DEF first
<1>7. /\ taken.number = StartOf(1) + server.seq /\ NumbersGoOn'
      /\ \A i \in 1..(n - 1) : StartOf(i)' = StartOf(i + 1)
      /\ StartOf(n - 1)' = StartOf(n)
    <2> HIDE DEF S
    <2> QED BY <1>1, <1>3, <1>6, TakenFollows
<1>8. Started(taken) = StartOf(1)
    <2>1. 1 \in Pongs <=> taken.kind = "Pong"
        BY <1>3 DEF Pongs
    <2>2. \A j \in Pongs : j <= 1 <=> j = 1
        BY <1>3 DEF Pongs
    <2> HIDE DEF taken
    <2> QED BY <2>1, <2>2 DEF Started, StartOf
<1>9. Readable(taken)
    <2>1. CASE Greeting
        BY <1>1, <1>3, <2>1 DEF Greeting, Readable
    <2>2. CASE Talking
        <3>1. taken.encoded /\ server.initialized
            BY <1>3, <2>2 DEF Talking
        <3>2. taken.encoded \in BOOLEAN /\ server.initialized \in BOOLEAN
            BY <1>1, <1>4 DEF Shapes
        <3> HIDE DEF taken, S
        <3> QED BY <3>1, <3>2 DEF Readable
    <2> QED BY <1>1, <2>1, <2>2 DEF Agreed, Accepting
<1>10. queue' = Append(queue, taken.kind) /\ closed' = closed
    BY Zenon, <1>4, <1>7, <1>8, <1>9 DEF Execute
<1>11. PICK m \in Nat : m = Len(queue)
    BY <1>1, LengthsAreNatural
<1>12. /\ queue' \in Seq(SentKind) /\ Len(queue') = m + 1 /\ queue'[m + 1] = taken.kind
       /\ \A i \in 1..m : queue'[i] = queue[i]
       /\ queue = <<>> <=> m = 0
    <2>1. queue \in Seq(SentKind)
        BY <1>1 DEF Shapes
    <2> HIDE DEF taken
    <2> QED BY <1>5, <1>10, <1>11, <2>1, Appended
<1>13. Shapes'
    <2>1. Next10(server.seq) \in Int
        BY <1>1, NextIsInteger DEF Shapes
    <2> HIDE DEF taken, S
    <2> QED BY <1>1, <1>4, <1>6, <1>12, <2>1 DEF Shapes, S
<1>14. OnePing'
    <2>1. Pings' = Pings
        BY <1>1 DEF Pings
    <2>2. \A i \in Pongs' : i \in Nat /\ i + 1 \in Pongs /\ i + 1 # 1
        BY <1>3, <1>4 DEF Pongs
    <2>3. \A i \in Waiting' : IF i = m + 1 THEN 1 \in Pongs ELSE i \in Waiting
        <3> SUFFICES ASSUME NEW i \in Waiting' PROVE IF i = m + 1 THEN 1 \in Pongs ELSE i \in Waiting
            OBVIOUS
        <3>1. i \in 1..(m + 1) /\ queue'[i] = "Pong"
            BY <1>12 DEF Waiting
        <3>2. CASE i = m + 1
            BY <1>3, <1>12, <3>1, <3>2 DEF Pongs
        <3>3. CASE i # m + 1
            BY <1>11, <1>12, <3>1, <3>3 DEF Waiting
        <3> QED BY <3>2, <3>3
    <2>4. server'.needpong = server.needpong /\ server'.upcoming_seq_start = server.upcoming_seq_start
        BY <1>6
    <2>5. CASE 1 \in Pongs
        <3>1. Pings = {} /\ Waiting = {} /\ \A i \in Pongs : i = 1
            BY <1>1, <2>5 DEF OnePing
        <3>2. Pongs' = {} /\ \A i \in Waiting' : i = m + 1
            BY <2>2, <2>3, <3>1
        <3> QED BY <1>1, <2>1, <2>4, <2>5, <3>1, <3>2 DEF OnePing
    <2>6. CASE 1 \notin Pongs
        <3>1. \A i \in Waiting' : i \in Waiting
            BY <2>3, <2>6
        <3>2. \A i, j \in Pongs' : i = j
            BY <1>1, <2>2 DEF OnePing
        <3>3. Pongs' # {} => Pongs # {}
            BY <2>2
        <3>4. /\ \A i, j \in Waiting' : i = j
              /\ Waiting' # {} => Waiting # {}
            BY <1>1, <3>1 DEF OnePing
        <3> QED BY <1>1, <2>1, <2>4, <3>2, <3>3, <3>4 DEF OnePing
    <2> QED BY <2>5, <2>6
<1>15. Greeting' \/ Talking'
    <2>1. CASE Greeting
        <3>1. n = 1 /\ taken.kind = "Init" /\ queue = <<>> /\ client.phase = "Waiting"
            BY <1>1, <1>3, <2>1 DEF Greeting
        <3>2. to_server' = <<>> /\ queue' = <<"Init">>
            BY <1>2, <1>4, <1>10, <3>1, NoneLeft
        <3>3. server'.initialized = server.initialized /\ server'.seq_start = server.seq_start
            BY <1>6, <3>1
        <3> QED BY <1>1, <2>1, <3>1, <3>2, <3>3 DEF Greeting
    <2>2. CASE Talking
        <3>1. \A i \in 1..(n - 1) : to_server'[i].kind # "Init" /\ to_server'[i].encoded
            <4>1. \A i \in 1..n : to_server[i].kind # "Init" /\ to_server[i].encoded
                BY <1>3, <2>2 DEF Talking
            <4>2. \A i \in 1..(n - 1) : i + 1 \in 1..n
                BY <1>3
            <4> QED BY <1>4, <4>1, <4>2
        <3>2. \A i \in 1..(m + 1) : queue'[i] # "Init"
            <4>1. taken.kind # "Init"
                BY <1>3, <2>2 DEF Talking
            <4> QED BY <1>11, <1>12, <2>2, <4>1 DEF Talking
        <3>3. server'.initialized = server.initialized
            BY <1>6
        <3> QED BY <1>1, <1>3, <1>4, <1>7, <1>12, <2>2, <3>1, <3>2, <3>3 DEF Talking
    <2> QED BY <1>1, <2>1, <2>2 DEF Agreed, Accepting
<1> QED BY <1>7, <1>10, <1>13, <1>14, <1>15 DEF Agreed

\* A message is sent to the client.
LEMMA Messaged ==
    ASSUME Shapes, NEW kind \in {"Accepted", "Ping"}, NEW start \in Int,
           to_client' = Append(to_client, [kind |-> kind, start |-> start])
    PROVE  /\ Len(to_client) \in Nat /\ Len(to_client') = Len(to_client) + 1
           /\ to_client'[Len(to_client) + 1] = [kind |-> kind, start |-> start]
           /\ \A i \in 1..Len(to_client) : to_client'[i] = to_client[i]
           /\ to_client' \in Seq([kind : {"Accepted", "Ping"}, start : Int])
<1> DEFINE S == [kind : {"Accepted", "Ping"}, start : Int]
           e == [kind |-> kind, start |-> start]
<1>1. to_client \in Seq(S) /\ e \in S
    BY DEF Shapes
<1> HIDE DEF S, e
<1>2. to_client' = Append(to_client, e)
    BY DEF e
<1>3. /\ Len(to_client) \in Nat /\ Len(to_client') = Len(to_client) + 1
      /\ to_client'[Len(to_client) + 1] = e
      /\ \A i \in 1..Len(to_client) : to_client'[i] = to_client[i]
      /\ to_client' \in Seq(S)
    BY <1>1, <1>2, Appended
<1> QED BY <1>3 DEF e, S

\* The client is accepted, with a start.
LEMMA InitStep == ASSUME Agreed, Init_Init PROVE Agreed'
<1>1. /\ Shapes /\ OnePing /\ NumbersGoOn /\ queue # <<>> /\ Head(queue) = "Init"
      /\ ~server.initialized /\ queue' = Tail(queue) /\ UNCHANGED <<closed, client, to_server>>
    BY DEF Agreed, Init_Init
<1>2. Greeting /\ to_server = <<>> /\ queue = <<"Init">> /\ client.phase = "Waiting"
    BY <1>1 DEF Agreed, Greeting, Accepting, Talking
<1>a. PICK start \in Starts : \E s1 \in InitParts(start) :
          /\ server' = [server EXCEPT !.initialized = TRUE, !.seq_start = start]
          /\ to_client' = Append(to_client, [kind |-> "Accepted", start |-> InitStart(start, s1)])
    BY DEF Init_Init
<1>3. PICK s1 \in InitParts(start) :
          /\ server' = [server EXCEPT !.initialized = TRUE, !.seq_start = start]
          /\ to_client' = Append(to_client, [kind |-> "Accepted", start |-> InitStart(start, s1)])
    BY <1>a
<1>4. start \in AllStarts
    BY StartsAreInRange
<1>5. InitStart(start, s1) = start /\ start \in Int
    <2>1. InitStart(start, s1) = start
        BY ZenonT(30), <1>4, StartsDecode
    <2>2. start \in Int
        BY <1>4 DEF AllStarts
    <2> QED BY <2>1, <2>2
<1>6. server' = [initialized |-> TRUE, seq_start |-> start,
                 upcoming_seq_start |-> server.upcoming_seq_start,
                 seq |-> server.seq, needpong |-> server.needpong]
    BY <1>1, <1>3 DEF Shapes
<1>7. PICK n \in Nat : n = Len(to_client)
    BY <1>1, <1>3, <1>5, Messaged
<1>8. /\ Len(to_client') = n + 1
      /\ to_client'[n + 1] = [kind |-> "Accepted", start |-> start]
      /\ \A i \in 1..n : to_client'[i] = to_client[i]
      /\ to_client' \in Seq([kind : {"Accepted", "Ping"}, start : Int])
    BY <1>1, <1>3, <1>5, <1>7, Messaged
<1>9. queue' = <<>> /\ queue' \in Seq(SentKind)
    BY <1>1, <1>2
<1>10. Shapes'
    BY <1>1, <1>5, <1>6, <1>8, <1>9 DEF Shapes
<1>11. Pings' = Pings /\ Pongs' = Pongs /\ Waiting' = Waiting /\ Pongs = {} /\ Waiting = {}
    <2>1. Pings' = Pings
        BY <1>7, <1>8 DEF Pings
    <2> QED BY <1>1, <1>2, <1>9, <2>1 DEF Pongs, Waiting
<1>12. OnePing'
    <2>1. \A i \in Pings : to_client'[i] = to_client[i]
        BY <1>7, <1>8 DEF Pings
    <2> QED BY <1>1, <1>6, <1>11, <2>1 DEF OnePing
<1>13. NumbersGoOn'
    BY <1>1, <1>2, <1>6 DEF NumbersGoOn
<1>14. Accepting'
    <2>1. \A i \in 1..(n + 1) : to_client'[i].kind = "Accepted" => i = n + 1
        <3> SUFFICES ASSUME NEW i \in 1..(n + 1), i # n + 1 PROVE to_client'[i].kind = "Ping"
            OBVIOUS
        <3>1. i \in 1..n
            OBVIOUS
        <3> QED BY <1>2, <1>7, <1>8, <3>1 DEF Greeting
    <2>2. to_client'[n + 1].start = server'.seq_start
        BY <1>6, <1>8
    <2> QED BY <1>1, <1>2, <1>6, <1>8, <1>9, <2>1, <2>2 DEF Accepting
<1> QED BY <1>10, <1>12, <1>13, <1>14 DEF Agreed

\* What is left of the queue.
LEMMA Unqueued ==
    ASSUME Agreed, queue # <<>>, queue' = Tail(queue), Head(queue) # "Init"
    PROVE  /\ queue' \in Seq(SentKind) /\ Talking
           /\ \A i \in 1..Len(queue') : queue'[i] # "Init"
           /\ \A i \in Waiting' : i + 1 \in Waiting /\ i \in Nat /\ i + 1 # 1
           /\ Head(queue) = "Pong" => 1 \in Waiting
<1>1. queue \in Seq(SentKind) /\ Talking
    BY DEF Agreed, Shapes, Greeting, Accepting
<1>2. PICK n \in Nat \ {0} : n = Len(queue)
    BY <1>1, Rest
<1>3. /\ queue' \in Seq(SentKind) /\ Len(queue') = n - 1 /\ Head(queue) = queue[1]
      /\ \A i \in 1..(n - 1) : queue'[i] = queue[i + 1]
    BY <1>1, <1>2, Rest
<1>4. \A i \in 1..(n - 1) : queue'[i] # "Init"
    BY <1>1, <1>2, <1>3 DEF Talking
<1>5. \A i \in Waiting' : i + 1 \in Waiting /\ i \in Nat /\ i + 1 # 1
    BY <1>2, <1>3 DEF Waiting
<1>6. Head(queue) = "Pong" => 1 \in Waiting
    BY <1>2, <1>3 DEF Waiting
<1> QED BY <1>1, <1>3, <1>4, <1>5, <1>6

\* The answer to a ping is handled: the next ping may be sent.
LEMMA PingedStep == ASSUME Agreed, Connection_Ping PROVE Agreed'
<1>1. /\ Shapes /\ OnePing /\ NumbersGoOn /\ queue # <<>> /\ Head(queue) = "Pong"
      /\ queue' = Tail(queue) /\ server' = [server EXCEPT !.needpong = FALSE]
      /\ UNCHANGED <<closed, client, to_server, to_client>>
    BY DEF Agreed, Connection_Ping
<1>2. /\ queue' \in Seq(SentKind) /\ Talking
      /\ \A i \in 1..Len(queue') : queue'[i] # "Init"
      /\ \A i \in Waiting' : i + 1 \in Waiting /\ i \in Nat /\ i + 1 # 1
      /\ 1 \in Waiting
    BY <1>1, Unqueued
<1>3. server' = [initialized |-> server.initialized, seq_start |-> server.seq_start,
                 upcoming_seq_start |-> server.upcoming_seq_start,
                 seq |-> server.seq, needpong |-> FALSE]
    BY <1>1 DEF Shapes
<1>4. Shapes'
    BY <1>1, <1>2, <1>3 DEF Shapes
<1>5. Pings' = Pings /\ Pongs' = Pongs /\ Waiting' = {} /\ Pings = {} /\ Pongs = {}
    <2>1. Pings = {} /\ Pongs = {} /\ \A i \in Waiting : i = 1
        BY <1>1, <1>2 DEF OnePing
    <2>2. Waiting' = {}
        BY <1>2, <2>1
    <2>3. Pings' = Pings /\ Pongs' = Pongs
        BY <1>1 DEF Pings, Pongs
    <2> QED BY <2>1, <2>2, <2>3
<1>6. OnePing'
    BY <1>5 DEF OnePing
<1>7. NumbersGoOn' /\ \A n : StartOf(n)' = StartOf(n)
    BY <1>1, <1>3, <1>5 DEF NumbersGoOn, StartOf
<1>8. Talking'
    BY <1>1, <1>2, <1>3, <1>7 DEF Talking
<1> QED BY <1>4, <1>6, <1>7, <1>8 DEF Agreed

LEMMA HandleStep == ASSUME Agreed, Handle PROVE Agreed'
<1>1. /\ Shapes /\ OnePing /\ NumbersGoOn /\ queue # <<>> /\ Head(queue) = "Other"
      /\ queue' = Tail(queue) /\ UNCHANGED <<closed, server, client, to_server, to_client>>
    BY DEF Agreed, Handle
<1>2. /\ queue' \in Seq(SentKind) /\ Talking
      /\ \A i \in 1..Len(queue') : queue'[i] # "Init"
      /\ \A i \in Waiting' : i + 1 \in Waiting /\ i \in Nat
    BY <1>1, Unqueued
<1>3. Shapes'
    BY <1>1, <1>2 DEF Shapes
<1>4. Pings' = Pings /\ Pongs' = Pongs
    BY <1>1 DEF Pings, Pongs
<1>5. /\ Waiting' # {} => Waiting # {}
      /\ \A i, j \in Waiting' : i = j
    BY <1>1, <1>2 DEF OnePing
<1>6. OnePing'
    BY <1>1, <1>4, <1>5 DEF OnePing
<1>7. NumbersGoOn' /\ \A n : StartOf(n)' = StartOf(n)
    BY <1>1, <1>4 DEF NumbersGoOn, StartOf
<1>8. Talking'
    BY <1>1, <1>2, <1>7 DEF Talking
<1> QED BY <1>3, <1>6, <1>7, <1>8 DEF Agreed

\* A ping is sent, with a new start, or the connection closed.
LEMMA PingStep ==
    ASSUME Agreed, server_ping_all
    PROVE  closed' \in {closed, "Ping"} /\ (closed' = "No" => Agreed')
<1>1. /\ Shapes /\ OnePing /\ NumbersGoOn /\ closed = "No"
      /\ UNCHANGED <<queue, client, to_server>>
    BY DEF Agreed, server_ping_all
<1>2. CASE server.needpong
    BY <1>1, <1>2 DEF server_ping_all, PingOut
<1>3. CASE ~server.needpong
    <2>a. PICK start \in Starts : \E s1 \in UpdateParts(start) :
              /\ server' = [server EXCEPT !.upcoming_seq_start = start, !.needpong = TRUE]
              /\ to_client' = Append(to_client, [kind |-> "Ping", start |-> UpdateStart(start, s1)])
        BY <1>3 DEF server_ping_all, PingOut
    <2>1. PICK s1 \in UpdateParts(start) :
              /\ server' = [server EXCEPT !.upcoming_seq_start = start, !.needpong = TRUE]
              /\ to_client' = Append(to_client, [kind |-> "Ping", start |-> UpdateStart(start, s1)])
        BY <2>a
    <2>2. start \in AllStarts
        BY StartsAreInRange
    <2>3. UpdateStart(start, s1) = start /\ start \in Int
        <3>1. UpdateStart(start, s1) = start
            BY ZenonT(30), <2>2, StartsDecode
        <3>2. start \in Int
            BY <2>2 DEF AllStarts
        <3> QED BY <3>1, <3>2
    <2>4. server' = [initialized |-> server.initialized, seq_start |-> server.seq_start,
                     upcoming_seq_start |-> start, seq |-> server.seq, needpong |-> TRUE]
        BY <1>1, <2>1 DEF Shapes
    <2>5. PICK n \in Nat : n = Len(to_client)
        BY <1>1, <2>1, <2>3, Messaged
    <2>6. /\ Len(to_client') = n + 1
          /\ to_client'[n + 1] = [kind |-> "Ping", start |-> start]
          /\ \A i \in 1..n : to_client'[i] = to_client[i]
          /\ to_client' \in Seq([kind : {"Accepted", "Ping"}, start : Int])
        BY <1>1, <2>1, <2>3, <2>5, Messaged
    <2>7. Shapes'
        BY <1>1, <2>3, <2>4, <2>6 DEF Shapes
    <2>8. Pings = {} /\ Pongs = {} /\ Waiting = {} /\ Pongs' = Pongs /\ Waiting' = Waiting
        BY <1>1, <1>3 DEF OnePing, Pongs, Waiting
    <2>9. \A i \in Pings' : i = n + 1
        BY <2>5, <2>6, <2>8 DEF Pings
    <2>10. OnePing'
        BY <2>4, <2>6, <2>8, <2>9 DEF OnePing
    <2>11. NumbersGoOn' /\ \A i : StartOf(i)' = StartOf(i)
        BY <1>1, <2>4, <2>8 DEF NumbersGoOn, StartOf
    <2>12. \A i \in 1..(n + 1) : i \in 1..n \/ to_client'[i].kind = "Ping"
        BY <2>6
    <2>13. Greeting' \/ Accepting' \/ Talking'
        <3>1. CASE Greeting
            <4>1. \A i \in 1..(n + 1) : to_client'[i].kind = "Ping"
                BY <2>5, <2>6, <2>12, <3>1 DEF Greeting
            <4> QED BY <1>1, <2>4, <2>6, <3>1, <4>1 DEF Greeting
        <3>2. CASE Accepting
            <4>1. \A i \in 1..(n + 1) : to_client'[i].kind = "Accepted" =>
                      i \in 1..n /\ to_client[i] = to_client'[i]
                BY <2>6, <2>12
            <4> QED BY <1>1, <2>4, <2>5, <2>6, <3>2, <4>1 DEF Accepting
        <3>3. CASE Talking
            <4>1. \A i \in 1..(n + 1) : to_client'[i].kind = "Ping"
                BY <2>5, <2>6, <2>12, <3>3 DEF Talking
            <4> QED BY <1>1, <2>4, <2>6, <2>11, <3>3, <4>1 DEF Talking
        <3> QED BY <3>1, <3>2, <3>3 DEF Agreed
    <2>14. closed' = closed
        BY <1>3 DEF server_ping_all, PingOut
    <2> QED BY <2>7, <2>10, <2>11, <2>13, <2>14 DEF Agreed
<1> QED BY <1>2, <1>3

LEMMA SequenceStep == SequenceInv /\ [SequenceNext]_sequence_vars => SequenceInv'
<1> SUFFICES ASSUME SequenceInv, [SequenceNext]_sequence_vars PROVE SequenceInv'
    OBVIOUS
<1>1. CASE UNCHANGED sequence_vars
    BY <1>1 DEF sequence_vars, SequenceInv, NeverWrongNumber, Agreed, Shapes, OnePing, NumbersGoOn, StartOf,
                Pings, Pongs, Waiting, Greeting, Accepting, Talking
<1>2. CASE Hello
    BY <1>2, HelloStep DEF SequenceInv, NeverWrongNumber, Hello
<1>3. CASE Speak
    BY <1>3, SpeakStep DEF SequenceInv, NeverWrongNumber, Speak
<1>4. CASE Listen
    BY <1>4, ListenStep DEF SequenceInv, NeverWrongNumber, Listen
<1>5. CASE Execute
    BY <1>5, ExecuteStep DEF SequenceInv, NeverWrongNumber, Execute
<1>6. CASE Init_Init
    BY <1>6, InitStep DEF SequenceInv, NeverWrongNumber, Init_Init
<1>7. CASE Connection_Ping
    BY <1>7, PingedStep DEF SequenceInv, NeverWrongNumber, Connection_Ping
<1>8. CASE Handle
    BY <1>8, HandleStep DEF SequenceInv, NeverWrongNumber, Handle
<1>9. CASE server_ping_all
    BY <1>9, PingStep DEF SequenceInv, NeverWrongNumber, server_ping_all
<1> QED BY <1>1, <1>2, <1>3, <1>4, <1>5, <1>6, <1>7, <1>8, <1>9 DEF SequenceNext

\* A client that counts as it is told is never closed for a wrong number, whatever starts
\* the server chooses and however packets, pings and answers cross on their way.
THEOREM NumbersAreRight == SequenceSpec => []NeverWrongNumber
<1>1. SequenceInit => SequenceInv
    <2> SUFFICES ASSUME SequenceInit PROVE Agreed /\ closed = "No"
        BY DEF SequenceInv, NeverWrongNumber
    <2>1. Shapes
        BY DEF SequenceInit, Shapes
    <2>2. Pings = {} /\ Pongs = {} /\ Waiting = {}
        BY DEF SequenceInit, Pings, Pongs, Waiting
    <2>3. OnePing /\ NumbersGoOn
        BY <2>2 DEF OnePing, NumbersGoOn, SequenceInit
    <2>4. Greeting /\ closed = "No"
        BY DEF SequenceInit, Greeting
    <2> QED BY <2>1, <2>3, <2>4 DEF Agreed
<1>2. SequenceInv => NeverWrongNumber
    BY DEF SequenceInv
<1> QED BY <1>1, <1>2, SequenceStep, PTL DEF SequenceSpec

=============================================================================

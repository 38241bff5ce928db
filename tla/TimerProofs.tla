------------------------------ MODULE TimerProofs ------------------------------
(***************************************************************************)
(* Proofs about Timer, for any number of characters and events, speeds and *)
(* evacuations of any length.                                              *)
(*                                                                         *)
(* Events are in memory exactly while they are registered, but for the one *)
(* that has come to the end of its life and is being called.  Those who    *)
(* wait for an event and the event itself find each other (Sound); what    *)
(* doors, evacuations and check-ins wait for is there (Waiting).           *)
(***************************************************************************)
EXTENDS Timer, FunctionTheorems, FiniteSetTheorems, WellFoundedInduction, TLAPS

-----------------------------------------------------------------------------
(***************************************************************************)
(* The invariant.                                                          *)
(***************************************************************************)

State(events, set, new, casts, since, door, count, link, bad) ==
    [event |-> events, timers |-> set, changed |-> new, spell |-> casts, asked |-> since,
     open |-> door, step |-> count, checking |-> link, corrupt |-> bad]
IsState(S) ==
    S = State(S.event, S.timers, S.changed, S.spell, S.asked, S.open, S.step, S.checking,
              S.corrupt)

Shape(S) ==
    /\ IsState(S)
    /\ S.event \in [Address -> Event \cup {None}] /\ S.timers \subseteq Address
    /\ S.spell \in [Char -> Spell \cup {None}] /\ S.asked \in [Char -> Nat \cup {None}]
    /\ S.open \in BOOLEAN /\ S.step \in Nat \cup {None} /\ S.checking \in BOOLEAN \cup {None}

\* What is registered is in memory, and besides it only the events E that are being called.
Held(S, E) ==
    /\ E \subseteq Address \ S.timers
    /\ \A e \in Address : S.event[e] # None <=> e \in S.timers \cup E
    /\ Pump \in S.timers /\ S.event[Pump].kind = "pump" /\ S.event[Pump].lifetime = Forever

\* What a character casts.
Casts(S, c) ==
    LET e == S.spell[c].event
    IN /\ e \in S.timers /\ S.event[e].kind = "cast" /\ S.event[e].param = c
       /\ S.event[e].age = S.asked[c] /\ S.spell[c].ready = FALSE
Casting(S, c) == S.spell[c] # None /\ S.spell[c].event # None

\* A registered event, by its kind.
Registered(S, e) ==
    LET n == S.event[e]
    IN /\ n.kind # "evacuate" => n.lifetime = IF n.kind \in {"spikes", "pump"} THEN Forever ELSE 1
       /\ n.kind = "cast" => /\ n.param \in Char /\ n.speed = Speed["cast"]
                             /\ S.spell[n.param] # None /\ S.spell[n.param].event = e
       /\ n.kind = "pump" => e = Pump

Sound(S, E) ==
    /\ Shape(S) /\ S.corrupt = FALSE /\ Held(S, E)
    /\ \A c \in Char : Casting(S, c) => Casts(S, c)
    /\ \A e \in S.timers : Registered(S, e)

\* The events that doors, evacuations and check-ins wait for.
Of(S, K) == {e \in S.timers : S.event[e].kind \in K}
Chain == {"cleanup", "request"}
DoorsWait(S) == S.open = TRUE => Of(S, {"close"}) # {}
EvacuationWaits(S) ==
    IF S.step = None THEN Of(S, {"evacuate"}) = {}
    ELSE \E e \in S.timers : Of(S, {"evacuate"}) = {e} /\ S.event[e].lifetime = S.step + 1
CheckWaits(S) ==
    IF S.checking = FALSE THEN \E e \in S.timers : Of(S, Chain) = {e} ELSE Of(S, Chain) = {}
Waiting(S) == DoorsWait(S) /\ EvacuationWaits(S) /\ CheckWaits(S)

IInv ==
    /\ Sound(Memory, {}) /\ Waiting(Memory)
    /\ execlist \subseteq Address /\ cursor \in Address \cup {None, -1}

-----------------------------------------------------------------------------
(***************************************************************************)
(* Finite sets, and folds over them.                                       *)
(***************************************************************************)

LEMMA LeastOf ==
    ASSUME NEW I, I \subseteq Nat, I # {}
    PROVE  \E i \in I : \A j \in I : i <= j
<1>1. PICK i \in I : \A j \in I : ~ (<<j, i>> \in OpToRel(<, Nat))
    BY Zenon, NatLessThanWellFounded, WFMin
<1>2. \A j \in I : i <= j
    <2> SUFFICES ASSUME NEW j \in I PROVE i <= j
        OBVIOUS
    <2>1. ~ (<<j, i>> \in {z \in Nat \X Nat : z[1] < z[2]})
        BY <1>1 DEF OpToRel
    <2>2. <<j, i>> \in Nat \X Nat
        OBVIOUS
    <2> QED BY <2>1, <2>2
<1> QED BY <1>2

\* The walk goes to the least of those ahead.
LEMMA MinOf ==
    ASSUME NEW I, I \subseteq Nat, I # {}
    PROVE  Min(I) \in I /\ \A j \in I : Min(I) <= j
<1>1. \E i \in I : \A j \in I : i <= j
    BY LeastOf
<1> QED BY <1>1 DEF Min

LEMMA NumbersFollow ==
    ASSUME NEW T, 0 \in T, \A n \in Nat : n \in T => n + 1 \in T
    PROVE  Nat \subseteq T
<1> SUFFICES ASSUME Nat \ T # {} PROVE FALSE
    OBVIOUS
<1>1. PICK n \in Nat \ T : \A k \in Nat \ T : n <= k
    BY LeastOf
<1>2. n # 0 /\ n - 1 \in Nat /\ (n - 1) + 1 = n /\ ~(n <= n - 1)
    OBVIOUS
<1>3. n - 1 \notin T
    BY <1>2
<1> QED BY <1>1, <1>2, <1>3

\* The order in which FoldSet goes through a set.
Some(D) == CHOOSE x \in D : TRUE

LEMMA OneLess ==
    ASSUME NEW C, IsFiniteSet(C), NEW D \in SUBSET C
    PROVE  /\ Cardinality(D) \in Nat /\ (Cardinality(D) = 0 <=> D = {})
           /\ D # {} => Some(D) \in D
           /\ \A x \in D : Cardinality(D \ {x}) = Cardinality(D) - 1 /\ D \ {x} \in SUBSET C
<1>1. IsFiniteSet(D)
    BY FS_Subset
<1>2. D # {} => Some(D) \in D
    BY DEF Some
<1>3. \A x \in D : Cardinality(D \ {x}) = Cardinality(D) - 1
    BY <1>1, FS_RemoveElement
<1> QED BY <1>1, <1>2, <1>3, FS_CardinalityType, FS_EmptySet

LEMMA SetsFollow ==
    ASSUME NEW C, IsFiniteSet(C), NEW T, {} \in T,
           \A D \in SUBSET C : D # {} /\ (\A x \in D : D \ {x} \in T) => D \in T
    PROVE  SUBSET C \subseteq T
<1> DEFINE N == {n \in Nat : \A D \in SUBSET C : Cardinality(D) <= n => D \in T}
<1>1. 0 \in N
    <2> SUFFICES ASSUME NEW D \in SUBSET C, Cardinality(D) <= 0 PROVE D \in T
        OBVIOUS
    <2>1. D = {}
        BY OneLess
    <2> QED BY Zenon, <2>1
<1>2. ASSUME NEW n \in Nat, n \in N PROVE n + 1 \in N
    <2> SUFFICES ASSUME NEW D \in SUBSET C, Cardinality(D) <= n + 1 PROVE D \in T
        OBVIOUS
    <2>1. \A x \in D : D \ {x} \in SUBSET C /\ Cardinality(D \ {x}) <= n
        BY OneLess
    <2>2. \A x \in D : D \ {x} \in T
        BY <1>2, <2>1
    <2>3. CASE D = {}
        BY Zenon, <2>3
    <2>4. CASE D # {}
        BY Zenon, <2>2, <2>4
    <2> QED BY <2>3, <2>4
<1>3. Nat \subseteq N
    <2> HIDE DEF N
    <2> QED BY <1>1, <1>2, NumbersFollow
<1>4. ASSUME NEW D \in SUBSET C PROVE D \in T
    <2>1. Cardinality(D) \in Nat
        BY OneLess
    <2> QED BY <1>3, <2>1
<1> QED BY <1>4

\* Cancelling the spells of a set of characters, one after the other.
All(S, C) == FoldSet(LAMBDA c, T : CancelSpell(T, c), S, C)
Each(S, h, D) == IF D = {} THEN S ELSE CancelSpell(h[D \ {Some(D)}], Some(D))

LEMMA EachExists ==
    ASSUME NEW S, NEW C, IsFiniteSet(C)
    PROVE  \E h : h = [D \in SUBSET C |-> Each(S, h, D)]
<1> DEFINE UpTo(n) == {D \in SUBSET C : Cardinality(D) <= n}
           On(g, n) == g = [D \in UpTo(n) |-> Each(S, g, D)]
           N == {n \in Nat : \E g : On(g, n)}
<1>1. 0 \in N
    <2> DEFINE g == [D \in UpTo(0) |-> S]
    <2>1. \A D \in UpTo(0) : Each(S, g, D) = S
        BY OneLess DEF Each
    <2>2. On(g, 0)
        BY <2>1
    <2> QED BY <2>2
<1>2. ASSUME NEW n \in Nat, n \in N PROVE n + 1 \in N
    <2>1. PICK g : On(g, n)
        BY <1>2
    <2> DEFINE h == [D \in UpTo(n + 1) |-> Each(S, g, D)]
    <2>2. \A D \in UpTo(n + 1) : D # {} => D \ {Some(D)} \in UpTo(n)
        BY OneLess
    <2>3. \A D \in UpTo(n) : D \in UpTo(n + 1) /\ h[D] = g[D]
        <3>1. \A D \in UpTo(n) : D \in UpTo(n + 1)
            BY OneLess
        <3>2. \A D \in UpTo(n) : g[D] = Each(S, g, D)
            BY <2>1
        <3> QED BY Zenon, <3>1, <3>2
    <2>4. \A D \in UpTo(n + 1) : Each(S, h, D) = Each(S, g, D)
        BY Zenon, <2>2, <2>3 DEF Each
    <2>5. On(h, n + 1)
        BY Zenon, <2>4
    <2> HIDE DEF On, UpTo, h
    <2> QED BY <2>5
<1>3. Cardinality(C) \in N
    <2>1. Nat \subseteq N
        <3> HIDE DEF N
        <3> QED BY <1>1, <1>2, NumbersFollow
    <2> HIDE DEF N
    <2> QED BY <2>1, FS_CardinalityType
<1>4. UpTo(Cardinality(C)) = SUBSET C
    BY FS_Subset
<1>5. PICK h : On(h, Cardinality(C))
    BY <1>3
<1> QED BY Zenon, <1>4, <1>5

-----------------------------------------------------------------------------
(***************************************************************************)
(* States.                                                                 *)
(***************************************************************************)

Is(S, events, set, casts, since, door, count, link, bad) ==
    /\ IsState(S) /\ S.event = events /\ S.timers = set /\ S.spell = casts /\ S.asked = since
    /\ S.open = door /\ S.step = count /\ S.checking = link /\ S.corrupt = bad

\* What assigning to a part of a state does.
LEMMA SetEvent ==
    ASSUME NEW S, IsState(S), NEW x, NEW v
    PROVE  Is([S EXCEPT !.event[x] = v], [S.event EXCEPT ![x] = v], S.timers, S.spell, S.asked,
                                         S.open, S.step, S.checking, S.corrupt)
<1> DEFINE T == [S EXCEPT !.event[x] = v]
<1>1. S = State(S.event, S.timers, S.changed, S.spell, S.asked, S.open, S.step, S.checking,
                S.corrupt)
    BY DEF IsState
<1>2. [State(S.event, S.timers, S.changed, S.spell, S.asked, S.open, S.step,
             S.checking, S.corrupt) EXCEPT !.event[x] = v] =
          State([S.event EXCEPT ![x] = v], S.timers, S.changed, S.spell, S.asked, S.open,
                S.step, S.checking, S.corrupt)
    BY ONLY DEF State
<1>3. T = State([S.event EXCEPT ![x] = v], S.timers, S.changed, S.spell, S.asked, S.open,
                S.step, S.checking, S.corrupt)
    BY Zenon, <1>1, <1>2
<1> HIDE DEF T
<1>4. Is(T, [S.event EXCEPT ![x] = v], S.timers, S.spell, S.asked, S.open, S.step, S.checking,
            S.corrupt)
    BY ONLY <1>3 DEF State, Is, IsState
<1> QED BY <1>4 DEF T

LEMMA SetTimers ==
    ASSUME NEW S, IsState(S), NEW v
    PROVE  Is([S EXCEPT !.timers = v], S.event, v, S.spell, S.asked, S.open, S.step,
                                       S.checking, S.corrupt)
<1> DEFINE T == [S EXCEPT !.timers = v]
<1>1. S = State(S.event, S.timers, S.changed, S.spell, S.asked, S.open, S.step, S.checking,
                S.corrupt)
    BY DEF IsState
<1>2. [State(S.event, S.timers, S.changed, S.spell, S.asked, S.open, S.step,
             S.checking, S.corrupt) EXCEPT !.timers = v] =
          State(S.event, v, S.changed, S.spell, S.asked, S.open, S.step, S.checking, S.corrupt)
    BY ONLY DEF State
<1>3. T = State(S.event, v, S.changed, S.spell, S.asked, S.open, S.step, S.checking, S.corrupt)
    BY Zenon, <1>1, <1>2
<1> HIDE DEF T
<1>4. Is(T, S.event, v, S.spell, S.asked, S.open, S.step, S.checking, S.corrupt)
    BY ONLY <1>3 DEF State, Is, IsState
<1> QED BY <1>4 DEF T

LEMMA SetChanged ==
    ASSUME NEW S, IsState(S), NEW v
    PROVE  Is([S EXCEPT !.changed = v], S.event, S.timers, S.spell, S.asked, S.open, S.step,
                                        S.checking, S.corrupt)
<1> DEFINE T == [S EXCEPT !.changed = v]
<1>1. S = State(S.event, S.timers, S.changed, S.spell, S.asked, S.open, S.step, S.checking,
                S.corrupt)
    BY DEF IsState
<1>2. [State(S.event, S.timers, S.changed, S.spell, S.asked, S.open, S.step,
             S.checking, S.corrupt) EXCEPT !.changed = v] =
          State(S.event, S.timers, v, S.spell, S.asked, S.open, S.step, S.checking, S.corrupt)
    BY ONLY DEF State
<1>3. T = State(S.event, S.timers, v, S.spell, S.asked, S.open, S.step, S.checking, S.corrupt)
    BY Zenon, <1>1, <1>2
<1> HIDE DEF T
<1>4. Is(T, S.event, S.timers, S.spell, S.asked, S.open, S.step, S.checking, S.corrupt)
    BY ONLY <1>3 DEF State, Is, IsState
<1> QED BY <1>4 DEF T

LEMMA SetSpell ==
    ASSUME NEW S, IsState(S), NEW x, NEW v
    PROVE  Is([S EXCEPT !.spell[x] = v], S.event, S.timers, [S.spell EXCEPT ![x] = v], S.asked,
                                         S.open, S.step, S.checking, S.corrupt)
<1> DEFINE T == [S EXCEPT !.spell[x] = v]
<1>1. S = State(S.event, S.timers, S.changed, S.spell, S.asked, S.open, S.step, S.checking,
                S.corrupt)
    BY DEF IsState
<1>2. [State(S.event, S.timers, S.changed, S.spell, S.asked, S.open, S.step,
             S.checking, S.corrupt) EXCEPT !.spell[x] = v] =
          State(S.event, S.timers, S.changed, [S.spell EXCEPT ![x] = v], S.asked, S.open,
                S.step, S.checking, S.corrupt)
    BY ONLY DEF State
<1>3. T = State(S.event, S.timers, S.changed, [S.spell EXCEPT ![x] = v], S.asked, S.open,
                S.step, S.checking, S.corrupt)
    BY Zenon, <1>1, <1>2
<1> HIDE DEF T
<1>4. Is(T, S.event, S.timers, [S.spell EXCEPT ![x] = v], S.asked, S.open, S.step, S.checking,
            S.corrupt)
    BY ONLY <1>3 DEF State, Is, IsState
<1> QED BY <1>4 DEF T

LEMMA SetAsked ==
    ASSUME NEW S, IsState(S), NEW x, NEW v
    PROVE  Is([S EXCEPT !.asked[x] = v], S.event, S.timers, S.spell, [S.asked EXCEPT ![x] = v],
                                         S.open, S.step, S.checking, S.corrupt)
<1> DEFINE T == [S EXCEPT !.asked[x] = v]
<1>1. S = State(S.event, S.timers, S.changed, S.spell, S.asked, S.open, S.step, S.checking,
                S.corrupt)
    BY DEF IsState
<1>2. [State(S.event, S.timers, S.changed, S.spell, S.asked, S.open, S.step,
             S.checking, S.corrupt) EXCEPT !.asked[x] = v] =
          State(S.event, S.timers, S.changed, S.spell, [S.asked EXCEPT ![x] = v], S.open,
                S.step, S.checking, S.corrupt)
    BY ONLY DEF State
<1>3. T = State(S.event, S.timers, S.changed, S.spell, [S.asked EXCEPT ![x] = v], S.open,
                S.step, S.checking, S.corrupt)
    BY Zenon, <1>1, <1>2
<1> HIDE DEF T
<1>4. Is(T, S.event, S.timers, S.spell, [S.asked EXCEPT ![x] = v], S.open, S.step, S.checking,
            S.corrupt)
    BY ONLY <1>3 DEF State, Is, IsState
<1> QED BY <1>4 DEF T

LEMMA SetOpen ==
    ASSUME NEW S, IsState(S), NEW v
    PROVE  Is([S EXCEPT !.open = v], S.event, S.timers, S.spell, S.asked, v, S.step,
                                     S.checking, S.corrupt)
<1> DEFINE T == [S EXCEPT !.open = v]
<1>1. S = State(S.event, S.timers, S.changed, S.spell, S.asked, S.open, S.step, S.checking,
                S.corrupt)
    BY DEF IsState
<1>2. [State(S.event, S.timers, S.changed, S.spell, S.asked, S.open, S.step,
             S.checking, S.corrupt) EXCEPT !.open = v] =
          State(S.event, S.timers, S.changed, S.spell, S.asked, v, S.step, S.checking,
                S.corrupt)
    BY ONLY DEF State
<1>3. T = State(S.event, S.timers, S.changed, S.spell, S.asked, v, S.step, S.checking,
                S.corrupt)
    BY Zenon, <1>1, <1>2
<1> HIDE DEF T
<1>4. Is(T, S.event, S.timers, S.spell, S.asked, v, S.step, S.checking, S.corrupt)
    BY ONLY <1>3 DEF State, Is, IsState
<1> QED BY <1>4 DEF T

LEMMA SetStep ==
    ASSUME NEW S, IsState(S), NEW v
    PROVE  Is([S EXCEPT !.step = v], S.event, S.timers, S.spell, S.asked, S.open, v,
                                     S.checking, S.corrupt)
<1> DEFINE T == [S EXCEPT !.step = v]
<1>1. S = State(S.event, S.timers, S.changed, S.spell, S.asked, S.open, S.step, S.checking,
                S.corrupt)
    BY DEF IsState
<1>2. [State(S.event, S.timers, S.changed, S.spell, S.asked, S.open, S.step,
             S.checking, S.corrupt) EXCEPT !.step = v] =
          State(S.event, S.timers, S.changed, S.spell, S.asked, S.open, v, S.checking,
                S.corrupt)
    BY ONLY DEF State
<1>3. T = State(S.event, S.timers, S.changed, S.spell, S.asked, S.open, v, S.checking,
                S.corrupt)
    BY Zenon, <1>1, <1>2
<1> HIDE DEF T
<1>4. Is(T, S.event, S.timers, S.spell, S.asked, S.open, v, S.checking, S.corrupt)
    BY ONLY <1>3 DEF State, Is, IsState
<1> QED BY <1>4 DEF T

LEMMA SetChecking ==
    ASSUME NEW S, IsState(S), NEW v
    PROVE  Is([S EXCEPT !.checking = v], S.event, S.timers, S.spell, S.asked, S.open, S.step,
                                         v, S.corrupt)
<1> DEFINE T == [S EXCEPT !.checking = v]
<1>1. S = State(S.event, S.timers, S.changed, S.spell, S.asked, S.open, S.step, S.checking,
                S.corrupt)
    BY DEF IsState
<1>2. [State(S.event, S.timers, S.changed, S.spell, S.asked, S.open, S.step,
             S.checking, S.corrupt) EXCEPT !.checking = v] =
          State(S.event, S.timers, S.changed, S.spell, S.asked, S.open, S.step, v, S.corrupt)
    BY ONLY DEF State
<1>3. T = State(S.event, S.timers, S.changed, S.spell, S.asked, S.open, S.step, v, S.corrupt)
    BY Zenon, <1>1, <1>2
<1> HIDE DEF T
<1>4. Is(T, S.event, S.timers, S.spell, S.asked, S.open, S.step, v, S.corrupt)
    BY ONLY <1>3 DEF State, Is, IsState
<1> QED BY <1>4 DEF T

LEMMA Spelt ==
    ASSUME NEW S, IsState(S), NEW c, NEW s, NEW n
    PROVE  Is([S EXCEPT !.spell[c] = s, !.asked[c] = n], S.event, S.timers,
              [S.spell EXCEPT ![c] = s], [S.asked EXCEPT ![c] = n], S.open, S.step,
              S.checking, S.corrupt)
<1> DEFINE U == [S EXCEPT !.spell[c] = s]
<1>1. Is(U, S.event, S.timers, [S.spell EXCEPT ![c] = s], S.asked, S.open, S.step,
         S.checking, S.corrupt)
    BY SetSpell
<1>2. IsState(U)
    BY <1>1 DEF Is
<1> HIDE DEF U
<1>3. Is([U EXCEPT !.asked[c] = n], U.event, U.timers, U.spell, [U.asked EXCEPT ![c] = n],
         U.open, U.step, U.checking, U.corrupt)
    BY <1>2, SetAsked
<1>4. [S EXCEPT !.spell[c] = s, !.asked[c] = n] = [U EXCEPT !.asked[c] = n]
    BY Zenon DEF U
<1> QED BY Zenon, <1>1, <1>3, <1>4 DEF Is

LEMMA Unregistered ==
    ASSUME NEW S, IsState(S), NEW e
    PROVE  Is(Unregister(S, e), S.event, S.timers \ {e}, S.spell, S.asked, S.open, S.step,
              S.checking, S.corrupt)
<1> DEFINE U == [S EXCEPT !.timers = @ \ {e}]
<1>1. Is(U, S.event, S.timers \ {e}, S.spell, S.asked, S.open, S.step, S.checking, S.corrupt)
    BY SetTimers
<1>2. IsState(U)
    BY <1>1 DEF Is
<1> HIDE DEF U
<1>3. Is([U EXCEPT !.changed = TRUE], U.event, U.timers, U.spell, U.asked, U.open, U.step,
         U.checking, U.corrupt)
    BY <1>2, SetChanged
<1>4. Unregister(S, e) = [U EXCEPT !.changed = TRUE]
    BY Zenon DEF U, Unregister
<1> QED BY Zenon, <1>1, <1>3, <1>4 DEF Is

LEMMA Deleted ==
    ASSUME NEW S, IsState(S), NEW e, S.event[e] # Free
    PROVE  Is(Delete(S, e), [S.event EXCEPT ![e] = None], S.timers \ {e}, S.spell, S.asked,
              S.open, S.step, S.checking, S.corrupt)
<1> DEFINE U == IF e \in S.timers THEN Unregister(S, e) ELSE S
<1>1. Is(U, S.event, S.timers \ {e}, S.spell, S.asked, S.open, S.step, S.checking, S.corrupt)
    <2>1. CASE e \in S.timers
        BY <2>1, Unregistered
    <2>2. CASE e \notin S.timers
        <3>1. S.timers \ {e} = S.timers
            BY <2>2
        <3> QED BY Zenon, <2>2, <3>1 DEF Is
    <2> QED BY <2>1, <2>2
<1>2. IsState(U)
    BY <1>1 DEF Is
<1>3. Delete(S, e) = [U EXCEPT !.event[e] = None]
    BY Zenon DEF Delete, Free
<1> HIDE DEF U
<1>4. Is([U EXCEPT !.event[e] = None], [U.event EXCEPT ![e] = None], U.timers, U.spell,
         U.asked, U.open, U.step, U.checking, U.corrupt)
    BY <1>2, SetEvent
<1> QED BY Zenon, <1>1, <1>3, <1>4 DEF Is

\* Nothing is None but None.
LEMMA NotNone ==
    /\ None \notin Address /\ None \notin Int /\ None \notin Char
    /\ \A n \in Event : n # None
    /\ \A n \in Spell : n # None
    /\ \A n \in [age : Int, speed : Nat, lifetime : Int] : n # None
    /\ NoSpell \in Spell /\ NoSpell.event = None /\ NoSpell.ready = FALSE
<1>1. NoSpell \in Spell
    BY DEF NoSpell, Spell
<1> QED BY <1>1, NoneIsNone DEF NoSpell

LEMMA EventsOf ==
    ASSUME NEW S, NEW E, Shape(S), Held(S, E), NEW e \in S.timers \cup E
    PROVE  /\ e \in Address /\ S.event[e] \in Event /\ S.event[e] # None
           /\ S.event[e].kind \in Kind \cup {"pump"} /\ S.event[e].param \in Char \cup {None}
           /\ S.event[e].age \in Int /\ S.event[e].speed \in Nat
           /\ S.event[e].lifetime \in Int
<1>1. e \in Address /\ S.event[e] \in Event /\ S.event[e] # None
    BY DEF Shape, Held
<1> QED BY <1>1 DEF Event

\* What cancelling spells leaves alone.
Cancels(S, T) ==
    /\ T.open = S.open /\ T.step = S.step /\ T.checking = S.checking
    /\ T.timers \subseteq S.timers
    /\ \A x \in T.timers : T.event[x] = S.event[x]
    /\ \A x \in S.timers : S.event[x].kind # "cast" => x \in T.timers
    /\ \A c \in Char : T.spell[c] = None <=> S.spell[c] = None

\* What is registered now was before, and is as it was, or has just been registered.
Alters(S, T) ==
    \A x \in T.timers : (x \in S.timers /\ T.event[x] = S.event[x]) \/ T.event[x].age = 0

LEMMA CancelsTwice ==
    ASSUME NEW S, NEW T, NEW U, Cancels(S, T), Cancels(T, U)
    PROVE  Cancels(S, U)
BY DEF Cancels

LEMMA CancelsOf ==
    ASSUME NEW S, NEW T, Cancels(S, T), NEW K, "cast" \notin K
    PROVE  Of(T, K) = Of(S, K)
BY DEF Cancels, Of

LEMMA EvacuationKept ==
    ASSUME NEW S, NEW T, EvacuationWaits(S), T.step = S.step,
           Of(T, {"evacuate"}) = Of(S, {"evacuate"}),
           \A x \in Of(T, {"evacuate"}) : T.event[x] = S.event[x]
    PROVE  EvacuationWaits(T)
<1>1. CASE S.step = None
    BY <1>1 DEF EvacuationWaits
<1>2. CASE S.step # None
    <2>1. PICK x \in S.timers : Of(S, {"evacuate"}) = {x} /\ S.event[x].lifetime = S.step + 1
        BY <1>2 DEF EvacuationWaits
    <2>2. x \in T.timers /\ T.event[x] = S.event[x]
        BY <2>1 DEF Of
    <2> QED BY <1>2, <2>1, <2>2 DEF EvacuationWaits
<1> QED BY <1>1, <1>2

LEMMA CheckKept ==
    ASSUME NEW S, NEW T, CheckWaits(S), T.checking = S.checking, Of(T, Chain) = Of(S, Chain)
    PROVE  CheckWaits(T)
<1>1. CASE S.checking = FALSE
    <2>1. PICK x \in S.timers : Of(S, Chain) = {x}
        BY <1>1 DEF CheckWaits
    <2>2. x \in T.timers
        BY <2>1 DEF Of
    <2> QED BY <1>1, <2>1, <2>2 DEF CheckWaits
<1>2. CASE S.checking # FALSE
    BY <1>2 DEF CheckWaits
<1> QED BY <1>1, <1>2

LEMMA CancelsWaiting ==
    ASSUME NEW S, NEW T, Cancels(S, T), Waiting(S)
    PROVE  Waiting(T) /\ Alters(S, T)
<1>1. Of(T, {"close"}) = Of(S, {"close"}) /\ Of(T, {"evacuate"}) = Of(S, {"evacuate"})
      /\ Of(T, Chain) = Of(S, Chain)
    BY CancelsOf DEF Chain
<1>2. T.open = S.open /\ T.step = S.step /\ T.checking = S.checking
    BY DEF Cancels
<1>3. DoorsWait(T)
    BY <1>1, <1>2 DEF Waiting, DoorsWait
<1>4. EvacuationWaits(T)
    <2>1. \A x \in Of(T, {"evacuate"}) : T.event[x] = S.event[x]
        BY DEF Cancels, Of
    <2> QED BY <1>1, <1>2, <2>1, EvacuationKept DEF Waiting
<1>5. CheckWaits(T)
    BY <1>1, <1>2, CheckKept DEF Waiting
<1>6. Alters(S, T)
    BY DEF Cancels, Alters
<1> QED BY <1>3, <1>4, <1>5, <1>6 DEF Waiting

\* Cancelling a spell deletes the event of a character that casts.
LEMMA CancelFields ==
    ASSUME NEW S, NEW E, Sound(S, E), NEW c \in Char, S.spell[c] # None
    PROVE  LET e == S.spell[c].event
               events == IF e = None THEN S.event ELSE [S.event EXCEPT ![e] = None]
           IN Is(CancelSpell(S, c), events, S.timers \ {e}, [S.spell EXCEPT ![c] = NoSpell],
                 [S.asked EXCEPT ![c] = None], S.open, S.step, S.checking, FALSE)
<1> DEFINE e == S.spell[c].event
           events == IF e = None THEN S.event ELSE [S.event EXCEPT ![e] = None]
           gone == IF e = None THEN S ELSE Delete(S, e)
<1>1. IsState(S) /\ S.corrupt = FALSE
    BY DEF Sound, Shape
<1>2. Is(gone, events, S.timers \ {e}, S.spell, S.asked, S.open, S.step, S.checking, FALSE)
    <2>1. CASE e = None
        <3>1. S.timers \ {e} = S.timers
            BY <2>1, NotNone DEF Sound, Shape
        <3> QED BY Zenon, <1>1, <2>1, <3>1 DEF Is
    <2>2. CASE e # None
        <3>1. e \in S.timers
            BY <2>2 DEF Sound, Casting, Casts
        <3>2. S.event[e] # Free
            BY <3>1, EventsOf DEF Sound, Free
        <3>3. Is(Delete(S, e), [S.event EXCEPT ![e] = None], S.timers \ {e}, S.spell, S.asked,
                 S.open, S.step, S.checking, S.corrupt)
            BY <1>1, <3>2, Deleted
        <3> QED BY Zenon, <1>1, <2>2, <3>3
    <2> QED BY <2>1, <2>2
<1>3. CancelSpell(S, c) = [gone EXCEPT !.spell[c] = NoSpell, !.asked[c] = None]
    BY Zenon DEF CancelSpell
<1> HIDE DEF gone, events, e
<1>4. IsState(gone)
    BY <1>2 DEF Is
<1>5. Is([gone EXCEPT !.spell[c] = NoSpell, !.asked[c] = None], gone.event, gone.timers,
         [gone.spell EXCEPT ![c] = NoSpell], [gone.asked EXCEPT ![c] = None], gone.open,
         gone.step, gone.checking, gone.corrupt)
    BY Zenon, <1>4, Spelt
<1> QED BY Zenon, <1>2, <1>3, <1>5 DEF Is, e, events

LEMMA CancelSound ==
    ASSUME NEW S, NEW E, Sound(S, E), NEW c \in Char, S.spell[c] # None
    PROVE  /\ Sound(CancelSpell(S, c), E) /\ Cancels(S, CancelSpell(S, c))
           /\ CancelSpell(S, c).spell[c] = NoSpell
<1> DEFINE e == S.spell[c].event
           events == IF e = None THEN S.event ELSE [S.event EXCEPT ![e] = None]
           casts == [S.spell EXCEPT ![c] = NoSpell]
           since == [S.asked EXCEPT ![c] = None]
           T == CancelSpell(S, c)
<1>1. Is(T, events, S.timers \ {e}, casts, since, S.open, S.step, S.checking, FALSE)
    BY CancelFields
<1>2. IsState(T) /\ T.event = events /\ T.timers = S.timers \ {e} /\ T.spell = casts
      /\ T.asked = since /\ T.open = S.open /\ T.step = S.step /\ T.checking = S.checking
      /\ T.corrupt = FALSE
    BY Zenon, <1>1 DEF Is
<1>3. Shape(S) /\ Held(S, E)
    BY DEF Sound
<1>4. e # None => /\ e \in S.timers /\ e \in Address /\ S.event[e].kind = "cast"
                  /\ S.event[e].param = c
    <2> SUFFICES ASSUME e # None
                 PROVE  e \in S.timers /\ S.event[e].kind = "cast" /\ S.event[e].param = c
        BY <1>3 DEF Shape
    <2> QED BY DEF Sound, Casting, Casts
<1> HIDE DEF T
<1>5. casts \in [Char -> Spell \cup {None}] /\ casts[c] = NoSpell
      /\ since \in [Char -> Nat \cup {None}]
      /\ \A d \in Char \ {c} : casts[d] = S.spell[d] /\ since[d] = S.asked[d]
    BY <1>3, NotNone DEF Shape
<1>6. events \in [Address -> Event \cup {None}]
      /\ \A x \in Address : events[x] = IF x = e THEN None ELSE S.event[x]
    BY <1>3, <1>4, NotNone DEF Shape
<1> HIDE DEF events, casts, since
<1>7. Shape(T)
    BY <1>2, <1>3, <1>5, <1>6 DEF Shape
<1>8. Held(T, E)
    <2>1. E \subseteq Address \ T.timers /\ e \notin E
        BY <1>2, <1>3, <1>4, NotNone DEF Held
    <2>2. \A x \in Address : T.event[x] # None <=> x \in T.timers \cup E
        BY <1>2, <1>3, <1>6, <2>1 DEF Held
    <2>3. Pump \in S.timers /\ S.event[Pump].kind = "pump" /\ Pump \in Address
        BY <1>3, AddressesAreOrdered DEF Held
    <2>4. Pump # e
        BY <1>3, <1>4, <2>3, NotNone
    <2>5. T.event[Pump] = S.event[Pump] /\ Pump \in T.timers
        BY <1>2, <1>6, <2>3, <2>4
    <2> QED BY <1>3, <2>1, <2>2, <2>5 DEF Held
<1>9. ASSUME NEW d \in Char, Casting(T, d) PROVE Casts(T, d)
    <2>1. d # c
        BY <1>2, <1>5, <1>9, NotNone DEF Casting
    <2>2. Casts(S, d)
        BY <1>2, <1>5, <1>9, <2>1 DEF Sound, Casting
    <2>3. S.spell[d].event # e
        <3>1. S.spell[d].event \in S.timers /\ S.event[S.spell[d].event].param = d
            BY <2>2 DEF Casts
        <3>2. S.spell[d].event # None
            BY <1>3, <3>1, NotNone DEF Shape
        <3> QED BY <1>4, <2>1, <3>1, <3>2
    <2> QED BY <1>2, <1>3, <1>5, <1>6, <2>1, <2>2, <2>3 DEF Casts, Shape
<1>10. ASSUME NEW x \in T.timers PROVE Registered(T, x)
    <2>1. x \in S.timers /\ x # e /\ x \in Address /\ T.event[x] = S.event[x]
        BY <1>2, <1>3, <1>6 DEF Shape
    <2>2. Registered(S, x)
        BY <2>1 DEF Sound
    <2>3. S.event[x].kind = "cast" => S.event[x].param # c
        BY <2>1, <2>2 DEF Registered
    <2> QED BY <1>2, <1>5, <2>1, <2>2, <2>3 DEF Registered
<1>11. Cancels(S, T)
    <2>1. \A x \in T.timers : T.event[x] = S.event[x]
        BY <1>2, <1>3, <1>6 DEF Shape
    <2>2. \A x \in S.timers : S.event[x].kind # "cast" => x \in T.timers
        BY <1>2, <1>3, <1>4, NotNone DEF Shape
    <2>3. \A d \in Char : T.spell[d] = None <=> S.spell[d] = None
        BY <1>2, <1>5, NotNone
    <2> QED BY <1>2, <2>1, <2>2, <2>3 DEF Cancels
<1>12. Sound(T, E)
    BY <1>2, <1>7, <1>8, <1>9, <1>10 DEF Sound
<1> QED BY <1>2, <1>5, <1>11, <1>12 DEF T

LEMMA AllSound ==
    ASSUME NEW S, NEW E, Sound(S, E), NEW C, C \subseteq {c \in Char : S.spell[c] # None}
    PROVE  Sound(All(S, C), E) /\ Cancels(S, All(S, C))
<1> DEFINE h == CHOOSE h : h = [D \in SUBSET C |-> Each(S, h, D)]
           Good(T) == Sound(T, E) /\ Cancels(S, T)
           G == {D \in SUBSET C : Good(h[D])}
<1>1. IsFiniteSet(C) /\ C \subseteq Char
    BY CharIsFinite, FS_Subset
<1>2. h = [D \in SUBSET C |-> Each(S, h, D)]
    BY Zenon, <1>1, EachExists
<1>3. All(S, C) = h[C]
    BY Zenon DEF All, FoldSet, MapThenFoldSet, Some, Each
<1> HIDE DEF h
<1>4. \A D \in SUBSET C : h[D] = Each(S, h, D)
    BY <1>2
<1>5. {} \in G
    <2>1. h[{}] = S
        BY <1>4 DEF Each
    <2>2. Good(S)
        BY DEF Cancels
    <2> HIDE DEF Good
    <2> QED BY <2>1, <2>2
<1>6. ASSUME NEW D \in SUBSET C, D # {}, \A x \in D : D \ {x} \in G PROVE D \in G
    <2> DEFINE c == Some(D)
               T == h[D \ {c}]
    <2>1. c \in D /\ c \in C /\ c \in Char /\ S.spell[c] # None
        BY <1>1, <1>6, OneLess
    <2>2. Sound(T, E) /\ Cancels(S, T)
        BY <1>6, <2>1
    <2>3. h[D] = CancelSpell(T, c)
        BY Zenon, <1>4, <1>6 DEF Each
    <2> HIDE DEF c, T
    <2>4. T.spell[c] # None
        BY <2>1, <2>2 DEF Cancels
    <2>5. Sound(CancelSpell(T, c), E) /\ Cancels(T, CancelSpell(T, c))
        BY Zenon, <2>1, <2>2, <2>4, CancelSound
    <2>6. Good(h[D])
        BY Zenon, <2>2, <2>3, <2>5, CancelsTwice
    <2> HIDE DEF Good
    <2> QED BY <2>6
<1>7. SUBSET C \subseteq G
    <2> HIDE DEF G
    <2> QED BY <1>1, <1>5, <1>6, SetsFollow
<1>8. Good(h[C])
    <2> HIDE DEF Good
    <2> QED BY <1>7
<1> QED BY Zenon, <1>3, <1>8

LEMMA JailedSound ==
    ASSUME NEW S, NEW E, Sound(S, E), NEW T \in Jailed(S)
    PROVE  Sound(T, E) /\ Cancels(S, T)
<1>1. PICK C \in SUBSET {c \in Char : S.spell[c] # None} : T = All(S, C)
    BY Zenon DEF Jailed, All
<1> QED BY Zenon, <1>1, AllSound

LEMMA SpellActSound ==
    ASSUME NEW S, NEW E, Sound(S, E), NEW c \in Char, S.spell[c] # None,
           NEW T \in SpellAct(S, c)
    PROVE  Sound(T, E) /\ Cancels(S, T)
<1> DEFINE done == CancelSpell(S, c)
<1>1. Sound(done, E) /\ Cancels(S, done)
    BY Zenon, CancelSound
<1>2. T \in {done} \cup {CancelSpell(done, x) : x \in {y \in Char : done.spell[y] # None}}
    BY Zenon DEF SpellAct
<1> HIDE DEF done
<1>3. CASE T = done
    BY Zenon, <1>1, <1>3
<1>4. CASE \E x \in Char : done.spell[x] # None /\ T = CancelSpell(done, x)
    <2>1. PICK x \in Char : done.spell[x] # None /\ T = CancelSpell(done, x)
        BY <1>4
    <2>2. Sound(T, E) /\ Cancels(done, T)
        BY Zenon, <1>1, <2>1, CancelSound
    <2> QED BY Zenon, <1>1, <2>2, CancelsTwice
<1> QED BY <1>2, <1>3, <1>4

-----------------------------------------------------------------------------
(***************************************************************************)
(* Registering events.                                                     *)
(***************************************************************************)

Armedly(kind, param, lifetime) ==
    [kind |-> kind, param |-> param, age |-> 0, speed |-> Speed[kind], lifetime |-> lifetime]

LEMMA RegisterFields ==
    ASSUME NEW S, IsState(S), NEW e, NEW kind, NEW param, NEW lifetime, lifetime # 0
    PROVE  Is(Register(S, e, kind, param, lifetime),
              [S.event EXCEPT ![e] = Armedly(kind, param, lifetime)], S.timers \cup {e},
              S.spell, S.asked, S.open, S.step, S.checking, S.corrupt)
<1> DEFINE n == Armedly(kind, param, lifetime)
           U == [S EXCEPT !.event[e] = n]
           W == [U EXCEPT !.timers = @ \cup {e}]
<1>1. Register(S, e, kind, param, lifetime) = [W EXCEPT !.changed = TRUE]
    BY Zenon DEF Register, Armedly
<1> HIDE DEF n
<1>2. Is(U, [S.event EXCEPT ![e] = n], S.timers, S.spell, S.asked, S.open, S.step,
         S.checking, S.corrupt)
    BY SetEvent
<1>3. IsState(U)
    BY <1>2 DEF Is
<1> HIDE DEF U
<1>4. Is(W, U.event, U.timers \cup {e}, U.spell, U.asked, U.open, U.step, U.checking,
         U.corrupt)
    BY <1>3, SetTimers
<1>5. IsState(W)
    BY <1>4 DEF Is
<1> HIDE DEF W
<1>6. Is([W EXCEPT !.changed = TRUE], W.event, W.timers, W.spell, W.asked, W.open, W.step,
         W.checking, W.corrupt)
    BY <1>5, SetChanged
<1>7. Is([W EXCEPT !.changed = TRUE], [S.event EXCEPT ![e] = n], S.timers \cup {e}, S.spell,
         S.asked, S.open, S.step, S.checking, S.corrupt)
    BY Zenon, <1>2, <1>4, <1>6 DEF Is
<1> QED BY Zenon, <1>1, <1>7 DEF n

\* What registering an event does.
Adds(S, T, e, kind, lifetime) ==
    /\ T.timers = S.timers \cup {e} /\ e \notin S.timers
    /\ \A x \in S.timers : T.event[x] = S.event[x]
    /\ T.event[e].kind = kind /\ T.event[e].age = 0 /\ T.event[e].lifetime = lifetime

LEMMA RegisterSound ==
    ASSUME NEW S, NEW E, Sound(S, E), NEW e \in Address, S.event[e] = None,
           NEW kind \in Kind \ {"cast"}, NEW lifetime \in Int, lifetime # 0,
           kind # "evacuate" => lifetime = IF kind = "spikes" THEN Forever ELSE 1
    PROVE  LET T == Register(S, e, kind, None, lifetime)
           IN /\ Sound(T, E) /\ Adds(S, T, e, kind, lifetime) /\ T.spell = S.spell
              /\ T.open = S.open /\ T.step = S.step /\ T.checking = S.checking
<1> DEFINE T == Register(S, e, kind, None, lifetime)
           n == Armedly(kind, None, lifetime)
           events == [S.event EXCEPT ![e] = n]
<1>1. Shape(S) /\ Held(S, E) /\ IsState(S) /\ S.corrupt = FALSE
    BY DEF Sound, Shape
<1>2. Is(T, events, S.timers \cup {e}, S.spell, S.asked, S.open, S.step, S.checking, FALSE)
    <2>1. Is(T, events, S.timers \cup {e}, S.spell, S.asked, S.open, S.step, S.checking,
             S.corrupt)
        BY <1>1, RegisterFields
    <2> QED BY Zenon, <1>1, <2>1
<1>3. IsState(T) /\ T.event = events /\ T.timers = S.timers \cup {e} /\ T.spell = S.spell
      /\ T.asked = S.asked /\ T.open = S.open /\ T.step = S.step /\ T.checking = S.checking
      /\ T.corrupt = FALSE
    BY Zenon, <1>2 DEF Is
<1>4. n \in Event /\ n.kind = kind /\ n.age = 0 /\ n.lifetime = lifetime /\ n # None
    <2>1. n \in Event
        BY SpeedsAreKnown DEF Armedly, Event
    <2> QED BY <2>1, NotNone DEF Armedly
<1> HIDE DEF T, n
<1>5. events \in [Address -> Event \cup {None}] /\ events[e] = n
      /\ \A x \in Address \ {e} : events[x] = S.event[x]
    BY <1>1, <1>4 DEF Shape
<1> HIDE DEF events
<1>6. e \notin S.timers /\ e \notin E
    BY <1>1 DEF Held
<1>7. Shape(T)
    BY <1>1, <1>3, <1>5 DEF Shape
<1>8. Held(T, E)
    <2>1. E \subseteq Address \ T.timers
        BY <1>1, <1>3, <1>6 DEF Held
    <2>2. \A x \in Address : T.event[x] # None <=> x \in T.timers \cup E
        BY <1>1, <1>3, <1>4, <1>5 DEF Held
    <2>3. Pump \in S.timers /\ S.event[Pump].kind = "pump" /\ Pump \in Address
          /\ S.event[Pump].lifetime = Forever
        BY <1>1, AddressesAreOrdered DEF Held
    <2> QED BY <1>3, <1>5, <1>6, <2>1, <2>2, <2>3 DEF Held
<1>9. \A x \in S.timers : T.event[x] = S.event[x] /\ x \in T.timers
    BY <1>1, <1>3, <1>5, <1>6 DEF Shape
<1>10. ASSUME NEW d \in Char, Casting(T, d) PROVE Casts(T, d)
    <2>1. Casts(S, d)
        BY <1>3, <1>10 DEF Sound, Casting
    <2> QED BY <1>3, <1>9, <2>1 DEF Casts
<1>11. ASSUME NEW x \in T.timers PROVE Registered(T, x)
    <2>1. CASE x = e
        BY <1>3, <1>4, <1>5, <2>1 DEF Registered, Kind
    <2>2. CASE x # e
        <3>1. x \in S.timers /\ T.event[x] = S.event[x]
            BY <1>3, <1>9, <2>2
        <3>2. Registered(S, x)
            BY <3>1 DEF Sound
        <3> QED BY <1>3, <3>1, <3>2 DEF Registered
    <2> QED BY <2>1, <2>2
<1>12. Adds(S, T, e, kind, lifetime)
    BY <1>3, <1>4, <1>5, <1>6, <1>9 DEF Adds
<1>13. Sound(T, E)
    BY <1>3, <1>7, <1>8, <1>10, <1>11 DEF Sound
<1> QED BY <1>3, <1>12, <1>13 DEF T

\* What is there after registering an event.
LEMMA AddsOf ==
    ASSUME NEW S, NEW T, NEW e, NEW kind, NEW lifetime, Adds(S, T, e, kind, lifetime), NEW K
    PROVE  /\ kind \in K => Of(T, K) = Of(S, K) \cup {e}
           /\ kind \notin K => Of(T, K) = Of(S, K)
           /\ Alters(S, T)
<1>1. Alters(S, T)
    BY DEF Adds, Alters
<1>2. \A x \in T.timers : x \in Of(T, K) <=> (x = e /\ kind \in K) \/ x \in Of(S, K)
    BY DEF Adds, Of
<1>3. Of(T, K) \subseteq T.timers /\ Of(S, K) \subseteq T.timers /\ e \in T.timers
    BY DEF Adds, Of
<1> QED BY <1>1, <1>2, <1>3

LEMMA AltersTwice ==
    ASSUME NEW S, NEW T, NEW U, Alters(S, T), Alters(T, U)
    PROVE  Alters(S, U)
BY DEF Alters

\* Events nobody but characters and maps wait for.
LEMMA AddsWaiting ==
    ASSUME NEW S, NEW T, NEW e, NEW kind \in {"cast", "spikes"}, NEW lifetime,
           Adds(S, T, e, kind, lifetime), Waiting(S),
           T.open = S.open, T.step = S.step, T.checking = S.checking
    PROVE  Waiting(T)
<1>1. Of(T, {"close"}) = Of(S, {"close"}) /\ Of(T, {"evacuate"}) = Of(S, {"evacuate"})
      /\ Of(T, Chain) = Of(S, Chain)
    BY AddsOf DEF Chain
<1>2. \A x \in S.timers : x \in T.timers /\ T.event[x] = S.event[x]
    BY DEF Adds
<1>3. DoorsWait(T)
    BY <1>1 DEF Waiting, DoorsWait
<1>4. EvacuationWaits(T)
    BY <1>1, <1>2 DEF Waiting, EvacuationWaits
<1>5. CheckWaits(T)
    BY <1>1, <1>2 DEF Waiting, CheckWaits
<1> QED BY <1>3, <1>4, <1>5 DEF Waiting

\* Doors, counts and check-ins have no part in what is sound.
LEMMA SoundSame ==
    ASSUME NEW S, NEW E, Sound(S, E), NEW T, IsState(T), T.event = S.event,
           T.timers = S.timers, T.spell = S.spell, T.asked = S.asked, T.corrupt = FALSE,
           T.open \in BOOLEAN, T.step \in Nat \cup {None}, T.checking \in BOOLEAN \cup {None}
    PROVE  Sound(T, E) /\ \A K : Of(T, K) = Of(S, K)
<1>1. Shape(T)
    BY DEF Sound, Shape
<1>2. Held(T, E)
    BY DEF Sound, Held
<1>3. \A d \in Char : Casting(T, d) => Casts(T, d)
    BY DEF Sound, Casting, Casts
<1>4. \A x \in T.timers : Registered(T, x)
    BY DEF Sound, Registered
<1> QED BY <1>1, <1>2, <1>3, <1>4 DEF Sound, Of

\* Casting a spell.
LEMMA AskedSound ==
    ASSUME NEW S, Sound(S, {}), NEW c \in Char, S.spell[c] = NoSpell, NEW e \in Address,
           S.event[e] = None
    PROVE  LET T == [Register(S, e, "cast", c, 1) EXCEPT !.spell[c].event = e, !.asked[c] = 0]
           IN /\ Sound(T, {}) /\ Adds(S, T, e, "cast", 1)
              /\ T.open = S.open /\ T.step = S.step /\ T.checking = S.checking
<1> DEFINE U == Register(S, e, "cast", c, 1)
           n == Armedly("cast", c, 1)
           events == [S.event EXCEPT ![e] = n]
<1>1. Shape(S) /\ Held(S, {}) /\ IsState(S) /\ S.corrupt = FALSE
    BY DEF Sound, Shape
<1>2. Is(U, events, S.timers \cup {e}, S.spell, S.asked, S.open, S.step, S.checking,
         S.corrupt)
    <2>1. 1 # 0
        OBVIOUS
    <2> QED BY Zenon, <1>1, <2>1, RegisterFields
<1> DEFINE T == [U EXCEPT !.spell[c].event = e, !.asked[c] = 0]
           s == [U.spell[c] EXCEPT !.event = e]
           casts == [S.spell EXCEPT ![c] = s]
           since == [S.asked EXCEPT ![c] = 0]
<1>3. T = [U EXCEPT !.spell[c] = s, !.asked[c] = 0]
    BY Zenon
<1> HIDE DEF U
<1>4. s \in Spell /\ s.event = e /\ s.ready = FALSE /\ s # None
    <2>1. U.spell[c] = NoSpell
        BY <1>2 DEF Is
    <2>2. \A x \in Spell : LET y == [x EXCEPT !.event = e]
                          IN y \in Spell /\ y.event = e /\ y.ready = x.ready
        BY DEF Spell
    <2>3. s \in Spell /\ s.event = e /\ s.ready = NoSpell.ready
        BY <2>1, <2>2, NotNone
    <2> QED BY <2>3, NotNone
<1>5. n \in Event /\ n.kind = "cast" /\ n.param = c /\ n.age = 0 /\ n.lifetime = 1
      /\ n.speed = Speed["cast"] /\ n # None
    <2>1. n \in Event
        BY SpeedsAreKnown DEF Armedly, Event, Kind
    <2> QED BY <2>1, NotNone DEF Armedly
<1> HIDE DEF s, n
<1>6. IsState(U)
    BY <1>2 DEF Is
<1>7. Is([U EXCEPT !.spell[c] = s, !.asked[c] = 0], U.event, U.timers,
         [U.spell EXCEPT ![c] = s], [U.asked EXCEPT ![c] = 0], U.open, U.step, U.checking,
         U.corrupt)
    BY <1>6, Spelt
<1>8. /\ IsState(T) /\ T.event = events /\ T.timers = S.timers \cup {e} /\ T.spell = casts
      /\ T.asked = since /\ T.open = S.open /\ T.step = S.step /\ T.checking = S.checking
      /\ T.corrupt = FALSE
    BY Zenon, <1>1, <1>2, <1>3, <1>7 DEF Is
<1> HIDE DEF T
<1>9. events \in [Address -> Event \cup {None}] /\ events[e] = n
      /\ \A x \in Address \ {e} : events[x] = S.event[x]
    BY <1>1, <1>5 DEF Shape
<1>10. casts \in [Char -> Spell \cup {None}] /\ casts[c] = s
      /\ since \in [Char -> Nat \cup {None}] /\ since[c] = 0
      /\ \A d \in Char \ {c} : casts[d] = S.spell[d] /\ since[d] = S.asked[d]
    BY <1>1, <1>4 DEF Shape
<1> HIDE DEF events, casts, since
<1>11. e \notin S.timers
    BY <1>1 DEF Held
<1>12. Shape(T)
    BY <1>1, <1>8, <1>9, <1>10 DEF Shape
<1>13. Held(T, {})
    <2>1. \A x \in Address : T.event[x] # None <=> x \in T.timers \cup {}
        BY <1>1, <1>5, <1>8, <1>9 DEF Held
    <2>2. Pump \in S.timers /\ S.event[Pump].kind = "pump" /\ Pump \in Address
          /\ S.event[Pump].lifetime = Forever
        BY <1>1, AddressesAreOrdered DEF Held
    <2> QED BY <1>8, <1>9, <1>11, <2>1, <2>2 DEF Held
<1>14. \A x \in S.timers : T.event[x] = S.event[x] /\ x \in T.timers
    BY <1>1, <1>8, <1>9, <1>11 DEF Shape
<1>15. ASSUME NEW d \in Char, Casting(T, d) PROVE Casts(T, d)
    <2>1. CASE d = c
        BY <1>4, <1>5, <1>8, <1>9, <1>10, <2>1 DEF Casts
    <2>2. CASE d # c
        <3>1. Casts(S, d)
            BY <1>8, <1>10, <1>15, <2>2 DEF Sound, Casting
        <3> QED BY <1>8, <1>10, <1>14, <2>2, <3>1 DEF Casts
    <2> QED BY <2>1, <2>2
<1>16. ASSUME NEW x \in T.timers PROVE Registered(T, x)
    <2>1. CASE x = e
        BY <1>4, <1>5, <1>8, <1>9, <1>10, <2>1 DEF Registered
    <2>2. CASE x # e
        <3>1. x \in S.timers /\ T.event[x] = S.event[x] /\ x # None
            BY <1>1, <1>8, <1>14, <2>2, NotNone DEF Shape
        <3>2. Registered(S, x)
            BY <3>1 DEF Sound
        <3>3. S.event[x].kind = "cast" => S.event[x].param # c
            BY <3>1, <3>2, NotNone DEF Registered
        <3> QED BY <1>8, <1>10, <3>1, <3>2, <3>3 DEF Registered
    <2> QED BY <2>1, <2>2
<1>17. Adds(S, T, e, "cast", 1)
    BY <1>5, <1>8, <1>9, <1>11, <1>14 DEF Adds
<1>18. Sound(T, {})
    BY <1>8, <1>12, <1>13, <1>15, <1>16 DEF Sound
<1> QED BY <1>8, <1>17, <1>18 DEF T, U

-----------------------------------------------------------------------------
(***************************************************************************)
(* An event that is called.                                                *)
(***************************************************************************)

Gone(S, T, e) == T.timers = S.timers \ {e} /\ \A x \in T.timers : T.event[x] = S.event[x]

LEMMA GoneOf ==
    ASSUME NEW S, NEW T, NEW e, Gone(S, T, e)
    PROVE  Alters(S, T) /\ \A K : Of(T, K) = Of(S, K) \ {e}
BY DEF Gone, Alters, Of

\* An event at the end of its life is not registered while it is called; a character that
\* cast its spell does not wait for it.
LEMMA LeftSound ==
    ASSUME NEW S, Sound(S, {}), NEW e \in S.timers, e # Pump, NEW n \in Event, NEW T,
           NEW casts \in [Char -> Spell \cup {None}], NEW since \in [Char -> Nat \cup {None}],
           S.event[e].kind # "cast" => casts = S.spell /\ since = S.asked,
           S.event[e].kind = "cast" =>
               LET c == S.event[e].param
               IN /\ casts[c] # None => casts[c].event = None
                  /\ \A d \in Char \ {c} : casts[d] = S.spell[d] /\ since[d] = S.asked[d],
           Is(T, [S.event EXCEPT ![e] = n], S.timers \ {e}, casts, since, S.open, S.step,
              S.checking, FALSE)
    PROVE  Sound(T, {e}) /\ Gone(S, T, e)
<1> DEFINE events == [S.event EXCEPT ![e] = n]
<1>1. Shape(S) /\ Held(S, {}) /\ e \in Address
    BY DEF Sound, Shape
<1>2. /\ IsState(T) /\ T.event = events /\ T.timers = S.timers \ {e} /\ T.spell = casts
      /\ T.asked = since /\ T.open = S.open /\ T.step = S.step /\ T.checking = S.checking
      /\ T.corrupt = FALSE
    BY Zenon DEF Is
<1>3. events \in [Address -> Event \cup {None}] /\ events[e] # None
      /\ \A x \in Address \ {e} : events[x] = S.event[x]
    BY <1>1, NotNone DEF Shape
<1> HIDE DEF events
<1>4. Shape(T)
    BY <1>1, <1>2, <1>3 DEF Shape
<1>5. Held(T, {e})
    <2>1. \A x \in Address : T.event[x] # None <=> x \in T.timers \cup {e}
        BY <1>1, <1>2, <1>3 DEF Held
    <2>2. Pump \in S.timers /\ S.event[Pump].kind = "pump" /\ Pump \in Address
          /\ S.event[Pump].lifetime = Forever
        BY <1>1, AddressesAreOrdered DEF Held
    <2> QED BY <1>1, <1>2, <1>3, <2>1, <2>2 DEF Held
<1>6. Gone(S, T, e)
    BY <1>1, <1>2, <1>3 DEF Gone, Shape
<1>7. ASSUME NEW d \in Char, Casting(T, d) PROVE Casts(T, d)
    <2>1. S.event[e].kind = "cast" => d # S.event[e].param
        BY <1>2, <1>7 DEF Casting
    <2>2. T.spell[d] = S.spell[d] /\ T.asked[d] = S.asked[d]
        BY <1>2, <2>1
    <2>3. Casts(S, d)
        BY <1>7, <2>2 DEF Sound, Casting
    <2>4. S.spell[d].event # e
        BY <2>1, <2>3 DEF Casts
    <2> QED BY <1>2, <1>6, <2>2, <2>3, <2>4 DEF Casts, Gone
<1>8. ASSUME NEW x \in T.timers PROVE Registered(T, x)
    <2>1. x \in S.timers /\ x # e /\ T.event[x] = S.event[x]
        BY <1>2, <1>6 DEF Gone
    <2>2. Registered(S, x) /\ Registered(S, e)
        BY <2>1 DEF Sound
    <2>3. ASSUME S.event[x].kind = "cast"
          PROVE  S.event[e].kind = "cast" => S.event[x].param # S.event[e].param
        BY <2>1, <2>2, <2>3 DEF Registered
    <2>4. ASSUME S.event[x].kind = "cast"
          PROVE  T.spell[S.event[x].param] = S.spell[S.event[x].param]
        BY <1>2, <2>2, <2>3, <2>4 DEF Registered
    <2> QED BY <2>1, <2>2, <2>4 DEF Registered
<1> QED BY <1>2, <1>4, <1>5, <1>6, <1>7, <1>8 DEF Sound

\* What is still to come for it is as its life has it.
LEMMA KeptSound ==
    ASSUME NEW S, Sound(S, {}), NEW e \in S.timers, e # Pump, NEW n \in Event,
           n.kind = S.event[e].kind, n.param = S.event[e].param,
           n.kind = "evacuate" \/ (n.kind = "spikes" /\ n.lifetime = Forever)
    PROVE  LET T == [S EXCEPT !.event[e] = n]
           IN /\ Sound(T, {}) /\ T.event[e] = n /\ T.timers = S.timers
              /\ T.open = S.open /\ T.step = S.step /\ T.checking = S.checking
              /\ \A x \in S.timers \ {e} : T.event[x] = S.event[x]
              /\ \A K : Of(T, K) = Of(S, K)
<1> DEFINE T == [S EXCEPT !.event[e] = n]
           events == [S.event EXCEPT ![e] = n]
<1>1. Shape(S) /\ Held(S, {}) /\ e \in Address /\ IsState(S) /\ S.corrupt = FALSE
    BY DEF Sound, Shape
<1>2. Is(T, events, S.timers, S.spell, S.asked, S.open, S.step, S.checking, S.corrupt)
    BY <1>1, SetEvent
<1> HIDE DEF T
<1>3. /\ IsState(T) /\ T.event = events /\ T.timers = S.timers /\ T.spell = S.spell
      /\ T.asked = S.asked /\ T.open = S.open /\ T.step = S.step /\ T.checking = S.checking
      /\ T.corrupt = FALSE
    BY Zenon, <1>1, <1>2 DEF Is
<1>4. events \in [Address -> Event \cup {None}] /\ events[e] = n /\ events[e] # None
      /\ \A x \in Address \ {e} : events[x] = S.event[x]
    BY <1>1, NotNone DEF Shape
<1> HIDE DEF events
<1>5. Shape(T)
    BY <1>1, <1>3, <1>4 DEF Shape
<1>6. \A x \in S.timers \ {e} : T.event[x] = S.event[x]
    BY <1>1, <1>3, <1>4 DEF Shape
<1>7. Held(T, {})
    <2>1. \A x \in Address : T.event[x] # None <=> x \in T.timers \cup {}
        BY <1>1, <1>3, <1>4 DEF Held
    <2>2. Pump \in S.timers /\ S.event[Pump].kind = "pump" /\ Pump \in Address
          /\ S.event[Pump].lifetime = Forever
        BY <1>1, AddressesAreOrdered DEF Held
    <2> QED BY <1>3, <1>6, <2>1, <2>2 DEF Held
<1>8. ASSUME NEW d \in Char, Casting(T, d) PROVE Casts(T, d)
    <2>1. Casts(S, d)
        BY <1>3, <1>8 DEF Sound, Casting
    <2>2. S.spell[d].event # e
        BY <2>1 DEF Casts
    <2> QED BY <1>3, <1>6, <2>1, <2>2 DEF Casts
<1>9. ASSUME NEW x \in T.timers PROVE Registered(T, x)
    <2>1. CASE x = e
        BY <1>3, <1>4, <2>1 DEF Registered
    <2>2. CASE x # e
        <3>1. Registered(S, x)
            BY <1>3 DEF Sound
        <3> QED BY <1>3, <1>6, <2>2, <3>1 DEF Registered
    <2> QED BY <2>1, <2>2
<1>10. \A K : Of(T, K) = Of(S, K)
    BY <1>3, <1>4, <1>6 DEF Of
<1>11. Sound(T, {})
    BY <1>3, <1>5, <1>7, <1>8, <1>9 DEF Sound
<1> QED BY <1>3, <1>4, <1>6, <1>10, <1>11 DEF T

\* The rest of what a character remembers of its spell.
LEMMA SpellSound ==
    ASSUME NEW S, NEW E, Sound(S, E), NEW c \in Char, S.spell[c] # None, NEW s \in Spell,
           s.event = S.spell[c].event, s.event # None => s.ready = FALSE
    PROVE  LET T == [S EXCEPT !.spell[c] = s]
           IN Sound(T, E) /\ Cancels(S, T) /\ T.spell[c] = s
<1> DEFINE T == [S EXCEPT !.spell[c] = s]
           casts == [S.spell EXCEPT ![c] = s]
<1>1. Shape(S) /\ Held(S, E) /\ IsState(S) /\ S.corrupt = FALSE
    BY DEF Sound, Shape
<1>2. Is(T, S.event, S.timers, casts, S.asked, S.open, S.step, S.checking, S.corrupt)
    BY <1>1, SetSpell
<1> HIDE DEF T
<1>3. /\ IsState(T) /\ T.event = S.event /\ T.timers = S.timers /\ T.spell = casts
      /\ T.asked = S.asked /\ T.open = S.open /\ T.step = S.step /\ T.checking = S.checking
      /\ T.corrupt = FALSE
    BY Zenon, <1>1, <1>2 DEF Is
<1>4. casts \in [Char -> Spell \cup {None}] /\ casts[c] = s /\ s # None
      /\ \A d \in Char \ {c} : casts[d] = S.spell[d]
    BY <1>1, NotNone DEF Shape
<1> HIDE DEF casts
<1>5. Shape(T) /\ Held(T, E)
    BY <1>1, <1>3, <1>4 DEF Shape, Held
<1>6. ASSUME NEW d \in Char, Casting(T, d) PROVE Casts(T, d)
    <2>1. Casts(S, d) /\ T.spell[d].event = S.spell[d].event
        BY <1>3, <1>4, <1>6 DEF Sound, Casting
    <2>2. T.spell[d].ready = FALSE
        BY <1>3, <1>4, <1>6, <2>1 DEF Casts, Casting
    <2> QED BY <1>3, <2>1, <2>2 DEF Casts
<1>7. ASSUME NEW x \in T.timers PROVE Registered(T, x)
    <2>1. Registered(S, x)
        BY <1>3 DEF Sound
    <2> QED BY <1>3, <1>4, <2>1 DEF Registered
<1>8. Cancels(S, T)
    BY <1>3, <1>4 DEF Cancels
<1> QED BY <1>3, <1>4, <1>5, <1>6, <1>7, <1>8 DEF Sound, T

\* An event is deleted after its callback.
LEMMA DeletedSound ==
    ASSUME NEW S, NEW e \in Address, Sound(S, {e})
    PROVE  LET T == Delete(S, e)
           IN Sound(T, {}) /\ Cancels(S, T) /\ e \notin T.timers
<1> DEFINE T == Delete(S, e)
           events == [S.event EXCEPT ![e] = None]
<1>1. Shape(S) /\ Held(S, {e}) /\ IsState(S) /\ S.corrupt = FALSE
    BY DEF Sound, Shape
<1>2. S.event[e] # Free /\ e \notin S.timers
    BY <1>1 DEF Held, Free
<1>3. Is(T, events, S.timers \ {e}, S.spell, S.asked, S.open, S.step, S.checking, S.corrupt)
    BY <1>1, <1>2, Deleted
<1> HIDE DEF T
<1>4. S.timers \ {e} = S.timers
    BY <1>2
<1>5. /\ IsState(T) /\ T.event = events /\ T.timers = S.timers /\ T.spell = S.spell
      /\ T.asked = S.asked /\ T.open = S.open /\ T.step = S.step /\ T.checking = S.checking
      /\ T.corrupt = FALSE
    BY Zenon, <1>1, <1>3, <1>4 DEF Is
<1>6. events \in [Address -> Event \cup {None}] /\ events[e] = None
      /\ \A x \in Address \ {e} : events[x] = S.event[x]
    BY <1>1 DEF Shape
<1> HIDE DEF events
<1>7. \A x \in S.timers : T.event[x] = S.event[x]
    BY <1>1, <1>2, <1>5, <1>6 DEF Shape
<1>8. Shape(T)
    BY <1>1, <1>5, <1>6 DEF Shape
<1>9. Held(T, {})
    <2>1. \A x \in Address : T.event[x] # None <=> x \in T.timers \cup {}
        BY <1>1, <1>2, <1>5, <1>6 DEF Held
    <2>2. Pump \in S.timers /\ S.event[Pump].kind = "pump" /\ S.event[Pump].lifetime = Forever
        BY <1>1 DEF Held
    <2> QED BY <1>5, <1>7, <2>1, <2>2 DEF Held
<1>10. ASSUME NEW d \in Char, Casting(T, d) PROVE Casts(T, d)
    <2>1. Casts(S, d)
        BY <1>5, <1>10 DEF Sound, Casting
    <2> QED BY <1>5, <1>7, <2>1 DEF Casts
<1>11. ASSUME NEW x \in T.timers PROVE Registered(T, x)
    <2>1. Registered(S, x)
        BY <1>5 DEF Sound
    <2> QED BY <1>5, <1>7, <2>1 DEF Registered
<1>12. Cancels(S, T)
    BY <1>5, <1>7 DEF Cancels
<1> QED BY <1>2, <1>5, <1>8, <1>9, <1>10, <1>11, <1>12 DEF Sound, T

\* An event whose life ends, as its callback finds it.
Ended(S, e, n) == Unregister([S EXCEPT !.event[e] = n], e)

LEMMA EndedFields ==
    ASSUME NEW S, Sound(S, {}), NEW e, NEW n
    PROVE  Is(Ended(S, e, n), [S.event EXCEPT ![e] = n], S.timers \ {e}, S.spell, S.asked,
              S.open, S.step, S.checking, FALSE)
<1> DEFINE U == [S EXCEPT !.event[e] = n]
<1>1. IsState(S) /\ S.corrupt = FALSE
    BY DEF Sound, Shape
<1>2. Is(U, [S.event EXCEPT ![e] = n], S.timers, S.spell, S.asked, S.open, S.step,
         S.checking, S.corrupt)
    BY <1>1, SetEvent
<1>3. IsState(U)
    BY <1>2 DEF Is
<1>4. Ended(S, e, n) = Unregister(U, e)
    BY DEF Ended
<1> HIDE DEF U
<1>5. Is(Unregister(U, e), U.event, U.timers \ {e}, U.spell, U.asked, U.open, U.step,
         U.checking, U.corrupt)
    BY <1>3, Unregistered
<1> QED BY Zenon, <1>1, <1>2, <1>4, <1>5 DEF Is

LEMMA EndedSound ==
    ASSUME NEW S, Sound(S, {}), NEW e \in S.timers, e # Pump, NEW n \in Event,
           S.event[e].kind # "cast"
    PROVE  LET T == Ended(S, e, n)
           IN /\ Sound(T, {e}) /\ Gone(S, T, e)
              /\ T.open = S.open /\ T.step = S.step /\ T.checking = S.checking
<1> DEFINE T == Ended(S, e, n)
<1>1. Is(T, [S.event EXCEPT ![e] = n], S.timers \ {e}, S.spell, S.asked, S.open, S.step,
         S.checking, FALSE)
    BY EndedFields
<1>2. S.spell \in [Char -> Spell \cup {None}] /\ S.asked \in [Char -> Nat \cup {None}]
    BY DEF Sound, Shape
<1> HIDE DEF T
<1>3. Sound(T, {e}) /\ Gone(S, T, e)
    BY <1>1, <1>2, LeftSound
<1> QED BY <1>1, <1>3 DEF Is, T

\* A spell is cast.
LEMMA CastSound ==
    ASSUME NEW S, Sound(S, {}), Waiting(S), NEW e \in S.timers, e # Pump, NEW n \in Event,
           S.event[e].kind = "cast", NEW T \in Cast(Ended(S, e, n), S.event[e].param)
    PROVE  Sound(T, {e}) /\ Waiting(T) /\ Alters(S, T)
<1> DEFINE called == Ended(S, e, n)
           c == S.event[e].param
           s == [called.spell[c] EXCEPT !.event = None]
           casts == [S.spell EXCEPT ![c] = s]
           since == [S.asked EXCEPT ![c] = None]
           came == [called EXCEPT !.spell[c].event = None, !.asked[c] = None]
<1>1. c \in Char /\ S.spell[c] # None /\ S.spell[c].event = e /\ e \in Address /\ e # None
      /\ Shape(S) /\ S.spell[c] \in Spell
    <2>1. c \in Char /\ S.spell[c] # None /\ S.spell[c].event = e
        BY DEF Sound, Registered
    <2>2. Shape(S) /\ e \in Address
        BY DEF Sound, Shape
    <2> QED BY <2>1, <2>2, NotNone DEF Shape
<1>2. Is(called, [S.event EXCEPT ![e] = n], S.timers \ {e}, S.spell, S.asked, S.open, S.step,
         S.checking, FALSE)
    BY EndedFields
<1>3. came = [called EXCEPT !.spell[c] = s, !.asked[c] = None]
    BY Zenon
<1>4. T \in (IF called.spell[c] = None THEN {[called EXCEPT !.corrupt = TRUE]}
             ELSE IF called.spell[c].event = None THEN {called}
             ELSE {came} \cup IF called.spell[c].target THEN SpellAct(came, c)
                              ELSE {[came EXCEPT !.spell[c].ready = TRUE]})
    BY Zenon DEF Cast
<1> HIDE DEF called, c
<1>5. called.spell = S.spell /\ IsState(called)
    BY <1>2 DEF Is
<1>6. s \in Spell /\ s.event = None
    <2>1. \A x \in Spell : [x EXCEPT !.event = None] \in Spell
                           /\ [x EXCEPT !.event = None].event = None
        BY DEF Spell
    <2>2. called.spell[c] \in Spell
        BY <1>1, <1>5
    <2> QED BY <2>1, <2>2
<1> HIDE DEF s
<1>7. Is([called EXCEPT !.spell[c] = s, !.asked[c] = None], called.event, called.timers,
         [called.spell EXCEPT ![c] = s], [called.asked EXCEPT ![c] = None], called.open,
         called.step, called.checking, called.corrupt)
    BY <1>5, Spelt
<1>8. Is(came, [S.event EXCEPT ![e] = n], S.timers \ {e}, casts, since, S.open, S.step,
         S.checking, FALSE)
    BY Zenon, <1>2, <1>3, <1>7 DEF Is
<1> HIDE DEF came
<1>9. casts \in [Char -> Spell \cup {None}] /\ casts[c] = s
      /\ since \in [Char -> Nat \cup {None}]
      /\ \A d \in Char \ {c} : casts[d] = S.spell[d] /\ since[d] = S.asked[d]
    BY <1>1, <1>6 DEF Shape
<1> HIDE DEF casts, since
<1>10. Sound(came, {e}) /\ Gone(S, came, e)
    BY <1>6, <1>8, <1>9, LeftSound DEF c
<1>11. came.spell = casts /\ came.open = S.open /\ came.step = S.step
       /\ came.checking = S.checking
    BY Zenon, <1>8 DEF Is
<1>12. Waiting(came) /\ Alters(S, came)
    <2>1. Alters(S, came) /\ \A K : Of(came, K) = Of(S, K) \ {e}
        BY <1>10, GoneOf
    <2>2. \A K : "cast" \notin K => Of(came, K) = Of(S, K)
        BY <2>1 DEF Of
    <2>3. Of(came, {"close"}) = Of(S, {"close"}) /\ Of(came, {"evacuate"}) = Of(S, {"evacuate"})
          /\ Of(came, Chain) = Of(S, Chain)
        BY <2>2 DEF Chain
    <2>4. \A x \in Of(came, {"evacuate"}) : came.event[x] = S.event[x]
        BY <1>10 DEF Of, Gone
    <2>5. EvacuationWaits(came)
        BY <1>11, <2>3, <2>4, EvacuationKept DEF Waiting
    <2>6. CheckWaits(came)
        BY <1>11, <2>3, CheckKept DEF Waiting
    <2>7. DoorsWait(came)
        BY <1>11, <2>3 DEF Waiting, DoorsWait
    <2> QED BY <2>1, <2>5, <2>6, <2>7 DEF Waiting
<1>13. came.spell[c] = s /\ came.spell[c] # None
    BY <1>6, <1>9, <1>11, NotNone
<1>14. Sound(T, {e}) /\ Cancels(came, T)
    <2>1. called.spell[c] # None /\ called.spell[c].event # None
        BY <1>1, <1>5
    <2>2. CASE T = came
        <3>1. Cancels(came, came)
            BY DEF Cancels
        <3> QED BY Zenon, <1>10, <2>2, <3>1
    <2>3. CASE T \in SpellAct(came, c)
        BY Zenon, <1>1, <1>10, <1>13, <2>3, SpellActSound
    <2>4. CASE T = [came EXCEPT !.spell[c].ready = TRUE]
        <3> DEFINE r == [came.spell[c] EXCEPT !.ready = TRUE]
        <3>1. T = [came EXCEPT !.spell[c] = r]
            BY Zenon, <2>4
        <3>2. \A x \in Spell : [x EXCEPT !.ready = TRUE] \in Spell
                               /\ [x EXCEPT !.ready = TRUE].event = x.event
            BY DEF Spell
        <3>3. r \in Spell /\ r.event = came.spell[c].event /\ r.event = None
            BY <1>6, <1>13, <3>2
        <3> HIDE DEF r
        <3>4. Sound([came EXCEPT !.spell[c] = r], {e})
              /\ Cancels(came, [came EXCEPT !.spell[c] = r])
            BY <1>1, <1>10, <1>13, <3>3, SpellSound
        <3> QED BY Zenon, <3>1, <3>4
    <2> QED BY Zenon, <1>4, <2>1, <2>2, <2>3, <2>4
<1>15. Waiting(T) /\ Alters(came, T)
    BY Zenon, <1>12, <1>14, CancelsWaiting
<1> QED BY Zenon, <1>12, <1>14, <1>15, AltersTwice

LEMMA CloseSound ==
    ASSUME NEW S, Sound(S, {}), Waiting(S), NEW e \in S.timers, e # Pump, NEW n \in Event,
           S.event[e].kind = "close"
    PROVE  LET T == [Ended(S, e, n) EXCEPT !.open = FALSE]
           IN Sound(T, {e}) /\ Waiting(T) /\ Alters(S, T)
<1> DEFINE U == Ended(S, e, n)
           T == [U EXCEPT !.open = FALSE]
<1>1. Sound(U, {e}) /\ Gone(S, U, e)
      /\ U.open = S.open /\ U.step = S.step /\ U.checking = S.checking
    BY EndedSound
<1> HIDE DEF U
<1>2. IsState(U) /\ U.corrupt = FALSE /\ U.step \in Nat \cup {None}
      /\ U.checking \in BOOLEAN \cup {None}
    BY <1>1 DEF Sound, Shape
<1>3. Is(T, U.event, U.timers, U.spell, U.asked, FALSE, U.step, U.checking, U.corrupt)
    BY <1>2, SetOpen
<1> HIDE DEF T
<1>4. IsState(T) /\ T.event = U.event /\ T.timers = U.timers /\ T.spell = U.spell
      /\ T.asked = U.asked /\ T.corrupt = FALSE /\ T.open = FALSE /\ T.step = U.step
      /\ T.checking = U.checking
    BY Zenon, <1>2, <1>3 DEF Is
<1>5. Sound(T, {e})
    BY <1>1, <1>2, <1>4, SoundSame
<1>6. Gone(S, T, e)
    BY <1>1, <1>4 DEF Gone
<1>7. Alters(S, T) /\ \A K : Of(T, K) = Of(S, K) \ {e}
    BY <1>6, GoneOf
<1>8. Of(T, {"evacuate"}) = Of(S, {"evacuate"}) /\ Of(T, Chain) = Of(S, Chain)
    BY <1>7 DEF Of, Chain
<1>9. \A x \in Of(T, {"evacuate"}) : T.event[x] = S.event[x]
    BY <1>6 DEF Gone, Of
<1>10. EvacuationWaits(T)
    BY <1>1, <1>4, <1>8, <1>9, EvacuationKept DEF Waiting
<1>11. CheckWaits(T)
    BY <1>1, <1>4, <1>8, CheckKept DEF Waiting
<1>12. DoorsWait(T)
    BY <1>4 DEF DoorsWait
<1> QED BY <1>5, <1>7, <1>10, <1>11, <1>12 DEF Waiting, T, U

LEMMA RequestSound ==
    ASSUME NEW S, Sound(S, {}), Waiting(S), NEW e \in S.timers, e # Pump, NEW n \in Event,
           S.event[e].kind = "request"
    PROVE  LET T == [Ended(S, e, n) EXCEPT !.checking = TRUE]
           IN Sound(T, {e}) /\ Waiting(T) /\ Alters(S, T)
<1> DEFINE U == Ended(S, e, n)
           T == [U EXCEPT !.checking = TRUE]
<1>1. Sound(U, {e}) /\ Gone(S, U, e)
      /\ U.open = S.open /\ U.step = S.step /\ U.checking = S.checking
    BY EndedSound
<1> HIDE DEF U
<1>2. IsState(U) /\ U.corrupt = FALSE /\ U.step \in Nat \cup {None} /\ U.open \in BOOLEAN
    BY <1>1 DEF Sound, Shape
<1>3. Is(T, U.event, U.timers, U.spell, U.asked, U.open, U.step, TRUE, U.corrupt)
    BY <1>2, SetChecking
<1> HIDE DEF T
<1>4. IsState(T) /\ T.event = U.event /\ T.timers = U.timers /\ T.spell = U.spell
      /\ T.asked = U.asked /\ T.corrupt = FALSE /\ T.open = U.open /\ T.step = U.step
      /\ T.checking = TRUE
    BY Zenon, <1>2, <1>3 DEF Is
<1>5. Sound(T, {e})
    BY <1>1, <1>2, <1>4, SoundSame
<1>6. Gone(S, T, e)
    BY <1>1, <1>4 DEF Gone
<1>7. Alters(S, T) /\ \A K : Of(T, K) = Of(S, K) \ {e}
    BY <1>6, GoneOf
<1>8. Of(T, {"evacuate"}) = Of(S, {"evacuate"}) /\ Of(T, {"close"}) = Of(S, {"close"})
    BY <1>7 DEF Of
<1>9. \A x \in Of(T, {"evacuate"}) : T.event[x] = S.event[x]
    BY <1>6 DEF Gone, Of
<1>10. EvacuationWaits(T)
    BY <1>1, <1>4, <1>8, <1>9, EvacuationKept DEF Waiting
<1>11. CheckWaits(T)
    <2>1. e \in Of(S, Chain)
        BY DEF Of, Chain
    <2>2. Of(S, Chain) = {e}
        BY <2>1 DEF Waiting, CheckWaits
    <2> QED BY <1>4, <1>7, <2>2 DEF CheckWaits
<1>12. DoorsWait(T)
    BY <1>1, <1>4, <1>8 DEF Waiting, DoorsWait
<1> QED BY <1>5, <1>7, <1>10, <1>11, <1>12 DEF Waiting, T, U

\* One event of the chain makes way for the next.
LEMMA CleanupSound ==
    ASSUME NEW S, Sound(S, {}), Waiting(S), NEW e \in S.timers, e # Pump, NEW n \in Event,
           S.event[e].kind = "cleanup", NEW f \in Unused(Ended(S, e, n))
    PROVE  LET T == Register(Ended(S, e, n), f, "request", None, 1)
           IN Sound(T, {e}) /\ Waiting(T) /\ Alters(S, T)
<1> DEFINE U == Ended(S, e, n)
           T == Register(U, f, "request", None, 1)
<1>1. Sound(U, {e}) /\ Gone(S, U, e)
      /\ U.open = S.open /\ U.step = S.step /\ U.checking = S.checking
    BY EndedSound
<1>2. f \in Address /\ U.event[f] = None
    BY DEF Unused, Free
<1> HIDE DEF U
<1>3. Sound(T, {e}) /\ Adds(U, T, f, "request", 1)
      /\ T.open = U.open /\ T.step = U.step /\ T.checking = U.checking
    <2>1. "request" \in Kind \ {"cast"} /\ 1 \in Int /\ 1 # 0
        BY DEF Kind
    <2>2. "request" # "evacuate" => 1 = IF "request" = "spikes" THEN Forever ELSE 1
        OBVIOUS
    <2> QED BY <1>1, <1>2, <2>1, <2>2, RegisterSound
<1> HIDE DEF T
<1>4. Alters(S, U) /\ \A K : Of(U, K) = Of(S, K) \ {e}
    BY <1>1, GoneOf
<1>5. Alters(U, T) /\ Of(T, {"evacuate"}) = Of(U, {"evacuate"})
      /\ Of(T, {"close"}) = Of(U, {"close"}) /\ Of(T, Chain) = Of(U, Chain) \cup {f}
    BY <1>3, AddsOf DEF Chain
<1>6. Of(T, {"evacuate"}) = Of(S, {"evacuate"}) /\ Of(T, {"close"}) = Of(S, {"close"})
    <2>1. e \notin Of(S, {"evacuate"}) /\ e \notin Of(S, {"close"})
        BY DEF Of
    <2> QED BY <1>4, <1>5, <2>1
<1>7. \A x \in Of(T, {"evacuate"}) : T.event[x] = S.event[x]
    <2>1. \A x \in Of(U, {"evacuate"}) : x \in U.timers
        BY DEF Of
    <2> QED BY <1>1, <1>3, <1>5, <2>1 DEF Gone, Adds
<1>8. EvacuationWaits(T)
    BY <1>1, <1>3, <1>6, <1>7, EvacuationKept DEF Waiting
<1>9. CheckWaits(T)
    <2>1. e \in Of(S, Chain)
        BY DEF Of, Chain
    <2>2. Of(S, Chain) = {e} /\ S.checking = FALSE
        BY <2>1 DEF Waiting, CheckWaits
    <2>3. Of(T, Chain) = {f} /\ f \in T.timers
        BY <1>3, <1>4, <1>5, <2>2 DEF Adds
    <2> QED BY <1>1, <1>3, <2>2, <2>3 DEF CheckWaits
<1>10. DoorsWait(T)
    BY <1>1, <1>3, <1>6 DEF Waiting, DoorsWait
<1>11. Alters(S, T)
    BY <1>4, <1>5, AltersTwice
<1> QED BY <1>3, <1>8, <1>9, <1>10, <1>11 DEF Waiting, T, U

\* A step of an evacuation, the last of which is to jail those who are still there.
Stays(S, T) ==
    /\ T.timers \subseteq S.timers
    /\ \A x \in T.timers : T.event[x] = S.event[x]
    /\ \A x \in S.timers : S.event[x].kind # "cast" => x \in T.timers

LEMMA StaysOf ==
    ASSUME NEW S, NEW T, Stays(S, T)
    PROVE  /\ Alters(S, T) /\ Of(T, {"close"}) = Of(S, {"close"})
           /\ Of(T, {"evacuate"}) = Of(S, {"evacuate"}) /\ Of(T, Chain) = Of(S, Chain)
           /\ \A x \in Of(T, {"evacuate"}) : T.event[x] = S.event[x]
<1>1. \A K : "cast" \notin K => Of(T, K) = Of(S, K)
    BY DEF Stays, Of
<1>2. Alters(S, T) /\ \A x \in Of(T, {"evacuate"}) : T.event[x] = S.event[x]
    BY DEF Stays, Alters, Of
<1> QED BY <1>1, <1>2 DEF Chain

LEMMA EvacuatedSound ==
    ASSUME NEW S, NEW E, Sound(S, E), S.step \in Nat, NEW T \in Evacuated(S)
    PROVE  /\ Sound(T, E) /\ Stays(S, T) /\ T.open = S.open /\ T.checking = S.checking
           /\ T.step = IF S.step > 0 THEN S.step - 1 ELSE None
<1>1. CASE S.step > 0
    <2>1. T = [S EXCEPT !.step = S.step - 1]
        BY <1>1 DEF Evacuated
    <2>2. IsState(S) /\ Shape(S) /\ S.corrupt = FALSE
        BY DEF Sound, Shape
    <2>3. Is([S EXCEPT !.step = S.step - 1], S.event, S.timers, S.spell, S.asked, S.open,
             S.step - 1, S.checking, S.corrupt)
        BY <2>2, SetStep
    <2>4. IsState(T) /\ T.event = S.event /\ T.timers = S.timers /\ T.spell = S.spell
          /\ T.asked = S.asked /\ T.open = S.open /\ T.step = S.step - 1
          /\ T.checking = S.checking /\ T.corrupt = FALSE
        BY Zenon, <2>1, <2>2, <2>3 DEF Is
    <2>5. S.step - 1 \in Nat
        BY <1>1
    <2>6. Sound(T, E)
        BY <2>2, <2>4, <2>5, SoundSame DEF Shape
    <2> QED BY <1>1, <2>4, <2>6 DEF Stays
<1>2. CASE ~(S.step > 0)
    <2>1. PICK V \in Jailed(S) : T = [V EXCEPT !.step = None]
        BY Zenon, <1>2 DEF Evacuated
    <2>2. Sound(V, E) /\ Cancels(S, V)
        BY Zenon, <2>1, JailedSound
    <2>3. IsState(V) /\ Shape(V) /\ V.corrupt = FALSE
        BY <2>2 DEF Sound, Shape
    <2>4. Is([V EXCEPT !.step = None], V.event, V.timers, V.spell, V.asked, V.open, None,
             V.checking, V.corrupt)
        BY <2>3, SetStep
    <2>5. IsState(T) /\ T.event = V.event /\ T.timers = V.timers /\ T.spell = V.spell
          /\ T.asked = V.asked /\ T.open = V.open /\ T.step = None
          /\ T.checking = V.checking /\ T.corrupt = FALSE
        BY Zenon, <2>1, <2>3, <2>4 DEF Is
    <2>6. Sound(T, E)
        BY <2>2, <2>3, <2>5, SoundSame DEF Shape
    <2> QED BY <1>2, <2>2, <2>5, <2>6 DEF Stays, Cancels
<1> QED BY <1>1, <1>2

LEMMA EvacuationEnds ==
    ASSUME NEW S, Sound(S, {}), Waiting(S), NEW e \in S.timers, e # Pump, NEW n \in Event,
           S.event[e].kind = "evacuate", S.event[e].lifetime = 1,
           NEW T \in Evacuated(Ended(S, e, n))
    PROVE  Sound(T, {e}) /\ Waiting(T) /\ Alters(S, T)
<1> DEFINE U == Ended(S, e, n)
<1>1. Sound(U, {e}) /\ Gone(S, U, e)
      /\ U.open = S.open /\ U.step = S.step /\ U.checking = S.checking
    BY EndedSound
<1>2. e \in Of(S, {"evacuate"})
    BY DEF Of
<1>3. Of(S, {"evacuate"}) = {e} /\ S.step # None /\ S.event[e].lifetime = S.step + 1
    BY <1>2 DEF Waiting, EvacuationWaits
<1>4. S.step = 0
    BY <1>3 DEF Sound, Shape
<1> HIDE DEF U
<1>5. Sound(T, {e}) /\ Stays(U, T) /\ T.open = U.open /\ T.checking = U.checking
      /\ T.step = None
    <2>1. U.step \in Nat /\ ~(U.step > 0) /\ T \in Evacuated(U)
        BY <1>1, <1>4 DEF U
    <2> QED BY <1>1, <2>1, EvacuatedSound
<1>6. Alters(S, U) /\ \A K : Of(U, K) = Of(S, K) \ {e}
    BY <1>1, GoneOf
<1>7. Alters(U, T) /\ Of(T, {"close"}) = Of(U, {"close"})
      /\ Of(T, {"evacuate"}) = Of(U, {"evacuate"}) /\ Of(T, Chain) = Of(U, Chain)
    BY <1>5, StaysOf
<1>8. Of(T, {"close"}) = Of(S, {"close"}) /\ Of(T, {"evacuate"}) = {}
      /\ Of(T, Chain) = Of(S, Chain)
    <2>1. e \notin Of(S, {"close"}) /\ e \notin Of(S, Chain)
        BY DEF Of, Chain
    <2> QED BY <1>3, <1>6, <1>7, <2>1
<1>9. EvacuationWaits(T)
    BY <1>5, <1>8 DEF EvacuationWaits
<1>10. CheckWaits(T)
    BY <1>1, <1>5, <1>8, CheckKept DEF Waiting
<1>11. DoorsWait(T)
    BY <1>1, <1>5, <1>8 DEF Waiting, DoorsWait
<1>12. Alters(S, T)
    BY <1>6, <1>7, AltersTwice
<1> QED BY <1>5, <1>9, <1>10, <1>11, <1>12 DEF Waiting

\* All but the event that is called.
AltersBut(S, T, e) ==
    \A x \in T.timers \ {e} :
        (x \in S.timers /\ T.event[x] = S.event[x]) \/ T.event[x].age = 0

LEMMA EvacuationGoes ==
    ASSUME NEW S, Sound(S, {}), Waiting(S), NEW e \in S.timers, e # Pump, NEW n \in Event,
           S.event[e].kind = "evacuate", S.event[e].lifetime # 1,
           n.kind = "evacuate", n.param = S.event[e].param,
           n.lifetime = S.event[e].lifetime - 1,
           NEW T \in Evacuated([S EXCEPT !.event[e] = n])
    PROVE  /\ Sound(T, {}) /\ Waiting(T) /\ AltersBut(S, T, e)
           /\ e \in T.timers /\ T.event[e] = n
<1> DEFINE U == [S EXCEPT !.event[e] = n]
<1>1. /\ Sound(U, {}) /\ U.event[e] = n /\ U.timers = S.timers
      /\ U.open = S.open /\ U.step = S.step /\ U.checking = S.checking
      /\ \A x \in S.timers \ {e} : U.event[x] = S.event[x]
      /\ \A K : Of(U, K) = Of(S, K)
    BY KeptSound
<1>2. e \in Of(S, {"evacuate"})
    BY DEF Of
<1>3. Of(S, {"evacuate"}) = {e} /\ S.step # None /\ S.event[e].lifetime = S.step + 1
    BY <1>2 DEF Waiting, EvacuationWaits
<1>4. S.step \in Nat /\ S.step > 0
    BY <1>3 DEF Sound, Shape
<1> HIDE DEF U
<1>5. Sound(T, {}) /\ Stays(U, T) /\ T.open = U.open /\ T.checking = U.checking
      /\ T.step = S.step - 1
    <2>1. T \in Evacuated(U)
        BY DEF U
    <2> QED BY <1>1, <1>4, <2>1, EvacuatedSound
<1>6. Of(T, {"close"}) = Of(S, {"close"}) /\ Of(T, {"evacuate"}) = {e}
      /\ Of(T, Chain) = Of(S, Chain)
    BY <1>1, <1>3, <1>5, StaysOf
<1>7. e \in T.timers /\ T.event[e] = n
    BY <1>1, <1>5, <1>6 DEF Of, Stays
<1>8. EvacuationWaits(T)
    <2>1. T.step # None /\ T.step + 1 = n.lifetime
        BY <1>3, <1>4, <1>5, NotNone
    <2> QED BY <1>6, <1>7, <2>1 DEF EvacuationWaits
<1>9. CheckWaits(T)
    BY <1>1, <1>5, <1>6, CheckKept DEF Waiting
<1>10. DoorsWait(T)
    BY <1>1, <1>5, <1>6 DEF Waiting, DoorsWait
<1>11. AltersBut(S, T, e)
    BY <1>1, <1>5 DEF Stays, AltersBut
<1> QED BY <1>5, <1>7, <1>8, <1>9, <1>10, <1>11 DEF Waiting

LEMMA SpikesSound ==
    ASSUME NEW S, Sound(S, {}), Waiting(S), NEW e \in S.timers, e # Pump, NEW n \in Event,
           S.event[e].kind = "spikes", n.kind = "spikes", n.param = S.event[e].param,
           n.lifetime = Forever, NEW T \in Jailed([S EXCEPT !.event[e] = n])
    PROVE  /\ Sound(T, {}) /\ Waiting(T) /\ AltersBut(S, T, e)
           /\ e \in T.timers /\ T.event[e] = n
<1> DEFINE U == [S EXCEPT !.event[e] = n]
<1>1. /\ Sound(U, {}) /\ U.event[e] = n /\ U.timers = S.timers
      /\ U.open = S.open /\ U.step = S.step /\ U.checking = S.checking
      /\ \A x \in S.timers \ {e} : U.event[x] = S.event[x]
      /\ \A K : Of(U, K) = Of(S, K)
    BY KeptSound
<1> HIDE DEF U
<1>2. Sound(T, {}) /\ Cancels(U, T)
    <2>1. T \in Jailed(U)
        BY DEF U
    <2> QED BY <1>1, <2>1, JailedSound
<1>3. Waiting(U)
    <2>1. \A x \in Of(U, {"evacuate"}) : U.event[x] = S.event[x]
        BY <1>1 DEF Of
    <2>2. EvacuationWaits(U)
        BY <1>1, <2>1, EvacuationKept DEF Waiting
    <2>3. CheckWaits(U)
        BY <1>1, CheckKept DEF Waiting
    <2>4. DoorsWait(U)
        BY <1>1 DEF Waiting, DoorsWait
    <2> QED BY <2>2, <2>3, <2>4 DEF Waiting
<1>4. Waiting(T)
    BY <1>2, <1>3, CancelsWaiting
<1>5. e \in T.timers /\ T.event[e] = n
    BY <1>1, <1>2 DEF Cancels
<1>6. AltersBut(S, T, e)
    BY <1>1, <1>2 DEF Cancels, AltersBut
<1> QED BY <1>2, <1>4, <1>5, <1>6

LEMMA LivedFields ==
    ASSUME NEW m \in Event
    PROVE  LET n == Lived(m)
           IN /\ n \in Event /\ n.kind = m.kind /\ n.param = m.param /\ n.speed = m.speed
              /\ n.age = m.age - m.speed
              /\ n.lifetime = IF m.lifetime = Forever THEN Forever ELSE m.lifetime - 1
<1> DEFINE lifetime == IF m.lifetime = Forever THEN Forever ELSE m.lifetime - 1
           age == m.age - m.speed
           U == [m EXCEPT !.age = age]
<1>1. m.age \in Int /\ m.speed \in Nat /\ m.lifetime \in Int /\ lifetime \in Int /\ age \in Int
    BY DEF Event, Forever
<1>2. Lived(m) = [U EXCEPT !.lifetime = lifetime]
    <2>1. U.lifetime = m.lifetime
        BY DEF Event
    <2> QED BY <2>1 DEF Lived
<1> HIDE DEF lifetime, age
<1>3. U \in Event /\ U.kind = m.kind /\ U.param = m.param /\ U.speed = m.speed /\ U.age = age
    BY <1>1 DEF Event
<1> HIDE DEF U
<1>4. LET n == [U EXCEPT !.lifetime = lifetime]
      IN /\ n \in Event /\ n.kind = U.kind /\ n.param = U.param /\ n.speed = U.speed
         /\ n.age = U.age /\ n.lifetime = lifetime
    BY <1>1, <1>3 DEF Event
<1> QED BY <1>2, <1>3, <1>4 DEF lifetime, age

\* Whatever is called, those who wait for their events find them, its own is gone at the
\* end of its life, and no other is touched but by new ones.
LEMMA CalledSound ==
    ASSUME NEW S, Sound(S, {}), Waiting(S), NEW e \in S.timers, e # Pump, NEW n,
           n = Lived(S.event[e]), NEW T,
           T \in Callback(IF n.lifetime = 0 THEN Ended(S, e, n) ELSE [S EXCEPT !.event[e] = n],
                          n.kind, n.param)
    PROVE  LET R == IF e \in T.timers THEN T ELSE Delete(T, e)
           IN /\ Sound(R, {}) /\ Waiting(R) /\ AltersBut(S, R, e)
              /\ S.event[e].lifetime = 1 => e \notin R.timers
              /\ S.event[e].lifetime # 1 => e \in R.timers /\ R.event[e] = n
<1> DEFINE R == IF e \in T.timers THEN T ELSE Delete(T, e)
           m == S.event[e]
           S1 == Ended(S, e, n)
           S2 == [S EXCEPT !.event[e] = n]
<1>1. m \in Event /\ m.lifetime \in Int /\ e \in Address /\ m.kind \in Kind
    <2>1. m \in Event /\ m.lifetime \in Int /\ e \in Address /\ m.kind \in Kind \cup {"pump"}
        BY EventsOf DEF Sound
    <2>2. m.kind # "pump"
        BY DEF Sound, Registered
    <2> QED BY <2>1, <2>2
<1>2. /\ n \in Event /\ n.kind = m.kind /\ n.param = m.param
      /\ n.lifetime = IF m.lifetime = Forever THEN Forever ELSE m.lifetime - 1
    BY <1>1, LivedFields
<1>3. m.lifetime = 1 <=> n.lifetime = 0
    BY <1>1, <1>2 DEF Forever
<1>4. m.kind \notin {"evacuate", "spikes"} => m.lifetime = 1
    BY <1>1 DEF Sound, Registered, Kind
<1>5. m.kind = "spikes" => m.lifetime = Forever
    BY DEF Sound, Registered
<1>6. m.kind = "evacuate" => S.step \in Nat /\ m.lifetime = S.step + 1 /\ m.lifetime # Forever
    <2> SUFFICES ASSUME m.kind = "evacuate"
                 PROVE  S.step \in Nat /\ m.lifetime = S.step + 1 /\ m.lifetime # Forever
        OBVIOUS
    <2>1. e \in Of(S, {"evacuate"})
        BY DEF Of
    <2>2. S.step # None /\ m.lifetime = S.step + 1
        BY <2>1 DEF Waiting, EvacuationWaits
    <2> QED BY <2>2 DEF Sound, Shape, Forever
<1> HIDE DEF R, m, S1, S2
<1>7. T \in Callback(IF n.lifetime = 0 THEN S1 ELSE S2, m.kind, m.param)
    BY <1>2 DEF S1, S2
<1>8. CASE m.lifetime = 1
    <2>1. T \in Callback(S1, m.kind, m.param)
        BY <1>3, <1>7, <1>8
    <2>2. Sound(T, {e}) /\ Waiting(T) /\ Alters(S, T)
        <3>1. CASE m.kind = "cast"
            <4>1. T \in Cast(S1, m.param)
                BY <2>1, <3>1 DEF Callback
            <4> QED BY <1>2, <3>1, <4>1, CastSound DEF S1, m
        <3>2. CASE m.kind = "close"
            <4>1. T = [S1 EXCEPT !.open = FALSE]
                BY <2>1, <3>2 DEF Callback
            <4> QED BY <1>2, <3>2, <4>1, CloseSound DEF S1, m
        <3>3. CASE m.kind = "evacuate"
            <4>1. S1.step = S.step
                BY <1>2, <3>3, EndedSound DEF S1, m
            <4>2. S1.step # None
                BY <1>6, <3>3, <4>1, NotNone
            <4>3. T \in Evacuated(S1)
                BY <2>1, <3>3, <4>2 DEF Callback
            <4> QED BY <1>2, <1>8, <3>3, <4>3, EvacuationEnds DEF S1, m
        <3>4. CASE m.kind = "cleanup"
            <4>1. PICK f \in Unused(S1) : T = Register(S1, f, "request", None, 1)
                BY <2>1, <3>4 DEF Callback
            <4> QED BY <1>2, <3>4, <4>1, CleanupSound DEF S1, m
        <3>5. CASE m.kind = "request"
            <4>1. T = [S1 EXCEPT !.checking = TRUE]
                BY <2>1, <3>5 DEF Callback
            <4> QED BY <1>2, <3>5, <4>1, RequestSound DEF S1, m
        <3>6. m.kind # "spikes"
            BY <1>5, <1>8 DEF Forever
        <3> QED BY <1>1, <3>1, <3>2, <3>3, <3>4, <3>5, <3>6 DEF Kind
    <2>3. e \notin T.timers
        BY <2>2 DEF Sound, Held
    <2>4. R = Delete(T, e)
        BY <2>3 DEF R
    <2>5. Sound(R, {}) /\ Cancels(T, R) /\ e \notin R.timers
        BY <1>1, <2>2, <2>4, DeletedSound
    <2>6. Waiting(R) /\ Alters(T, R)
        BY <2>2, <2>5, CancelsWaiting
    <2>7. Alters(S, R)
        BY <2>2, <2>6, AltersTwice
    <2>8. AltersBut(S, R, e)
        BY <2>7 DEF Alters, AltersBut
    <2> QED BY <1>8, <2>5, <2>6, <2>8 DEF R, m
<1>9. CASE m.lifetime # 1
    <2>1. T \in Callback(S2, m.kind, m.param)
        BY <1>3, <1>7, <1>9
    <2>2. Sound(T, {}) /\ Waiting(T) /\ AltersBut(S, T, e) /\ e \in T.timers /\ T.event[e] = n
        <3>1. CASE m.kind = "evacuate"
            <4>1. S2.step = S.step
                <5>1. IsState(S)
                    BY DEF Sound, Shape
                <5>2. Is(S2, [S.event EXCEPT ![e] = n], S.timers, S.spell, S.asked, S.open,
                         S.step, S.checking, S.corrupt)
                    BY <5>1, SetEvent DEF S2
                <5> QED BY <5>2 DEF Is
            <4>2. S2.step # None
                BY <1>6, <3>1, <4>1, NotNone
            <4>3. T \in Evacuated(S2)
                BY <2>1, <3>1, <4>2 DEF Callback
            <4>4. n.lifetime = m.lifetime - 1
                BY <1>2, <1>6, <3>1
            <4> QED BY <1>2, <1>9, <3>1, <4>3, <4>4, EvacuationGoes DEF S2, m
        <3>2. CASE m.kind = "spikes"
            <4>1. T \in Jailed(S2)
                BY <2>1, <3>2 DEF Callback
            <4>2. n.lifetime = Forever
                BY <1>2, <1>5, <3>2
            <4> QED BY <1>2, <3>2, <4>1, <4>2, SpikesSound DEF S2, m
        <3> QED BY <1>4, <1>9, <3>1, <3>2
    <2>3. R = T
        BY <2>2 DEF R
    <2> QED BY <1>9, <2>2, <2>3 DEF R, m
<1> QED BY <1>8, <1>9

-----------------------------------------------------------------------------
(***************************************************************************)
(* Handlers, and the thread of a check-in.                                 *)
(***************************************************************************)

Kept(S, T) == Sound(T, {}) /\ Waiting(T) /\ Alters(S, T)

LEMMA MemoryFields ==
    /\ Memory.event = event /\ Memory.timers = timers /\ Memory.changed = changed
    /\ Memory.spell = spell /\ Memory.asked = asked /\ Memory.open = open
    /\ Memory.step = step /\ Memory.checking = checking /\ Memory.corrupt = corrupt
    /\ IsState(Memory)
BY DEF Memory, IsState, State

LEMMA BecomeKept ==
    ASSUME NEW T, Kept(Memory, T), Become(T)
    PROVE  Kept(Memory, Memory') /\ Memory' = T
<1>1. IsState(T)
    BY DEF Kept, Sound, Shape
<1>2. Memory' = State(event', timers', changed', spell', asked', open', step', checking',
                      corrupt')
    BY DEF Memory, State
<1>3. Memory' = T
    BY Zenon, <1>1, <1>2 DEF Become, IsState
<1> QED BY Zenon, <1>3

LEMMA KeptTwice ==
    ASSUME NEW S, NEW T, NEW U, Kept(S, T), Kept(T, U)
    PROVE  Kept(S, U)
BY AltersTwice DEF Kept

LEMMA CancelsKept ==
    ASSUME NEW S, Waiting(S), NEW T, Sound(T, {}), Cancels(S, T)
    PROVE  Kept(S, T)
BY CancelsWaiting DEF Kept

LEMMA CancelKept ==
    ASSUME NEW S, Sound(S, {}), Waiting(S), NEW c \in Char, S.spell[c] # None
    PROVE  Kept(S, CancelSpell(S, c)) /\ CancelSpell(S, c).spell[c] = NoSpell
<1>1. Sound(CancelSpell(S, c), {}) /\ Cancels(S, CancelSpell(S, c))
      /\ CancelSpell(S, c).spell[c] = NoSpell
    BY CancelSound
<1> QED BY Zenon, <1>1, CancelsKept

LEMMA StaysKept ==
    ASSUME NEW S, Waiting(S), NEW T, Sound(T, {}), Stays(S, T),
           T.open = S.open, T.step = S.step, T.checking = S.checking
    PROVE  Kept(S, T)
<1>1. /\ Alters(S, T) /\ Of(T, {"close"}) = Of(S, {"close"})
      /\ Of(T, {"evacuate"}) = Of(S, {"evacuate"}) /\ Of(T, Chain) = Of(S, Chain)
      /\ \A x \in Of(T, {"evacuate"}) : T.event[x] = S.event[x]
    BY StaysOf
<1>2. EvacuationWaits(T)
    BY <1>1, EvacuationKept DEF Waiting
<1>3. CheckWaits(T)
    BY <1>1, CheckKept DEF Waiting
<1>4. DoorsWait(T)
    BY <1>1 DEF Waiting, DoorsWait
<1> QED BY <1>1, <1>2, <1>3, <1>4 DEF Kept, Waiting

\* A character that casts nothing enters the world or leaves it.
LEMMA EnterKept ==
    ASSUME NEW S, Sound(S, {}), Waiting(S), NEW c \in Char, ~Casting(S, c),
           NEW s \in {NoSpell, None}
    PROVE  Kept(S, [S EXCEPT !.spell[c] = s])
<1> DEFINE T == [S EXCEPT !.spell[c] = s]
           casts == [S.spell EXCEPT ![c] = s]
<1>1. Shape(S) /\ Held(S, {}) /\ IsState(S) /\ S.corrupt = FALSE
    BY DEF Sound, Shape
<1>2. Is(T, S.event, S.timers, casts, S.asked, S.open, S.step, S.checking, S.corrupt)
    BY <1>1, SetSpell
<1> HIDE DEF T
<1>3. /\ IsState(T) /\ T.event = S.event /\ T.timers = S.timers /\ T.spell = casts
      /\ T.asked = S.asked /\ T.open = S.open /\ T.step = S.step /\ T.checking = S.checking
      /\ T.corrupt = FALSE
    BY Zenon, <1>1, <1>2 DEF Is
<1>4. casts \in [Char -> Spell \cup {None}] /\ casts[c] = s /\ (s # None => s.event = None)
      /\ \A d \in Char \ {c} : casts[d] = S.spell[d]
    BY <1>1, NotNone DEF Shape
<1> HIDE DEF casts
<1>5. Shape(T) /\ Held(T, {})
    BY <1>1, <1>3, <1>4 DEF Shape, Held
<1>6. ASSUME NEW d \in Char, Casting(T, d) PROVE Casts(T, d)
    <2>1. d # c
        BY <1>3, <1>4, <1>6 DEF Casting
    <2>2. Casts(S, d)
        BY <1>3, <1>4, <1>6, <2>1 DEF Sound, Casting
    <2> QED BY <1>3, <1>4, <2>1, <2>2 DEF Casts
<1>7. ASSUME NEW x \in T.timers PROVE Registered(T, x)
    <2>1. Registered(S, x) /\ x # None
        BY <1>1, <1>3, NotNone DEF Sound, Shape
    <2>2. S.event[x].kind = "cast" => S.event[x].param # c
        BY <2>1 DEF Registered, Casting
    <2> QED BY <1>3, <1>4, <2>1, <2>2 DEF Registered
<1>8. Sound(T, {}) /\ Stays(S, T)
    BY <1>3, <1>5, <1>6, <1>7 DEF Sound, Stays
<1> QED BY <1>3, <1>8, StaysKept DEF T

LEMMA Spell_RequestKept ==
    ASSUME Sound(Memory, {}), Waiting(Memory), NEW c \in Char, Spell_Request(c)
    PROVE  Kept(Memory, Memory')
<1> DEFINE free == CancelSpell(Memory, c)
<1>1. Kept(Memory, free) /\ free.spell[c] = NoSpell
    BY CancelKept, MemoryFields DEF Spell_Request
<1>2. \/ Become(free)
      \/ \E e \in Allocated(free) :
            Become([Register(free, e, "cast", c, 1) EXCEPT !.spell[c].event = e,
                                                           !.asked[c] = 0])
    BY Zenon DEF Spell_Request
<1> HIDE DEF free
<1>3. CASE Become(free)
    BY Zenon, <1>1, <1>3, BecomeKept
<1>4. ASSUME NEW e \in Allocated(free),
             Become([Register(free, e, "cast", c, 1) EXCEPT !.spell[c].event = e,
                                                            !.asked[c] = 0])
      PROVE  Kept(Memory, Memory')
    <2> DEFINE T == [Register(free, e, "cast", c, 1) EXCEPT !.spell[c].event = e,
                                                            !.asked[c] = 0]
    <2>1. e \in Address /\ free.event[e] = None
        BY DEF Allocated, Unused, Free
    <2>2. Sound(T, {}) /\ Adds(free, T, e, "cast", 1)
          /\ T.open = free.open /\ T.step = free.step /\ T.checking = free.checking
        BY Zenon, <1>1, <2>1, AskedSound DEF Kept
    <2>3. Become(T)
        BY Zenon, <1>4
    <2> HIDE DEF T
    <2>4. Kept(free, T)
        BY <1>1, <2>2, AddsOf, AddsWaiting DEF Kept
    <2>5. Kept(Memory, T)
        BY <1>1, <2>4, KeptTwice
    <2> QED BY Zenon, <2>3, <2>5, BecomeKept
<1> QED BY Zenon, <1>2, <1>3, <1>4

LEMMA Spell_TargetKept ==
    ASSUME Sound(Memory, {}), Waiting(Memory), NEW c \in Char, Spell_Target(c)
    PROVE  Kept(Memory, Memory')
<1> DEFINE s == [spell[c] EXCEPT !.target = TRUE]
           aimed == [Memory EXCEPT !.spell[c].target = TRUE]
<1>1. spell[c] \in Spell /\ Memory.spell[c] # None /\ Memory.spell[c] = spell[c]
    BY MemoryFields DEF Spell_Target, Sound, Shape
<1>2. s \in Spell /\ s.event = spell[c].event /\ s.ready = spell[c].ready
    <2>1. \A x \in Spell : LET y == [x EXCEPT !.target = TRUE]
                           IN y \in Spell /\ y.event = x.event /\ y.ready = x.ready
        BY DEF Spell
    <2> QED BY <1>1, <2>1
<1>3. aimed = [Memory EXCEPT !.spell[c] = s]
    BY Zenon, <1>1
<1>4. \/ Become(CancelSpell(Memory, c)) \/ Become(aimed)
      \/ \E S \in SpellAct(aimed, c) : Become(S)
    BY Zenon DEF Spell_Target
<1> HIDE DEF aimed, s
<1>5. spell[c].event # None => spell[c].ready = FALSE
    BY <1>1, MemoryFields DEF Sound, Casting, Casts
<1>6. Sound(aimed, {}) /\ Cancels(Memory, aimed) /\ aimed.spell[c] = s /\ aimed.spell[c] # None
    <2> DEFINE T == [Memory EXCEPT !.spell[c] = s]
    <2>1. s.event = Memory.spell[c].event /\ (s.event # None => s.ready = FALSE)
        BY <1>1, <1>2, <1>5
    <2>2. Sound(T, {}) /\ Cancels(Memory, T) /\ T.spell[c] = s
        BY Zenon, <1>1, <1>2, <2>1, SpellSound
    <2>3. s # None
        BY <1>2, NotNone
    <2> QED BY Zenon, <1>3, <2>2, <2>3
<1>7. Kept(Memory, aimed)
    BY <1>6, CancelsKept
<1>8. CASE Become(CancelSpell(Memory, c))
    BY Zenon, <1>1, <1>8, CancelKept, BecomeKept
<1>9. CASE Become(aimed)
    BY Zenon, <1>7, <1>9, BecomeKept
<1>10. ASSUME NEW S \in SpellAct(aimed, c), Become(S) PROVE Kept(Memory, Memory')
    <2>1. Sound(S, {}) /\ Cancels(aimed, S)
        BY Zenon, <1>6, SpellActSound
    <2>2. Kept(aimed, S)
        BY <1>7, <2>1, CancelsKept DEF Kept
    <2>3. Kept(Memory, S)
        BY Zenon, <1>7, <2>2, KeptTwice
    <2> QED BY Zenon, <1>10, <2>3, BecomeKept
<1> QED BY Zenon, <1>4, <1>8, <1>9, <1>10

LEMMA MoveKept ==
    ASSUME Sound(Memory, {}), Waiting(Memory), NEW c \in Char,
           Move(c) \/ Login(c) \/ Logout(c)
    PROVE  Kept(Memory, Memory')
<1>1. CASE Move(c)
    <2>1. Kept(Memory, CancelSpell(Memory, c))
        BY <1>1, CancelKept, MemoryFields DEF Move
    <2> QED BY <1>1, <2>1, BecomeKept DEF Move
<1>2. CASE Login(c)
    <2>1. ~Casting(Memory, c)
        BY <1>2, MemoryFields DEF Login, Casting
    <2>2. Kept(Memory, [Memory EXCEPT !.spell[c] = NoSpell])
        BY Zenon, <2>1, EnterKept
    <2> QED BY Zenon, <1>2, <2>2, BecomeKept DEF Login
<1>3. CASE Logout(c)
    <2> DEFINE T == CancelSpell(Memory, c)
    <2>1. Kept(Memory, T) /\ T.spell[c] = NoSpell
        BY <1>3, CancelKept, MemoryFields DEF Logout
    <2>2. Become([T EXCEPT !.spell[c] = None])
        BY Zenon, <1>3 DEF Logout
    <2> HIDE DEF T
    <2>3. ~Casting(T, c)
        BY <2>1, NotNone DEF Casting
    <2>4. Kept(T, [T EXCEPT !.spell[c] = None])
        BY Zenon, <2>1, <2>3, EnterKept DEF Kept
    <2>5. Kept(Memory, [T EXCEPT !.spell[c] = None])
        BY Zenon, <2>1, <2>4, KeptTwice
    <2> QED BY Zenon, <2>2, <2>5, BecomeKept
<1> QED BY <1>1, <1>2, <1>3

LEMMA LoadKept ==
    ASSUME NEW S, Sound(S, {}), Waiting(S), NEW T \in Load(S)
    PROVE  Kept(S, T)
<1>1. CASE T = S
    BY <1>1 DEF Kept, Alters
<1>2. ASSUME NEW e \in Allocated(S), T = Register(S, e, "spikes", None, Forever)
      PROVE  Kept(S, T)
    <2>1. e \in Address /\ S.event[e] = None
        BY DEF Allocated, Unused, Free
    <2>2. "spikes" \in Kind \ {"cast"} /\ Forever \in Int /\ Forever # 0
        BY DEF Kind, Forever
    <2>3. Sound(T, {}) /\ Adds(S, T, e, "spikes", Forever)
          /\ T.open = S.open /\ T.step = S.step /\ T.checking = S.checking
        BY <1>2, <2>1, <2>2, RegisterSound
    <2>4. Waiting(T)
        BY <2>3, AddsWaiting
    <2>5. Alters(S, T)
        BY <2>3, AddsOf
    <2> QED BY <2>3, <2>4, <2>5 DEF Kept
<1> QED BY Zenon, <1>1, <1>2 DEF Load

LEMMA ReloadKept ==
    ASSUME Sound(Memory, {}), Waiting(Memory), Reload
    PROVE  Kept(Memory, Memory')
<1> DEFINE S == [Memory EXCEPT !.open = FALSE]
<1>1. PICK T \in Load(S) : Become(T)
    BY Zenon DEF Reload
<1>2. Is(S, event, timers, spell, asked, FALSE, step, checking, corrupt)
    BY MemoryFields, SetOpen
<1> HIDE DEF S
<1>3. /\ IsState(S) /\ S.event = event /\ S.timers = timers /\ S.spell = spell
      /\ S.asked = asked /\ S.open = FALSE /\ S.step = step /\ S.checking = checking
      /\ S.corrupt = corrupt
    BY Zenon, <1>2 DEF Is
<1>4. Sound(S, {}) /\ \A K : Of(S, K) = Of(Memory, K)
    <2>1. Shape(Memory) /\ corrupt = FALSE
        BY MemoryFields DEF Sound
    <2>2. /\ S.event = Memory.event /\ S.timers = Memory.timers /\ S.spell = Memory.spell
          /\ S.asked = Memory.asked /\ S.step \in Nat \cup {None} /\ S.corrupt = FALSE
          /\ S.open \in BOOLEAN /\ S.checking \in BOOLEAN \cup {None}
        BY <1>3, <2>1, MemoryFields DEF Shape
    <2> QED BY <1>3, <2>2, SoundSame
<1>5. Waiting(S)
    <2>1. EvacuationWaits(S)
        BY <1>3, <1>4, EvacuationKept, MemoryFields DEF Waiting
    <2>2. CheckWaits(S)
        BY <1>3, <1>4, CheckKept, MemoryFields DEF Waiting
    <2> QED BY <1>3, <2>1, <2>2 DEF Waiting, DoorsWait
<1>6. Kept(Memory, S)
    BY <1>3, <1>4, <1>5, MemoryFields DEF Kept, Alters
<1>7. Kept(S, T)
    BY <1>1, <1>4, <1>5, LoadKept
<1>8. Kept(Memory, T)
    BY Zenon, <1>6, <1>7, KeptTwice
<1> QED BY Zenon, <1>1, <1>8, BecomeKept

LEMMA OpenDoorKept ==
    ASSUME Sound(Memory, {}), Waiting(Memory), OpenDoor
    PROVE  Kept(Memory, Memory')
<1>1. PICK e \in Allocated(Memory) :
          Become([Register(Memory, e, "close", None, 1) EXCEPT !.open = TRUE])
    BY Zenon DEF OpenDoor
<1> DEFINE U == Register(Memory, e, "close", None, 1)
           T == [U EXCEPT !.open = TRUE]
<1>2. e \in Address /\ Memory.event[e] = None
    BY DEF Allocated, Unused, Free
<1>3. Sound(U, {}) /\ Adds(Memory, U, e, "close", 1)
      /\ U.open = open /\ U.step = step /\ U.checking = checking
    <2>1. "close" \in Kind \ {"cast"} /\ 1 \in Int /\ 1 # 0
        BY DEF Kind
    <2>2. "close" # "evacuate" => 1 = IF "close" = "spikes" THEN Forever ELSE 1
        OBVIOUS
    <2>3. Sound(U, {}) /\ Adds(Memory, U, e, "close", 1) /\ U.open = Memory.open
          /\ U.step = Memory.step /\ U.checking = Memory.checking
        BY <1>2, <2>1, <2>2, RegisterSound
    <2> HIDE DEF U
    <2> QED BY <2>3, MemoryFields
<1>4. Become(T)
    BY Zenon, <1>1
<1> HIDE DEF U
<1>5. IsState(U) /\ Shape(U) /\ U.corrupt = FALSE
    BY <1>3 DEF Sound, Shape
<1>6. Is(T, U.event, U.timers, U.spell, U.asked, TRUE, U.step, U.checking, U.corrupt)
    BY <1>5, SetOpen
<1> HIDE DEF T
<1>7. /\ IsState(T) /\ T.event = U.event /\ T.timers = U.timers /\ T.spell = U.spell
      /\ T.asked = U.asked /\ T.open = TRUE /\ T.step = U.step /\ T.checking = U.checking
      /\ T.corrupt = FALSE
    BY Zenon, <1>5, <1>6 DEF Is
<1>8. Sound(T, {})
    BY <1>3, <1>5, <1>7, SoundSame DEF Shape
<1>9. Adds(Memory, T, e, "close", 1)
    BY <1>3, <1>7 DEF Adds
<1>10. /\ Alters(Memory, T) /\ Of(T, {"close"}) = Of(Memory, {"close"}) \cup {e}
       /\ Of(T, {"evacuate"}) = Of(Memory, {"evacuate"}) /\ Of(T, Chain) = Of(Memory, Chain)
    BY <1>9, AddsOf DEF Chain
<1>11. \A x \in Of(T, {"evacuate"}) : T.event[x] = Memory.event[x]
    BY <1>9, <1>10 DEF Of, Adds
<1>12. EvacuationWaits(T)
    BY <1>3, <1>7, <1>10, <1>11, EvacuationKept, MemoryFields DEF Waiting
<1>13. CheckWaits(T)
    BY <1>3, <1>7, <1>10, CheckKept, MemoryFields DEF Waiting
<1>14. Kept(Memory, T)
    BY <1>8, <1>10, <1>12, <1>13 DEF Kept, Waiting, DoorsWait
<1> QED BY Zenon, <1>4, <1>14, BecomeKept

LEMMA RequestThreadKept ==
    ASSUME Sound(Memory, {}), Waiting(Memory), RequestThread
    PROVE  Kept(Memory, Memory')
<1>1. PICK e \in Unused(Memory) :
          Become([Register(Memory, e, "cleanup", None, 1) EXCEPT !.checking = FALSE])
    BY Zenon DEF RequestThread
<1> DEFINE U == Register(Memory, e, "cleanup", None, 1)
           T == [U EXCEPT !.checking = FALSE]
<1>2. e \in Address /\ Memory.event[e] = None /\ checking = TRUE
    BY DEF Unused, Free, RequestThread
<1>3. Sound(U, {}) /\ Adds(Memory, U, e, "cleanup", 1)
      /\ U.open = open /\ U.step = step /\ U.checking = checking
    <2>1. "cleanup" \in Kind \ {"cast"} /\ 1 \in Int /\ 1 # 0
        BY DEF Kind
    <2>2. "cleanup" # "evacuate" => 1 = IF "cleanup" = "spikes" THEN Forever ELSE 1
        OBVIOUS
    <2>3. Sound(U, {}) /\ Adds(Memory, U, e, "cleanup", 1) /\ U.open = Memory.open
          /\ U.step = Memory.step /\ U.checking = Memory.checking
        BY <1>2, <2>1, <2>2, RegisterSound
    <2> HIDE DEF U
    <2> QED BY <2>3, MemoryFields
<1>4. Become(T)
    BY Zenon, <1>1
<1> HIDE DEF U
<1>5. IsState(U) /\ Shape(U) /\ U.corrupt = FALSE
    BY <1>3 DEF Sound, Shape
<1>6. Is(T, U.event, U.timers, U.spell, U.asked, U.open, U.step, FALSE, U.corrupt)
    BY <1>5, SetChecking
<1> HIDE DEF T
<1>7. /\ IsState(T) /\ T.event = U.event /\ T.timers = U.timers /\ T.spell = U.spell
      /\ T.asked = U.asked /\ T.open = U.open /\ T.step = U.step /\ T.checking = FALSE
      /\ T.corrupt = FALSE
    BY Zenon, <1>5, <1>6 DEF Is
<1>8. Sound(T, {})
    BY <1>3, <1>5, <1>7, SoundSame DEF Shape
<1>9. Adds(Memory, T, e, "cleanup", 1)
    BY <1>3, <1>7 DEF Adds
<1>10. /\ Alters(Memory, T) /\ Of(T, {"close"}) = Of(Memory, {"close"})
       /\ Of(T, {"evacuate"}) = Of(Memory, {"evacuate"})
       /\ Of(T, Chain) = Of(Memory, Chain) \cup {e}
    BY <1>9, AddsOf DEF Chain
<1>11. \A x \in Of(T, {"evacuate"}) : T.event[x] = Memory.event[x]
    BY <1>9, <1>10 DEF Of, Adds
<1>12. EvacuationWaits(T)
    BY <1>3, <1>7, <1>10, <1>11, EvacuationKept, MemoryFields DEF Waiting
<1>13. CheckWaits(T)
    <2>1. Of(Memory, Chain) = {}
        BY <1>2, MemoryFields DEF Waiting, CheckWaits
    <2>2. Of(T, Chain) = {e} /\ e \in T.timers
        BY <1>9, <1>10, <2>1 DEF Adds
    <2> QED BY <1>7, <2>2 DEF CheckWaits
<1>14. DoorsWait(T)
    BY <1>3, <1>7, <1>10, MemoryFields DEF Waiting, DoorsWait
<1>15. Kept(Memory, T)
    BY <1>8, <1>10, <1>12, <1>13, <1>14 DEF Kept, Waiting
<1> QED BY Zenon, <1>4, <1>15, BecomeKept

LEMMA EvacuateKept ==
    ASSUME Sound(Memory, {}), Waiting(Memory), Evacuate
    PROVE  Kept(Memory, Memory')
<1>1. PICK e \in Allocated(Memory) :
          \E T \in Evacuated([Register(Memory, e, "evacuate", None, Steps)
                                 EXCEPT !.step = Steps]) : Become(T)
    BY Zenon DEF Evacuate
<1> DEFINE U == Register(Memory, e, "evacuate", None, Steps)
           S == [U EXCEPT !.step = Steps]
<1>2. PICK T \in Evacuated(S) : Become(T)
    BY Zenon, <1>1
<1>3. e \in Address /\ Memory.event[e] = None /\ step = None
    BY DEF Allocated, Unused, Free, Evacuate
<1>4. Of(Memory, {"evacuate"}) = {}
    BY <1>3, MemoryFields DEF Waiting, EvacuationWaits
<1>5. CASE Steps = 0
    <2>1. U = Memory
        BY <1>5 DEF Register
    <2>2. IsState(Memory) /\ Shape(Memory) /\ corrupt = FALSE
        BY MemoryFields DEF Sound, Shape
    <2>3. S = [Memory EXCEPT !.step = Steps]
        BY Zenon, <2>1
    <2> HIDE DEF U, S
    <2>4. Is([Memory EXCEPT !.step = Steps], event, timers, spell, asked, open, Steps,
             checking, corrupt)
        BY <2>2, SetStep, MemoryFields
    <2>5. /\ IsState(S) /\ S.event = event /\ S.timers = timers /\ S.spell = spell
          /\ S.asked = asked /\ S.open = open /\ S.step = 0 /\ S.checking = checking
          /\ S.corrupt = FALSE
        BY Zenon, <1>5, <2>2, <2>3, <2>4 DEF Is
    <2>6. Sound(S, {})
        <3>1. /\ S.event = Memory.event /\ S.timers = Memory.timers /\ S.spell = Memory.spell
              /\ S.asked = Memory.asked /\ S.step \in Nat \cup {None}
              /\ S.open \in BOOLEAN /\ S.checking \in BOOLEAN \cup {None}
            BY <2>2, <2>5, MemoryFields DEF Shape
        <3> QED BY <2>5, <3>1, SoundSame
    <2>7. /\ Sound(T, {}) /\ Stays(S, T) /\ T.open = S.open /\ T.checking = S.checking
          /\ T.step = None
        BY <2>5, <2>6, EvacuatedSound
    <2>8. Stays(Memory, T)
        BY <2>5, <2>7, MemoryFields DEF Stays
    <2>9. Kept(Memory, T)
        BY <1>3, <2>5, <2>7, <2>8, StaysKept, MemoryFields
    <2> QED BY Zenon, <1>2, <2>9, BecomeKept
<1>6. CASE Steps # 0
    <2>1. Sound(U, {}) /\ Adds(Memory, U, e, "evacuate", Steps)
          /\ U.open = open /\ U.step = step /\ U.checking = checking
        <3>1. "evacuate" \in Kind \ {"cast"} /\ Steps \in Int
            BY SpeedsAreKnown DEF Kind
        <3> QED BY <1>3, <1>6, <3>1, RegisterSound, MemoryFields
    <2> HIDE DEF U
    <2>2. IsState(U) /\ Shape(U) /\ U.corrupt = FALSE
        BY <2>1 DEF Sound, Shape
    <2>3. Is(S, U.event, U.timers, U.spell, U.asked, U.open, Steps, U.checking, U.corrupt)
        BY <2>2, SetStep
    <2> HIDE DEF S
    <2>4. /\ IsState(S) /\ S.event = U.event /\ S.timers = U.timers /\ S.spell = U.spell
          /\ S.asked = U.asked /\ S.open = U.open /\ S.step = Steps
          /\ S.checking = U.checking /\ S.corrupt = FALSE
        BY Zenon, <2>2, <2>3 DEF Is
    <2>5. Sound(S, {})
        BY <2>1, <2>2, <2>4, SoundSame, SpeedsAreKnown DEF Shape
    <2>6. /\ Sound(T, {}) /\ Stays(S, T) /\ T.open = S.open /\ T.checking = S.checking
          /\ T.step = Steps - 1
        <3>1. Steps \in Nat /\ Steps > 0
            BY <1>6, SpeedsAreKnown
        <3> QED BY <2>4, <2>5, <3>1, EvacuatedSound
    <2>7. Adds(Memory, S, e, "evacuate", Steps)
        BY <2>1, <2>4 DEF Adds
    <2>8. /\ Alters(Memory, S) /\ Of(S, {"close"}) = Of(Memory, {"close"})
          /\ Of(S, {"evacuate"}) = {e} /\ Of(S, Chain) = Of(Memory, Chain)
        BY <1>4, <2>7, AddsOf DEF Chain
    <2>9. /\ Alters(S, T) /\ Of(T, {"close"}) = Of(S, {"close"})
          /\ Of(T, {"evacuate"}) = {e} /\ Of(T, Chain) = Of(S, Chain)
        BY <2>6, <2>8, StaysOf
    <2>10. e \in T.timers /\ T.event[e].lifetime = Steps
        BY <2>6, <2>7, <2>9 DEF Of, Stays, Adds
    <2>11. EvacuationWaits(T)
        <3>1. T.step # None /\ T.step + 1 = Steps
            BY <2>6, NotNone, SpeedsAreKnown
        <3> QED BY <2>9, <2>10, <3>1 DEF EvacuationWaits
    <2>12. CheckWaits(T)
        BY <2>1, <2>4, <2>6, <2>8, <2>9, CheckKept, MemoryFields DEF Waiting
    <2>13. DoorsWait(T)
        BY <2>1, <2>4, <2>6, <2>8, <2>9, MemoryFields DEF Waiting, DoorsWait
    <2>14. Alters(Memory, T)
        BY <2>8, <2>9, AltersTwice
    <2>15. Kept(Memory, T)
        BY <2>6, <2>11, <2>12, <2>13, <2>14 DEF Kept, Waiting
    <2> QED BY Zenon, <1>2, <2>15, BecomeKept
<1> QED BY <1>5, <1>6

-----------------------------------------------------------------------------
(***************************************************************************)
(* The tick, and time between ticks.                                       *)
(***************************************************************************)

LEMMA AheadOf ==
    ASSUME IInv, cursor # None
    PROVE  /\ DueAhead \subseteq timers /\ timers \subseteq Nat
           /\ DueAhead # {} => Min(DueAhead) \in DueAhead
<1>1. timers \subseteq Nat
    BY AddressesAreOrdered, MemoryFields DEF IInv, Sound, Shape
<1>2. DueAhead \subseteq timers
    BY DEF DueAhead, Due
<1> HIDE DEF DueAhead
<1>3. DueAhead # {} => Min(DueAhead) \in DueAhead
    BY <1>1, <1>2, MinOf
<1> QED BY <1>1, <1>2, <1>3

\* What a tick calls was due, and all but it is left alone.
Calls(e) ==
    /\ e \in timers /\ e \in Address /\ e # Pump /\ Due(e) /\ cursor' = e
    /\ Sound(Memory', {}) /\ Waiting(Memory') /\ AltersBut(Memory, Memory', e)
    /\ event[e].lifetime = 1 => e \notin timers'
    /\ event[e].lifetime # 1 => e \in timers' /\ event'[e] = Lived(event[e])

LEMMA FireCalls ==
    ASSUME IInv, Fire
    PROVE  \E e \in Address : Calls(e)
<1> DEFINE e == Min(DueAhead)
           n == Lived(event[e])
           due == [Memory EXCEPT !.event[e] = n]
           called == IF n.lifetime = 0 THEN Unregister(due, e) ELSE due
<1>1. e \in DueAhead /\ e \in timers /\ timers \subseteq Address
    <2>1. cursor # None /\ DueAhead # {}
        BY DEF Fire
    <2>2. DueAhead \subseteq timers /\ e \in DueAhead
        BY <2>1, AheadOf
    <2>3. timers \subseteq Address
        BY MemoryFields DEF IInv, Sound, Shape
    <2> QED BY <2>2, <2>3
<1>2. e # Pump /\ cursor' = e
      /\ \E T \in Callback(called, n.kind, n.param) :
             Become(IF e \in T.timers THEN T ELSE Delete(T, e))
    BY Zenon DEF Fire
<1>3. Due(e)
    BY <1>1 DEF DueAhead
<1> HIDE DEF e
<1>4. PICK T \in Callback(called, n.kind, n.param) :
          Become(IF e \in T.timers THEN T ELSE Delete(T, e))
    BY Zenon, <1>2
<1>5. n = Lived(Memory.event[e]) /\ e \in Memory.timers
    BY <1>1, MemoryFields
<1>6. called = IF n.lifetime = 0 THEN Ended(Memory, e, n) ELSE [Memory EXCEPT !.event[e] = n]
    BY Zenon DEF Ended
<1> HIDE DEF n, called, due
<1> DEFINE R == IF e \in T.timers THEN T ELSE Delete(T, e)
<1>7. /\ Sound(R, {}) /\ Waiting(R) /\ AltersBut(Memory, R, e)
      /\ Memory.event[e].lifetime = 1 => e \notin R.timers
      /\ Memory.event[e].lifetime # 1 => e \in R.timers /\ R.event[e] = n
    <2>1. T \in Callback(IF n.lifetime = 0 THEN Ended(Memory, e, n)
                         ELSE [Memory EXCEPT !.event[e] = n], n.kind, n.param)
        BY Zenon, <1>4, <1>6
    <2>2. Sound(Memory, {}) /\ Waiting(Memory)
        BY DEF IInv
    <2> QED BY Zenon, <1>2, <1>5, <2>1, <2>2, CalledSound
<1> HIDE DEF R
<1>8. Become(R)
    BY Zenon, <1>4 DEF R
<1>9. Memory' = R
    <2>1. IsState(R)
        BY <1>7 DEF Sound, Shape
    <2>2. Memory' = State(event', timers', changed', spell', asked', open', step', checking',
                          corrupt')
        BY DEF Memory, State
    <2> QED BY Zenon, <1>8, <2>1, <2>2 DEF Become, IsState
<1>10. R.timers = timers' /\ R.event = event'
    BY Zenon, <1>8 DEF Become
<1>11. Calls(e)
    BY <1>1, <1>2, <1>3, <1>5, <1>7, <1>9, <1>10, MemoryFields DEF Calls
<1> QED BY <1>1, <1>11

LEMMA AdvanceKept ==
    ASSUME IInv, Advance
    PROVE  Sound(Memory', {}) /\ Waiting(Memory')
<1> DEFINE T == State(event', timers', changed', spell', asked', open', step', checking',
                      corrupt')
<1>1. Memory' = T
    BY DEF Memory, State
<1>2. /\ IsState(T) /\ T.event = event' /\ T.timers = timers /\ T.spell = spell
      /\ T.asked = asked' /\ T.open = open /\ T.step = step /\ T.checking = checking
      /\ T.corrupt = FALSE
    <2>1. T.event = event' /\ T.timers = timers' /\ T.spell = spell' /\ T.asked = asked'
          /\ T.changed = changed' /\ T.open = open' /\ T.step = step'
          /\ T.checking = checking' /\ T.corrupt = corrupt'
        BY DEF State
    <2> HIDE DEF T
    <2>2. IsState(T)
        BY Zenon, <2>1 DEF IsState, T
    <2> QED BY <2>1, <2>2, MemoryFields DEF Advance, IInv, Sound
<1> HIDE DEF T
<1>3. Sound(Memory, {}) /\ Shape(Memory) /\ Held(Memory, {}) /\ Waiting(Memory)
    BY DEF IInv, Sound
<1>4. ASSUME NEW e \in timers, e # Pump
      PROVE  /\ e \in Address /\ event'[e] \in Event /\ event'[e].kind = event[e].kind
             /\ event'[e].param = event[e].param /\ event'[e].age = event[e].age + 1
             /\ event'[e].speed = event[e].speed /\ event'[e].lifetime = event[e].lifetime
    <2>1. e \in Address /\ event[e] \in Event
        BY <1>3, EventsOf, MemoryFields
    <2>2. event'[e] = [event[e] EXCEPT !.age = @ + 1]
        BY <1>4, <2>1 DEF Advance
    <2> QED BY <2>1, <2>2 DEF Event
<1>5. \A e \in Address : e \notin timers \ {Pump} => event'[e] = event[e]
    BY DEF Advance
<1>6. Pump \in timers /\ event[Pump].kind = "pump" /\ event'[Pump] = event[Pump]
      /\ Pump \in Address /\ event[Pump].lifetime = Forever
    BY <1>3, <1>5, AddressesAreOrdered, MemoryFields DEF Held
<1>7. event' \in [Address -> Event \cup {None}]
    <2>1. event' = [e \in Address |-> event'[e]]
        BY DEF Advance
    <2>2. \A e \in Address : event'[e] \in Event \cup {None}
        BY <1>3, <1>4, <1>5, MemoryFields DEF Shape
    <2> QED BY <2>1, <2>2
<1>8. asked' \in [Char -> Nat \cup {None}]
      /\ \A c \in Char : asked[c] # None => asked'[c] = asked[c] + 1
    BY <1>3, MemoryFields DEF Advance, Shape
<1>9. Shape(T)
    BY <1>2, <1>3, <1>7, <1>8, MemoryFields DEF Shape
<1>10. Held(T, {})
    <2>1. \A x \in Address : T.event[x] # None <=> x \in T.timers \cup {}
        BY <1>2, <1>3, <1>4, <1>5, NotNone, MemoryFields DEF Held
    <2> QED BY <1>2, <1>6, <2>1 DEF Held
<1>11. ASSUME NEW c \in Char, Casting(T, c) PROVE Casts(T, c)
    <2>1. Casts(Memory, c)
        BY <1>2, <1>3, <1>11, MemoryFields DEF Sound, Casting
    <2> DEFINE e == spell[c].event
    <2>2. e \in timers /\ event[e].kind = "cast" /\ event[e].param = c
          /\ event[e].age = asked[c] /\ spell[c].ready = FALSE
        BY <2>1, MemoryFields DEF Casts
    <2>3. e # Pump
        BY <1>6, <2>2
    <2>4. asked[c] # None
        BY <1>3, <2>2, EventsOf, NotNone, MemoryFields
    <2> QED BY <1>2, <1>4, <1>8, <2>2, <2>3, <2>4 DEF Casts
<1>12. ASSUME NEW x \in T.timers PROVE Registered(T, x)
    <2>1. Registered(Memory, x)
        BY <1>2, <1>3, MemoryFields DEF Sound
    <2>2. CASE x = Pump
        BY <1>2, <1>6, <2>1, <2>2, MemoryFields DEF Registered
    <2>3. CASE x # Pump
        <3>1. /\ x \in timers /\ T.event[x].kind = event[x].kind
              /\ T.event[x].param = event[x].param /\ T.event[x].speed = event[x].speed
              /\ T.event[x].lifetime = event[x].lifetime
            BY <1>2, <1>4, <2>3
        <3> QED BY <1>2, <2>1, <3>1, MemoryFields DEF Registered
    <2> QED BY <2>2, <2>3
<1>13. Sound(T, {})
    BY <1>2, <1>9, <1>10, <1>11, <1>12 DEF Sound
<1>14. \A x \in timers : /\ T.event[x].kind = event[x].kind
                         /\ T.event[x].lifetime = event[x].lifetime
    BY <1>2, <1>4, <1>6
<1>15. \A K : Of(T, K) = Of(Memory, K)
    BY <1>2, <1>14, MemoryFields DEF Of
<1>16. EvacuationWaits(T)
    BY <1>2, <1>3, <1>14, <1>15, MemoryFields DEF Waiting, EvacuationWaits
<1>17. CheckWaits(T)
    BY <1>2, <1>3, <1>15, CheckKept, MemoryFields DEF Waiting
<1>18. DoorsWait(T)
    BY <1>2, <1>3, <1>15, MemoryFields DEF Waiting, DoorsWait
<1> QED BY <1>1, <1>13, <1>16, <1>17, <1>18 DEF Waiting

LEMMA HandlerKept ==
    ASSUME IInv, Handler \/ RequestThread
    PROVE  Kept(Memory, Memory') /\ UNCHANGED <<execlist, cursor>>
<1>1. Sound(Memory, {}) /\ Waiting(Memory)
    BY DEF IInv
<1>2. ASSUME NEW c \in Char, Spell_Request(c) PROVE Kept(Memory, Memory')
    BY <1>1, <1>2, Spell_RequestKept
<1>3. ASSUME NEW c \in Char, Spell_Target(c) PROVE Kept(Memory, Memory')
    BY <1>1, <1>3, Spell_TargetKept
<1>4. ASSUME NEW c \in Char, Move(c) \/ Login(c) \/ Logout(c) PROVE Kept(Memory, Memory')
    BY <1>1, <1>4, MoveKept
<1>5. ASSUME OpenDoor PROVE Kept(Memory, Memory')
    BY Zenon, <1>1, <1>5, OpenDoorKept
<1>6. ASSUME Reload PROVE Kept(Memory, Memory')
    BY Zenon, <1>1, <1>6, ReloadKept
<1>7. ASSUME Evacuate PROVE Kept(Memory, Memory')
    BY Zenon, <1>1, <1>7, EvacuateKept
<1>8. ASSUME RequestThread PROVE Kept(Memory, Memory')
    BY Zenon, <1>1, <1>8, RequestThreadKept
<1>9. Kept(Memory, Memory')
    BY Zenon, <1>2, <1>3, <1>4, <1>5, <1>6, <1>7, <1>8 DEF Handler
<1>10. UNCHANGED <<execlist, cursor>>
    BY DEF Handler, RequestThread
<1> QED BY <1>9, <1>10

LEMMA InitHolds == Init => IInv /\ \A e \in timers \ {Pump} : event[e].age = 0
<1> SUFFICES ASSUME Init PROVE IInv /\ \A e \in timers \ {Pump} : event[e].age = 0
    OBVIOUS
<1>1. PICK configured \in {TRUE, None} :
          /\ execlist = {} /\ cursor = None
          /\ \E S \in Load([event |-> [e \in Address |-> IF e = Pump THEN AlwaysDue ELSE Free],
                            timers |-> {Pump}, changed |-> TRUE,
                            spell |-> [c \in Char |-> None], asked |-> [c \in Char |-> None],
                            open |-> FALSE, step |-> None, checking |-> configured,
                            corrupt |-> FALSE]) :
                /\ event = S.event /\ timers = S.timers /\ changed = S.changed
                /\ spell = S.spell /\ asked = S.asked /\ open = S.open /\ step = S.step
                /\ checking = S.checking /\ corrupt = S.corrupt
    BY Zenon DEF Init
<1> DEFINE B == State([e \in Address |-> IF e = Pump THEN AlwaysDue ELSE Free], {Pump}, TRUE,
                      [c \in Char |-> None], [c \in Char |-> None], FALSE, None, configured,
                      FALSE)
<1>2. PICK S \in Load(B) :
          /\ event = S.event /\ timers = S.timers /\ changed = S.changed
          /\ spell = S.spell /\ asked = S.asked /\ open = S.open /\ step = S.step
          /\ checking = S.checking /\ corrupt = S.corrupt
    BY Zenon, <1>1 DEF State
<1>3. /\ IsState(B) /\ B.event = [e \in Address |-> IF e = Pump THEN AlwaysDue ELSE None]
      /\ B.timers = {Pump} /\ B.spell = [c \in Char |-> None]
      /\ B.asked = [c \in Char |-> None] /\ B.open = FALSE /\ B.step = None
      /\ B.checking = configured /\ B.corrupt = FALSE
    <2> DEFINE events == [e \in Address |-> IF e = Pump THEN AlwaysDue ELSE None]
               nobody == [c \in Char |-> None]
    <2>1. B = State(events, {Pump}, TRUE, nobody, nobody, FALSE, None, configured, FALSE)
        BY Zenon DEF Free
    <2> HIDE DEF B, events, nobody
    <2>2. B.event = events /\ B.timers = {Pump} /\ B.changed = TRUE /\ B.spell = nobody
          /\ B.asked = nobody /\ B.open = FALSE /\ B.step = None /\ B.checking = configured
          /\ B.corrupt = FALSE
        BY <2>1 DEF State
    <2>3. IsState(B)
        BY Zenon, <2>1, <2>2 DEF IsState
    <2> QED BY <2>2, <2>3 DEF events, nobody
<1> HIDE DEF B
<1>4. AlwaysDue \in Event /\ AlwaysDue.kind = "pump" /\ AlwaysDue.lifetime = Forever
      /\ AlwaysDue # None
    <2>1. AlwaysDue \in Event /\ AlwaysDue.kind = "pump" /\ AlwaysDue.lifetime = Forever
        BY DEF AlwaysDue, Event, Forever
    <2> QED BY <2>1, NotNone
<1>5. B.event[Pump] = AlwaysDue /\ Pump \in Address /\ \A e \in Address \ {Pump} : B.event[e] = None
    BY <1>3, AddressesAreOrdered
<1>6. Shape(B)
    BY <1>1, <1>3, <1>4, <1>5 DEF Shape
<1>7. Held(B, {})
    BY <1>3, <1>4, <1>5 DEF Held
<1>8. \A c \in Char : ~Casting(B, c)
    BY <1>3 DEF Casting
<1>9. Registered(B, Pump)
    BY <1>4, <1>5 DEF Registered
<1>10. Sound(B, {})
    BY <1>3, <1>6, <1>7, <1>8, <1>9 DEF Sound
<1>11. \A K : "pump" \notin K => Of(B, K) = {}
    BY <1>3, <1>4, <1>5 DEF Of
<1>12. Waiting(B)
    <2>1. Of(B, {"evacuate"}) = {} /\ Of(B, Chain) = {}
        BY <1>11 DEF Chain
    <2>2. configured # FALSE
        BY <1>1, NoneIsNone
    <2> QED BY <1>3, <2>1, <2>2 DEF Waiting, DoorsWait, EvacuationWaits, CheckWaits
<1>13. Kept(B, S)
    BY <1>2, <1>10, <1>12, LoadKept
<1>14. Memory = S
    <2>1. IsState(S)
        BY <1>13 DEF Kept, Sound, Shape
    <2> QED BY Zenon, <1>2, <2>1 DEF Memory, IsState, State
<1>15. IInv
    BY Zenon, <1>1, <1>13, <1>14 DEF IInv, Kept
<1>16. \A e \in timers \ {Pump} : event[e].age = 0
    BY <1>2, <1>3, <1>13 DEF Kept, Alters
<1> QED BY <1>15, <1>16

-----------------------------------------------------------------------------
(***************************************************************************)
(* What the timer promises.                                                *)
(***************************************************************************)

LEMMA Changes ==
    ASSUME IInv, Next
    PROVE  \/ Kept(Memory, Memory') /\ cursor' \in {cursor, None, -1, Pump}
           \/ (\E e \in Address : Calls(e))
           \/ Advance
<1>1. ASSUME UNCHANGED <<event, timers, spell, asked, open, step, checking, corrupt>>
      PROVE  Kept(Memory, Memory')
    <2> DEFINE T == State(event', timers', changed', spell', asked', open', step', checking',
                          corrupt')
    <2>1. Memory' = T
        BY DEF Memory, State
    <2>2. /\ IsState(T) /\ T.event = event /\ T.timers = timers /\ T.spell = spell
          /\ T.asked = asked /\ T.open = open /\ T.step = step /\ T.checking = checking
          /\ T.corrupt = corrupt
        BY <1>1 DEF State, IsState
    <2> HIDE DEF T
    <2>3. Sound(Memory, {}) /\ Waiting(Memory)
        BY DEF IInv
    <2>4. Sound(T, {}) /\ \A K : Of(T, K) = Of(Memory, K)
        <3>1. Shape(Memory) /\ corrupt = FALSE
            BY <2>3, MemoryFields DEF Sound
        <3>2. /\ T.event = Memory.event /\ T.timers = Memory.timers /\ T.spell = Memory.spell
              /\ T.asked = Memory.asked /\ T.step \in Nat \cup {None} /\ T.corrupt = FALSE
              /\ T.open \in BOOLEAN /\ T.checking \in BOOLEAN \cup {None}
            BY <2>2, <3>1, MemoryFields DEF Shape
        <3> QED BY <2>2, <2>3, <3>2, SoundSame
    <2>5. Stays(Memory, T)
        BY <2>2, MemoryFields DEF Stays
    <2>6. Kept(Memory, T)
        BY <2>2, <2>3, <2>4, <2>5, StaysKept, MemoryFields
    <2> QED BY <2>1, <2>6
<1>2. CASE Handler \/ RequestThread
    BY <1>2, HandlerKept
<1>3. CASE Fire
    BY <1>3, FireCalls
<1>4. CASE StartTick
    BY <1>1, <1>4 DEF StartTick
<1>5. CASE StartPump
    BY <1>1, <1>5 DEF StartPump
<1>6. CASE EndTick
    BY <1>1, <1>6 DEF EndTick
<1> QED BY <1>2, <1>3, <1>4, <1>5, <1>6 DEF Next

LEMMA NextHolds ==
    ASSUME IInv, [Next]_vars
    PROVE  IInv'
<1>1. Sound(Memory, {}) /\ Waiting(Memory) /\ execlist \subseteq Address
      /\ cursor \in Address \cup {None, -1} /\ timers \subseteq Address
    BY MemoryFields DEF IInv, Sound, Shape
<1>2. CASE UNCHANGED vars
    BY <1>1, <1>2 DEF vars, IInv, Memory
<1>3. CASE Next
    <2>1. Sound(Memory', {}) /\ Waiting(Memory')
        BY <1>3, Changes, AdvanceKept DEF Kept, Calls
    <2>2. execlist' \subseteq Address
        <3>1. execlist' \in {execlist, timers}
            BY <1>3, HandlerKept DEF Next, Fire, StartTick, StartPump, EndTick, Advance
        <3> QED BY <1>1, <3>1
    <2>3. cursor' \in Address \cup {None, -1}
        <3>1. CASE Advance
            BY <1>1, <3>1 DEF Advance
        <3>2. CASE ~Advance
            BY <1>1, <1>3, <3>2, Changes, AddressesAreOrdered DEF Calls
        <3> QED BY <3>1, <3>2
    <2> QED BY <2>1, <2>2, <2>3 DEF IInv
<1> QED BY <1>2, <1>3

LEMMA TimerHolds == Spec => []IInv
BY InitHolds, NextHolds, PTL DEF Spec

\* EventsMatch: nothing that was deleted is reached, and a character that casts, a door that
\* is open, an evacuation and the chain of check-ins have their events, each of the last three
\* kinds as many as it waits for.
THEOREM EventsAreMatched == Spec => []EventsMatch
<1>1. IInv => EventsMatch
    <2> SUFFICES ASSUME IInv PROVE EventsMatch
        OBVIOUS
    <2>1. Sound(Memory, {}) /\ Waiting(Memory) /\ Shape(Memory) /\ Held(Memory, {})
        BY DEF IInv, Sound
    <2>2. corrupt = FALSE /\ (\A e \in timers : event[e] # Free)
        BY <2>1, MemoryFields, EventsOf DEF Sound, Free
    <2>3. \A e \in Pending("cast") :
              spell[event[e].param] # None /\ spell[event[e].param].event = e
        BY <2>1, MemoryFields DEF Sound, Registered, Pending
    <2>4. ASSUME NEW c \in Char, spell[c] # None, spell[c].event # None
          PROVE  spell[c].event \in Pending("cast") /\ ~spell[c].ready
        BY <2>1, <2>4, MemoryFields DEF Sound, Casting, Casts, Pending
    <2>5. Pending("evacuate") = Of(Memory, {"evacuate"})
          /\ Pending("close") = Of(Memory, {"close"})
        BY MemoryFields DEF Pending, Of
    <2>6. Links(Memory) \cap timers = Of(Memory, Chain)
        BY <2>1, <2>2, MemoryFields DEF Links, Of, Chain, Shape
    <2>7. \A e \in Pending("evacuate") : step # None /\ event[e].lifetime = step + 1
        BY <2>1, <2>5, MemoryFields DEF Waiting, EvacuationWaits
    <2>8. open => Pending("close") # {}
        BY <2>1, <2>5, MemoryFields DEF Waiting, DoorsWait, Shape
    <2>9. Cardinality(Pending("evacuate")) = (IF step = None THEN 0 ELSE 1)
        BY <2>1, <2>5, MemoryFields, FS_EmptySet, FS_Singleton DEF Waiting, EvacuationWaits
    <2>10. Cardinality(Links(Memory) \cap timers) = (IF checking = FALSE THEN 1 ELSE 0)
        BY <2>1, <2>6, MemoryFields, FS_EmptySet, FS_Singleton DEF Waiting, CheckWaits
    <2> QED BY <2>2, <2>3, <2>4, <2>7, <2>8, <2>9, <2>10 DEF EventsMatch
<1> QED BY <1>1, TimerHolds, PTL

\* NotEarly: no spell comes before its time, counted from when it was asked for.
THEOREM SpellsAreNotEarly == Spec => NotEarly
<1>1. ASSUME IInv, Next, NEW e \in timers, Called(e), event[e] # Free, event[e].kind = "cast"
      PROVE  LET c == event[e].param IN asked[c] # None /\ asked[c] > Speed["cast"]
    <2>1. e \in Address /\ e \in Nat /\ e # None /\ e # -1 /\ e # Pump
        <3>1. timers \subseteq Address /\ event[Pump].kind = "pump"
            BY MemoryFields, <1>1 DEF IInv, Sound, Shape, Held
        <3>2. e \in Address /\ e \in Nat /\ e # -1 /\ e # Pump
            BY <1>1, <3>1, AddressesAreOrdered
        <3> QED BY <3>2, NotNone
    <2>2. Calls(e)
        <3>1. CASE Advance
            BY <1>1, <3>1 DEF Called, Advance
        <3>2. CASE ~Advance
            BY <1>1, <2>1, <3>2, Changes DEF Called, Calls
        <3> QED BY <3>1, <3>2
    <2> DEFINE c == event[e].param
    <2>3. /\ c \in Char /\ event[e].speed = Speed["cast"]
          /\ spell[c] # None /\ spell[c].event = e
        BY <1>1, MemoryFields DEF IInv, Sound, Registered
    <2>4. event[e].age = asked[c]
        BY <1>1, <2>1, <2>3, MemoryFields DEF IInv, Sound, Casting, Casts
    <2>5. event[e].age > event[e].speed
        BY <2>2 DEF Calls, Due
    <2>6. event[e].age \in Int
        BY <1>1, EventsOf, MemoryFields DEF IInv, Sound
    <2> QED BY <2>3, <2>4, <2>5, <2>6, NotNone
<1>2. IInv /\ [Next]_vars =>
          [\A e \in timers : Called(e) /\ event[e] # Free /\ event[e].kind = "cast" =>
              LET c == event[e].param IN asked[c] # None /\ asked[c] > Speed["cast"]]_vars
    BY <1>1
<1> QED BY <1>2, TimerHolds, PTL DEF Spec, NotEarly

\* AlarmsRing, but for what must eventually happen: whatever the list is that it walks, the
\* timer calls what is overdue and nothing else, and what it does not call is as it was.
THEOREM AlarmsAreKept == Spec => Promise!Safe
<1>1. ASSUME Init PROVE Promise!Init
    <2>1. DOMAIN Armed = Address \ {Pump}
        BY DEF Armed
    <2>2. ASSUME NEW e \in Address \ {Pump} PROVE Promise!Fresh(Armed[e])
        BY <1>1, InitHolds DEF Armed, Promise!Fresh
    <2> QED BY <2>1, <2>2 DEF Promise!Init
<1>2. ASSUME IInv, [Next]_vars PROVE [Promise!Next]_Armed
    <2>1. CASE UNCHANGED vars
        BY <2>1 DEF vars, Armed
    <2> DEFINE At(x) == [age |-> event[x].age, speed |-> event[x].speed,
                         lifetime |-> event[x].lifetime]
               Then(x) == [age |-> event'[x].age, speed |-> event'[x].speed,
                           lifetime |-> event'[x].lifetime]
    <2>2. /\ DOMAIN Armed' = Address \ {Pump}
          /\ \A x \in Address \ {Pump} : /\ Armed[x] = IF x \in timers THEN At(x) ELSE None
                                         /\ Armed'[x] = IF x \in timers' THEN Then(x) ELSE None
        BY DEF Armed
    <2>3. \A x : Then(x).age = event'[x].age
        OBVIOUS
    <2>4. \A x \in Address : event'[x] = event[x] => Then(x) = At(x)
        OBVIOUS
    <2>5. Memory'.event = event' /\ Memory'.timers = timers'
        BY DEF Memory
    <2> HIDE DEF At, Then
    <2>6. CASE Kept(Memory, Memory')
        <3>1. ASSUME NEW x \in Address \ {Pump}
              PROVE  Armed'[x] = Armed[x] \/ Promise!Fresh(Armed'[x])
            <4>1. CASE x \in timers'
                <5>1. (x \in timers /\ event'[x] = event[x]) \/ event'[x].age = 0
                    BY <2>5, <2>6, <4>1, MemoryFields DEF Kept, Alters
                <5> QED BY <2>2, <2>3, <2>4, <4>1, <5>1 DEF Promise!Fresh
            <4>2. CASE x \notin timers'
                BY <2>2, <4>2 DEF Promise!Fresh
            <4> QED BY <4>1, <4>2
        <3>2. Promise!Change
            BY <2>2, <3>1 DEF Promise!Change
        <3> QED BY Zenon, <3>2 DEF Promise!Next
    <2>7. ASSUME NEW e \in Address, Calls(e) PROVE Promise!Ring(e)
        <3>1. e \in Address \ {Pump} /\ e \in timers /\ Due(e)
            BY <2>7 DEF Calls
        <3> DEFINE m == event[e]
        <3>2. m \in Event /\ Armed[e] = At(e)
            BY <1>2, <2>2, <3>1, EventsOf, MemoryFields DEF IInv, Sound
        <3>3. At(e) = [age |-> m.age, speed |-> m.speed, lifetime |-> m.lifetime]
            BY DEF At
        <3>4. m.age \in Int /\ m.speed \in Nat /\ m.lifetime \in Int
            BY <3>2 DEF Event
        <3>5. Promise!Overdue(e)
            <4>1. At(e) \in [age : Int, speed : Nat, lifetime : Int]
                BY <3>3, <3>4
            <4>2. At(e) # None
                BY <4>1, NotNone
            <4>3. At(e).age > At(e).speed
                BY <3>1, <3>3 DEF Due
            <4> QED BY <3>2, <4>2, <4>3 DEF Promise!Overdue
        <3>6. Armed'[e] = Promise!Rung(Armed[e])
            <4>1. CASE m.lifetime = 1
                <5>1. Armed'[e] = None
                    BY <2>2, <2>7, <3>1, <4>1 DEF Calls
                <5>2. At(e).lifetime = 1 /\ 1 # Forever
                    BY <3>3, <4>1 DEF Forever
                <5>3. Promise!Rung(At(e)) = None
                    BY <5>2 DEF Promise!Rung
                <5> QED BY Zenon, <3>2, <5>1, <5>3
            <4>2. CASE m.lifetime # 1
                <5> DEFINE n == Lived(m)
                <5>1. e \in timers' /\ event'[e] = n
                    BY <2>7, <4>2 DEF Calls
                <5>2. n.speed = m.speed /\ n.age = m.age - m.speed
                      /\ n.lifetime = IF m.lifetime = Forever THEN Forever ELSE m.lifetime - 1
                    BY <3>2, LivedFields
                <5> HIDE DEF n
                <5>3. Armed'[e] = [age |-> n.age, speed |-> n.speed, lifetime |-> n.lifetime]
                    BY <2>2, <3>1, <5>1 DEF Then
                <5>4. CASE m.lifetime = Forever
                    <6>1. Promise!Rung(At(e)) = [At(e) EXCEPT !.age = @ - At(e).speed]
                        <7>1. At(e).lifetime = Forever /\ Forever # 1
                            BY <3>3, <5>4 DEF Forever
                        <7> HIDE DEF At
                        <7> QED BY <7>1 DEF Promise!Rung
                    <6>2. [At(e) EXCEPT !.age = @ - At(e).speed] =
                              [age |-> m.age - m.speed, speed |-> m.speed,
                               lifetime |-> m.lifetime]
                        BY <3>3
                    <6> QED BY <3>2, <5>2, <5>3, <5>4, <6>1, <6>2
                <5>5. CASE m.lifetime # Forever
                    <6>1. Promise!Rung(At(e)) =
                              [At(e) EXCEPT !.age = @ - At(e).speed, !.lifetime = @ - 1]
                        BY <3>3, <4>2, <5>5 DEF Promise!Rung
                    <6> DEFINE U == [At(e) EXCEPT !.age = @ - At(e).speed]
                    <6>2. U = [age |-> m.age - m.speed, speed |-> m.speed,
                               lifetime |-> m.lifetime]
                        BY <3>3
                    <6>3. Promise!Rung(At(e)) = [U EXCEPT !.lifetime = @ - 1]
                        BY Zenon, <6>1
                    <6> HIDE DEF U
                    <6>4. [U EXCEPT !.lifetime = @ - 1] =
                              [age |-> m.age - m.speed, speed |-> m.speed,
                               lifetime |-> m.lifetime - 1]
                        BY <6>2
                    <6> QED BY <3>2, <5>2, <5>3, <5>5, <6>3, <6>4
                <5> QED BY <5>4, <5>5
            <4> QED BY <4>1, <4>2
        <3>7. ASSUME NEW x \in (Address \ {Pump}) \ {e}
              PROVE  Armed'[x] = Armed[x] \/ Promise!Fresh(Armed'[x])
            <4>1. CASE x \in timers'
                <5>1. (x \in timers /\ event'[x] = event[x]) \/ event'[x].age = 0
                    BY <2>5, <2>7, <4>1, MemoryFields DEF Calls, AltersBut
                <5> QED BY <2>2, <2>3, <2>4, <4>1, <5>1 DEF Promise!Fresh
            <4>2. CASE x \notin timers'
                BY <2>2, <4>2 DEF Promise!Fresh
            <4> QED BY <4>1, <4>2
        <3> QED BY <2>2, <3>5, <3>6, <3>7 DEF Promise!Ring, Promise!OthersChange
    <2>8. CASE Advance
        <3>1. ASSUME NEW x \in Address \ {Pump}
              PROVE  Armed'[x] = IF Armed[x] = None THEN None
                                 ELSE [Armed[x] EXCEPT !.age = @ + 1]
            <4>1. CASE x \in timers
                <5>1. event[x] \in Event
                    BY <1>2, <4>1, EventsOf, MemoryFields DEF IInv, Sound
                <5>2. event'[x] = [event[x] EXCEPT !.age = @ + 1] /\ timers' = timers
                    BY <2>8, <3>1, <4>1 DEF Advance
                <5>3. event'[x].age = event[x].age + 1 /\ event'[x].speed = event[x].speed
                      /\ event'[x].lifetime = event[x].lifetime
                    BY <5>1, <5>2 DEF Event
                <5>4. At(x) \in [age : Int, speed : Nat, lifetime : Int]
                    BY <5>1 DEF At, Event
                <5>5. Then(x) = [At(x) EXCEPT !.age = @ + 1]
                    BY <5>3 DEF At, Then
                <5> QED BY <2>2, <4>1, <5>2, <5>4, <5>5, NotNone
            <4>2. CASE x \notin timers
                BY <2>2, <2>8, <4>2 DEF Advance
            <4> QED BY <4>1, <4>2
        <3>2. Armed' = [x \in Address \ {Pump} |-> Armed'[x]]
            BY DEF Armed
        <3> DEFINE after == [x \in Address \ {Pump} |->
                                IF Armed[x] = None THEN None
                                ELSE [Armed[x] EXCEPT !.age = @ + 1]]
        <3>3. Armed' = after
            BY <3>1, <3>2
        <3> QED BY Zenon, <3>3 DEF Promise!Next, Promise!Advance
    <2>9. Promise!Next \/ UNCHANGED Armed
        <3>1. CASE \E e \in Address : Calls(e)
            <4>1. PICK e \in Address : Calls(e)
                BY <3>1
            <4>2. Promise!Ring(e) /\ e \in Address \ {Pump}
                BY <2>7, <4>1 DEF Calls
            <4> QED BY Zenon, <4>2 DEF Promise!Next
        <3> QED BY Zenon, <1>2, <2>1, <2>6, <2>8, <3>1, Changes
    <2> QED BY Zenon, <2>9
<1> QED BY <1>1, <1>2, TimerHolds, PTL DEF Spec, Promise!Safe
=============================================================================

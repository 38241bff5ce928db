------------------------------- MODULE Wedding -------------------------------
(***************************************************************************)
(* Marriage and law, among those who come and go in Combat.                *)
(*                                                                         *)
(* Two characters that have declared each other their fiances to an NPC of *)
(* the law ask a priest, who leads them through a ceremony in steps of a   *)
(* timer, during which they may leave, log out or ask again.  A divorce    *)
(* is one step, with a partner who may be away.                            *)
(*                                                                         *)
(* Gold, clothes, levels and rings are left out: who may be refused for    *)
(* them may be.  Characters are not deleted from their accounts, and names *)
(* are characters.                                                         *)
(***************************************************************************)
EXTENDS Combat

CONSTANTS
    Priest, Law,     \* NPCs of these types
    DivorcesStale    \* who is divorced may be at the menu, loaded

ASSUME PriestsServe == Priest \cup Law \subseteq Serving /\ Priest \cap Law = {}

\* Character::fiance and Character::partner, or the row of a character that is not loaded.
VARIABLE vows

Single == [fiance |-> None, partner |-> None]
Vows == [fiance : Char \cup {None}, partner : Char \cup {None}]

\* Who is married is so with one who is married to it, and is engaged to nobody.
Mutual(v) ==
    \A c \in Char : LET d == v[c].partner
                    IN d # None => d # c /\ v[d].partner = c /\ v[c].fiance = None

\* Law_Request, LAW_ACTION_MARRIAGE: any name will do.
Law_Marriage(c, name) ==
    /\ npc[c] \in Law /\ vows[c].partner = None
    /\ vows' = [vows EXCEPT ![c].fiance = name]
    /\ UNCHANGED vars

\* Mutant: who is away hears nothing of it.
Law_Divorce_Online(c) ==
    /\ npc[c] \in Law /\ vows[c].partner # None
    /\ LET d == vows[c].partner
       IN vows' = [vows EXCEPT ![c].partner = None,
                               ![d].partner = IF where[d] = None THEN @ ELSE None]
    /\ UNCHANGED vars
\* Law_Request, LAW_ACTION_DIVORCE.  Of a partner that is not in the world the row is
\* written, which one at the menu writes over when it is saved.
Law_Divorce(c) ==
    /\ npc[c] \in Law /\ vows[c].partner # None
    /\ LET d == vows[c].partner
           kept == DivorcesStale /\ where[d] = None
       IN \E p \in {None} \cup (IF kept THEN {vows[d].partner} ELSE {}) :
             vows' = [vows EXCEPT ![c].partner = None, ![d].partner = p]
    /\ UNCHANGED vars

Marriage(o) == object[o].marriage
Married(o, m) == Become([Memory EXCEPT !.object[o].marriage = m])

\* Priest_Request.  A ceremony that the priest has begun is forgotten.
Priest_Request(c, d) ==
    /\ npc[c] \in Priest /\ d # c /\ where[d] = where[c]
    /\ vows[d].partner = None /\ vows[c].fiance = d /\ vows[d].fiance = c
    /\ Become([Memory EXCEPT !.npc[d] = npc[c],
                             !.object[npc[c]].marriage =
                                 [partner |-> <<c, d>>, accepted |-> <<FALSE, FALSE>>,
                                  begun |-> FALSE, state |-> 1]])
    /\ UNCHANGED vows

\* Priest_Accept, by the one who was asked, however often.
Priest_Accept(c) ==
    /\ npc[c] \in Priest /\ Marriage(npc[c]) # None
    /\ LET m == Marriage(npc[c])
       IN m.partner[2] = c /\ Married(npc[c], [m EXCEPT !.begun = TRUE, !.state = 1])
    /\ UNCHANGED vows

\* Priest_Use: "I do", at any time.
Priest_Use(c) ==
    /\ npc[c] \in Priest /\ Marriage(npc[c]) # None
    /\ LET m == Marriage(npc[c])
       IN Married(npc[c], [m EXCEPT !.accepted = [i \in 1..2 |-> @[i] \/ m.partner[i] = c]])
    /\ UNCHANGED vows

-----------------------------------------------------------------------------
(***************************************************************************)
(* world_execute_weddings.                                                 *)
(***************************************************************************)

\* A partner is not online, or on another map.  Of one that was deleted the memory is
\* read, which says offline as long as nobody else has it.
Missing(m) == \E i \in 1..2 : m.partner[i] = Dangling \/ where[m.partner[i]] # Home

Agreed(m) == (m.state = 5 /\ m.accepted[1]) \/ (m.state = 8 /\ m.accepted[2])

\* The next step of a ceremony, without waiting where who was asked has agreed.  Who does
\* not is not asked again, and state 10 goes on as 11.
Waits(m, late) == ~Agreed(m) /\ ~late
Execute(m, late) ==
    IF m = None \/ ~m.begun THEN m
    ELSE IF Missing(m) THEN None
    ELSE IF Waits(m, late) THEN m
    ELSE IF m.state = 14 THEN None
    ELSE [m EXCEPT !.state = IF @ = 10 THEN 12 ELSE @ + 1]

\* The partners are married after state 14.
Finishes(m, late) ==
    m # None /\ m.begun /\ ~Missing(m) /\ ~Waits(m, late) /\ m.state = 14
Spouse(m, c) == m.partner[IF m.partner[1] = c THEN 2 ELSE 1]

\* Of those who are married by two priests at a time the last counts.
ExecuteWeddings ==
    \E late \in SUBSET Priest :
        LET list == npcs[Home]
            Weds(c) == {i \in DOMAIN list : LET m == Marriage(list[i]) IN
                          Finishes(m, list[i] \in late) /\ c \in {m.partner[1], m.partner[2]}}
            Latest(I) == CHOOSE i \in I : \A j \in I : j <= i
        IN /\ object' = [o \in Object |->
                 IF o \in ToSet(list)
                 THEN [object[o] EXCEPT !.marriage = Execute(@, o \in late)] ELSE object[o]]
           /\ vows' = [c \in Char |->
                 IF Weds(c) = {} THEN vows[c]
                 ELSE [fiance |-> None, partner |-> Spouse(Marriage(list[Latest(Weds(c))]), c)]]
           /\ UNCHANGED <<where, unregister, pet, npc, arena, npcs>>

-----------------------------------------------------------------------------
Ceremonies ==
    \/ \E c, d \in Char : Law_Marriage(c, d) \/ Priest_Request(c, d)
    \/ \E c \in Char : Law_Divorce(c) \/ Priest_Accept(c) \/ Priest_Use(c)
    \/ ExecuteWeddings

-----------------------------------------------------------------------------
(***************************************************************************)
(* Properties.                                                             *)
(***************************************************************************)

\* Marriages are mutual, and who is married is engaged to nobody: through ceremonies that
\* are left, forgotten or begun again, engagements that change under them, and divorces
\* of those who are away.
MarriagesMutual == Mutual(vows)

=============================================================================

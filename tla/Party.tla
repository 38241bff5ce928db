-------------------------------- MODULE Party --------------------------------
(***************************************************************************)
(* Parties: groups that characters form by a request and its acceptance.   *)
(*                                                                         *)
(* Who is in a party is kept twice: every character points to its party,   *)
(* and the party lists its members.  A handler that makes somebody leave   *)
(* one party may put them in another, so the changes are operators on the  *)
(* record of all parties, and a handler composes them.                     *)
(***************************************************************************)
EXTENDS Characters, Integers, FiniteSets, Functions

CONSTANTS
    Group,        \* parties, the bound on those that exist at once
    None,         \* the null pointer
    Requests,     \* the requests made: who, to whom, and of which type
    MaxEntries,   \* bound on how often a character is listed in one party
    StrayKicks    \* whether leaders kick characters that are not in their party

ASSUME NoneIsNone == None \notin Char \cup Group
ASSUME RequestsAreTyped == Requests \subseteq Char \X Char \X {"Join", "Invite"}
ASSUME BoundsAreTyped == StrayKicks \in BOOLEAN /\ MaxEntries \in Nat

VARIABLES
    online,      \* characters in the world
    groups,      \* Character::party, Party::leader and Party::members
    sent,        \* Character::party_trust_send
    received,    \* Character::party_trust_recv
    send_type    \* Character::party_send_type

party_vars == <<online, groups, sent, received, send_type>>

Pointer == Char \cup {None}
Nobody == [c \in Char |-> 0]

Alive(g) == groups.leader[g] # None
Size(s, g) == SumFunctionOnSet(s.members[g], Char)

-----------------------------------------------------------------------------
(***************************************************************************)
(* Party.                                                                  *)
(***************************************************************************)

\* Mutant: only the leader is told.
Disband_Leader(s, g) ==
    [s EXCEPT !.party[s.leader[g]] = None, !.leader[g] = None, !.members[g] = Nobody]

\* Party::~Party
Disband(s, g) ==
    [party |-> [c \in Char |-> IF s.members[g][c] > 0 THEN None ELSE s.party[c]],
     leader |-> [s.leader EXCEPT ![g] = None],
     members |-> [s.members EXCEPT ![g] = Nobody]]

\* Party::Leave.  The party goes on without who leaves, unless it was the leader or
\* the last but one.  Whether it was a member is not looked at.
Leave(s, g, c) ==
    IF Size(s, g) > 2 /\ c # s.leader[g]
    THEN [s EXCEPT !.party[c] = None, !.members[g][c] = IF @ > 0 THEN @ - 1 ELSE 0]
    ELSE Disband(s, g)

\* Party::Party
Found(s, g, leader, other) ==
    [party |-> [s.party EXCEPT ![leader] = g, ![other] = g],
     leader |-> [s.leader EXCEPT ![g] = leader],
     members |-> [s.members EXCEPT ![g] = [Nobody EXCEPT ![leader] = 1, ![other] = 1]]]

\* Party::Join
Join(s, g, c) == [s EXCEPT !.party[c] = g, !.members[g][c] = @ + 1]

-----------------------------------------------------------------------------
(***************************************************************************)
(* Handlers.                                                               *)
(***************************************************************************)
Party_Request(c, invitee, type) ==
    /\ {c, invitee} \subseteq online /\ c # invitee
    /\ sent' = [sent EXCEPT ![c] = invitee]
    /\ received' = [received EXCEPT ![invitee] = c]
    /\ send_type' = [send_type EXCEPT ![c] = type]
    /\ UNCHANGED <<online, groups>>

\* Who is in a party leaves it before it joins another.
LeaveOwn(s, c) == IF s.party[c] # None THEN Leave(s, s.party[c], c) ELSE s

\* One joins the party of the other, or they found one.
Gather(s, host, guest) ==
    IF s.party[host] # None
    THEN /\ s.members[s.party[host]][guest] < MaxEntries
         /\ groups' = Join(s, s.party[host], guest)
    ELSE \E g \in Group : s.leader[g] = None /\ groups' = Found(s, g, host, guest)

Party_Accept(c, inviter) ==
    /\ {c, inviter} \subseteq online
    /\ sent[inviter] = c /\ received[c] = inviter
    /\ IF send_type[inviter] = "Join"
       THEN Gather(LeaveOwn(groups, inviter), c, inviter)
       ELSE Gather(LeaveOwn(groups, c), inviter, c)
    /\ received' = [received EXCEPT ![c] = None]
    /\ sent' = [sent EXCEPT ![inviter] = None]
    /\ UNCHANGED <<online, send_type>>

\* One leaves its party, or the leader removes somebody, who is looked for in the
\* whole world.
Packet_Remove(c, leaver) ==
    LET g == groups.party[c] IN
    /\ c \in online /\ g # None
    /\ leaver = c \/ c = groups.leader[g]
    /\ leaver \in online
    /\ StrayKicks \/ groups.party[leaver] = g
    /\ groups' = Leave(groups, g, leaver)
    /\ UNCHANGED <<online, sent, received, send_type>>

-----------------------------------------------------------------------------
(***************************************************************************)
(* The world.                                                              *)
(***************************************************************************)

\* A character is created where there is none, maybe where one was deleted that others
\* still point to, who now point to the new one.
Login(c) ==
    /\ c \notin online
    /\ online' = online \cup {c}
    /\ sent' = [sent EXCEPT ![c] = None]
    /\ received' = [received EXCEPT ![c] = None]
    /\ UNCHANGED <<groups, send_type>>

\* Mutant: who logs out stays in its party.
Abandon_Not(c) == groups

\* A character leaves its party when it logs out.
Abandon(c) == LeaveOwn(groups, c)

\* Character::Logout, after which the character is deleted.
Logout(c) ==
    /\ c \in online
    /\ online' = online \ {c}
    /\ groups' = Abandon(c)
    /\ UNCHANGED <<sent, received, send_type>>

PartyInit ==
    /\ online = {}
    /\ groups = [party |-> [c \in Char |-> None],
                 leader |-> [g \in Group |-> None],
                 members |-> [g \in Group |-> Nobody]]
    /\ sent = [c \in Char |-> None]
    /\ received = [c \in Char |-> None]
    /\ send_type = [c \in Char |-> "Join"]

PartyNext == \E c \in Char :
    \/ \E d \in Char :
          \/ \E type \in {"Join", "Invite"} :
                /\ <<c, d, type>> \in Requests
                /\ Party_Request(c, d, type)
          \/ Party_Accept(c, d)
          \/ Packet_Remove(c, d)
    \/ Login(c)
    \/ Logout(c)

PartySpec == PartyInit /\ [][PartyNext]_party_vars

-----------------------------------------------------------------------------
PartyTypeOK ==
    /\ online \subseteq Char
    /\ groups \in [party : [Char -> Group \cup {None}],
                   leader : [Group -> Pointer],
                   members : [Group -> [Char -> Nat]]]
    /\ sent \in [Char -> Pointer]
    /\ received \in [Char -> Pointer]
    /\ send_type \in [Char -> {"Join", "Invite"}]

\* The party a character points to exists and lists it, so it is told when that party
\* is disbanded and its pointer never outlives the party.
MembershipKnown ==
    \A c \in Char : groups.party[c] # None =>
        Alive(groups.party[c]) /\ groups.members[groups.party[c]][c] > 0

\* A party is listed in no other way: whoever is listed is in the world and points
\* to that party alone, once, and so does its leader.  Party::UpdateHP and the quest
\* rewards follow these pointers without a test.  A leader who removes somebody
\* outside of the party breaks it.
MembersMatch ==
    \A g \in Group :
        /\ \A c \in Char : groups.members[g][c] = IF groups.party[c] = g THEN 1 ELSE 0
        /\ Alive(g) => groups.leader[g] \in online /\ groups.party[groups.leader[g]] = g
        /\ \A c \in Char : groups.party[c] = g => c \in online

=============================================================================

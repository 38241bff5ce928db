------------------------------ MODULE MCQuest ------------------------------
(* Small instances of Party and its quests for TLC. *)
EXTENDS Quests, TLC

CONSTANTS c1, c2, c3, c4

GroupSymmetry == Permutations(Group)

\* Four who invite each other round, one of whom asks back.
Circle ==
    {<<c1, c2, "Invite">>, <<c2, c3, "Invite">>, <<c3, c4, "Invite">>, <<c4, c3, "Join">>,
     <<c4, c1, "Invite">>}

-----------------------------------------------------------------------------
(* Two quests.  Of an action: its condition and what it does. *)
Test(rule, args) == [rule |-> rule, args |-> args]
Do(act, args) == [act |-> act, args |-> args]
Other(act, quest, state) ==
    [cond |-> "None", test |-> Test("always", 0),
     do |-> [act |-> act, quest |-> quest, args |-> state]]
Action(act, args) == [cond |-> "None", test |-> Test("always", 0), do |-> Do(act, args)]
If(test, act, args) == [cond |-> "If", test |-> test, do |-> Do(act, args)]
ElseIf(test, act, args) == [cond |-> "ElseIf", test |-> test, do |-> Do(act, args)]
Else(act, args) == [Action(act, args) EXCEPT !.cond = "Else"]
Rule(test, act, args) == [test |-> test, do |-> Do(act, args)]

\* The welcome: who brings an item gives it to the party, or is sent on the errand.
Welcome == [
    begin |-> [actions |-> <<>>,
               rules |-> <<Rule(Test("gotitems", 1), "setstate", "gift"),
                           Rule(Test("leavemap", "town"), "setstate", "away")>>],
    away |-> [actions |-> <<Other("resetquest", 1, ""), Action("reset", 0)>>,
              rules |-> <<>>],
    gift |-> [actions |-> <<Action("removeitem", 0),
                            Other("setqueststate", 1, "begin"),
                            If(Test("isleader", 0), "givepartyitem", 0),
                            ElseIf(Test("inparty", 2), "givepartyitem", 0),
                            [Other("startquest", 1, "begin") EXCEPT !.cond = "Else"],
                            Action("end", 0)>>,
              rules |-> <<>>]]

\* The errand, once a day: hunt and come back; greed is punished by a loop.
Errand == [
    begin |-> [actions |-> <<>>,
               rules |-> <<Rule(Test("inputnpc", 1), "setstate", "ask"),
                           Rule(Test("inputnpc", 2), "setstate", "refused")>>],
    ask |-> [actions |-> <<If(Test("donedaily", 1), "setstate", "tired"),
                           Else("setstate", "hunt")>>,
             rules |-> <<>>],
    refused |-> [actions |-> <<Action("reset", 0)>>, rules |-> <<>>],
    hunt |-> [actions |-> <<>>,
              rules |-> <<Rule(Test("killednpcs", 2), "setstate", "back"),
                          Rule(Test("leavemap", "town"), "setstate", "lost")>>],
    lost |-> [actions |-> <<Action("setcoord", "town")>>,
              rules |-> <<Rule(Test("entermap", "town"), "setstate", "hunt")>>],
    back |-> [actions |-> <<>>,
              rules |-> <<Rule(Test("inputnpc", 1), "setstate", "reward"),
                          Rule(Test("inputnpc", 2), "setstate", "greedy")>>],
    reward |-> [actions |-> <<Action("giveitem", 0), Action("resetdaily", 0)>>, rules |-> <<>>],
    greedy |-> [actions |-> <<>>, rules |-> <<Rule(Test("always", 0), "giveitem", 0)>>],
    tired |-> [actions |-> <<>>, rules |-> <<Rule(Test("inputnpc", 1), "reset", 0)>>]]

Stories == 0 :> Welcome @@ 1 :> Errand

-----------------------------------------------------------------------------
(* Parties are formed by four as long as nobody has quests; then two go on. *)
Untouched ==
    /\ loaded = {} /\ depth = 0
    /\ quests = [x \in Char |-> NoQuests] /\ inactive = [x \in Char |-> Nothing]
    /\ saved = [x \in Char |-> Nothing]
    /\ place = [x \in Char |-> Home] /\ has = [x \in Char |-> 0]

Settled ==
    /\ online \subseteq {c1, c2}
    /\ \A x \in Char : sent[x] = None /\ received[x] = None
    /\ \A x \in Char \ {c1} : send_type[x] = "Join"
    /\ loaded \in {{0, 1}, {0}}
    /\ place[c2] = Home /\ saved[c2] = Nothing /\ inactive[c2] = Nothing /\ quests[c2][1] = Absent

Calm == Untouched \/ Settled
=============================================================================

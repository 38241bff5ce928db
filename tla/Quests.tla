------------------------------- MODULE Quests -------------------------------
(***************************************************************************)
(* The quests of characters, among those who form parties.                 *)
(*                                                                         *)
(* A quest is a script of states; a state has actions, done when it is     *)
(* entered, and rules, each a test and the action to take when it holds.   *)
(* Actions change what rules test, and every such change checks the rules  *)
(* of all the quests again, from inside of the action: one handler may     *)
(* enter many states of many quests and reset the quest it is in.  The     *)
(* evaluator is written here as operators on the memory a handler sees,    *)
(* where a context is alive while the character's table or a pointer on    *)
(* the stack holds it, with the exceptions and the count of the depth.     *)
(***************************************************************************)
EXTENDS Party, Sequences

LOCAL INSTANCE SequencesExt
LOCAL INSTANCE FiniteSetsExt

CONSTANTS
    Absent,        \* what a table holds under a key it does not have
    LastQuest,     \* quests are numbered from zero
    Scripts,       \* the states of every quest, their actions and rules
    Places,        \* maps
    Home,          \* where characters are created
    MaxItem,       \* config: the most of one item
    MaxDepth,      \* EOPlus::max_recursion
    MaxLeak,       \* bound on how far the depth is counted below zero
    KillShare,     \* config: KillNPCPartyShare
    ReloadsAgain   \* whether quests are reloaded twice while somebody is online

Quest == 0 .. LastQuest
QuestsInOrder == [n \in 1 .. LastQuest + 1 |-> n - 1]

ASSUME QuestsAreTyped ==
    /\ {LastQuest, MaxItem, MaxDepth, MaxLeak} \subseteq Nat
    /\ Absent # None /\ Home \in Places
    /\ {KillShare, ReloadsAgain} \subseteq BOOLEAN

\* A quest begins in a state of its script.  That setstate leads to one is checked when
\* the file is read; that the other actions do is left to whoever writes it.
ASSUME ScriptsAreWhole ==
    /\ DOMAIN Scripts = Quest
    /\ \A q \in Quest : "begin" \in DOMAIN Scripts[q]

VARIABLES
    loaded,     \* World::quests: the numbers of those that are loaded
    quests,     \* Character::quests: absent, a null pointer, or a context
    inactive,   \* Character::quests_inactive: states that could not be resumed
    saved,      \* the quest column of characters that are offline
    place,      \* Character::mapid
    has,        \* how many of the one item that quests give a character has
    depth,      \* EOPlus::recursive_depth
    done,       \* of each quest: how often its daily reward was taken today, how
                \* often it came to its end
    corrupt     \* a context was used that is no more

questvars == <<loaded, quests, inactive, saved, place, has, depth, done, corrupt>>

\* A context: the name of its state and its progress.  The day is kept as whether it
\* is today, the count of rewards (key "c") may be missing.
Fresh == [name |-> "", today |-> FALSE, count |-> None, kills |-> 0]

Nothing == [q \in Quest |-> None]
NoQuests == [q \in Quest |-> Absent]

-----------------------------------------------------------------------------
(***************************************************************************)
(* What a handler has in memory.  A context is known by its character, its *)
(* quest and a number, for there may be an old one beside a new one.  What *)
(* functions return is left there as well: CheckRule whether the test      *)
(* holds, DoAction whether it stops the loop over the rules.               *)
(***************************************************************************)
Memory(table, files) ==
    [loaded |-> files,
     at |-> [c \in Char |-> [q \in Quest |->
                IF table[c][q] \in {Absent, None} THEN table[c][q] ELSE 1]],
     contexts |-> [c \in Char |-> [q \in Quest |->
                IF table[c][q] \in {Absent, None} THEN <<>> ELSE <<table[c][q]>>]],
     held |-> {},
     place |-> place, has |-> has, depth |-> depth, done |-> done,
     holds |-> FALSE, stops |-> FALSE, last |-> FALSE,
     thrown |-> FALSE, corrupt |-> FALSE]

Id(S, c, q) == [char |-> c, quest |-> q, copy |-> S.at[c][q]]
Context(S, i) == S.contexts[i.char][i.quest][i.copy]
Alone(S, c, q) == S.at[c][q] \in {Absent, None}   \* GetQuest gives a null pointer

Live(S, i) == S.at[i.char][i.quest] = i.copy \/ i \in S.held
Throw(S) == [S EXCEPT !.thrown = TRUE]
Fault(S) == [Throw(S) EXCEPT !.corrupt = TRUE]

\* Mutant: a loop over the quests by reference.
Hold_Not(S, i) == S

\* A copy of the pointer lives on the stack: loops over quests copy each, and handlers
\* keep the one they work on.
Hold(S, i) == [S EXCEPT !.held = @ \cup {i}]
Release(T, S) == [T EXCEPT !.held = S.held]

\* A new context put in the table, maybe over one that was there.
Insert(S, c, q) ==
    [S EXCEPT !.contexts[c][q] = Append(@, Fresh), !.at[c][q] = Len(S.contexts[c][q]) + 1]

States(i) == DOMAIN Scripts[i.quest]
HasState(S, i) == Context(S, i).name \in States(i)
State(S, i) == Scripts[i.quest][Context(S, i).name]

\* Quest_Context::BeginState.  The day and the count are kept.
BeginState(S, i) == [S EXCEPT !.contexts[i.char][i.quest][i.copy].kills = 0]

-----------------------------------------------------------------------------
(***************************************************************************)
(* Rules.                                                                  *)
(***************************************************************************)
PartyOf(c) == groups.party[c]
InParty(c) == PartyOf(c) # None

\* Quest_Context::CheckRule.  Asking for the daily count starts a new day.  Rules that
\* wait for a deed hold only when that is what triggers them.
CheckRule(S, i, test) ==
    LET c == i.char
        progress == Context(S, i)
        Says(holds) == [S EXCEPT !.holds = holds]
    IN CASE test.rule = "always" -> Says(TRUE)
         [] test.rule = "donedaily" ->
               IF progress.today THEN Says(progress.count >= test.args)
               ELSE [Says(FALSE) EXCEPT !.contexts[c][i.quest][i.copy] =
                        [progress EXCEPT !.today = TRUE, !.count = 0]]
         [] test.rule = "entermap" -> Says(S.place[c] = test.args)
         [] test.rule = "leavemap" -> Says(S.place[c] # test.args)
         [] test.rule = "isleader" -> Says(InParty(c) /\ groups.leader[PartyOf(c)] = c)
         [] test.rule = "inparty" -> Says(InParty(c) /\ Size(groups, PartyOf(c)) = test.args)
         [] test.rule = "gotitems" -> Says(S.has[c] >= test.args)
         [] test.rule = "lostitems" -> Says(S.has[c] < test.args)
         [] test.rule \in {"inputnpc", "killednpcs"} -> Says(FALSE)

-----------------------------------------------------------------------------
(***************************************************************************)
(* States, actions and rules call each other.                              *)
(***************************************************************************)
RECURSIVE DoAction(_, _, _), CheckRules(_, _)

Deeper(S) == [S EXCEPT !.depth = @ + 1]
Back(S) == [S EXCEPT !.depth = @ - 1]

\* An action that leaves the state counts the depth down, although nothing counted it
\* up, and does not end the loop over the actions.
Counted(S, last) ==
    [S EXCEPT !.last = last, !.depth = IF S.stops /\ ~S.thrown THEN @ - 1 ELSE @]

Act(S, i, action) ==
    LET asks == action.cond \in {"If", "ElseIf"}
        T == IF asks THEN CheckRule(S, i, action.test) ELSE [S EXCEPT !.holds = TRUE]
    IN IF S.thrown \/ (S.last /\ action.cond \in {"ElseIf", "Else"}) THEN S
       ELSE IF T.holds THEN Counted(DoAction(T, i, action.do), S.last \/ asks)
       ELSE [T EXCEPT !.last = FALSE]

\* Context::DoActions, which ends with the rules of the state that it is in then.
DoActions(S, i) ==
    IF S.depth >= MaxDepth THEN Throw(S)
    ELSE CheckRules(Back(FoldLeft(LAMBDA T, action : Act(T, i, action),
                                  Deeper([S EXCEPT !.last = FALSE]),
                                  State(S, i).actions)), i)

\* Context::SetState, where actions follow.  A quest that is at its end, or done, has no
\* state, unless its script has one of that name.
SetState(S, i, name) ==
    LET T == [S EXCEPT !.contexts[i.char][i.quest][i.copy].name = name] IN
    IF ~Live(S, i) THEN Fault(S)
    ELSE IF name \in States(i) THEN DoActions(BeginState(T, i), i)
    ELSE T

Obey(S, i, rule) ==
    LET T == CheckRule(S, i, rule.test) IN
    IF S.thrown \/ S.stops THEN S
    ELSE IF T.holds THEN DoAction(T, i, rule.do)
    ELSE T

\* Context::CheckRules: up to the first rule whose action leaves the state.
CheckRules(S, i) ==
    IF S.thrown THEN S
    ELSE IF ~Live(S, i) THEN Fault(S)
    ELSE IF ~HasState(S, i) THEN S
    ELSE IF S.depth >= MaxDepth THEN Throw(S)
    ELSE Back(FoldLeft(LAMBDA T, rule : Obey(T, i, rule),
                       Deeper([S EXCEPT !.stops = FALSE]),
                       State(S, i).rules))

\* Character::CheckQuestRules: quest after quest, those included that come in on the way.
CheckQuest(S, c, q) ==
    IF S.thrown \/ Alone(S, c, q) THEN S
    ELSE Release(CheckRules(Hold(S, Id(S, c, q)), Id(S, c, q)), S)

CheckQuestRules(S, c) ==
    FoldLeft(LAMBDA T, q : CheckQuest(T, c, q), S, QuestsInOrder)

\* Character::AddItem and DelItem, with the rules that CalculateStats checks.
GiveItem(S, c) ==
    IF S.thrown THEN S
    ELSE CheckQuestRules([S EXCEPT !.has[c] = IF @ < MaxItem THEN @ + 1 ELSE MaxItem], c)

RemoveItem(S, c) ==
    IF S.has[c] = 0 THEN S ELSE CheckQuestRules([S EXCEPT !.has[c] = @ - 1], c)

\* Character::Warp and what Map::Enter checks.
Warp(S, c, to) == CheckQuestRules([S EXCEPT !.place[c] = to], c)

\* The members of a party, of whom the leader is the first.
Members(g) ==
    <<groups.leader[g]>> \o SetToSeq({c \in Char \ {groups.leader[g]} : groups.members[g][c] > 0})

\* The actions giveitem and givepartyitem: one, or all that are on the leader's map when
\* it is their turn.
Give(S, do, c) ==
    LET party == do.act = "givepartyitem" /\ InParty(c)
        leader == IF party THEN groups.leader[PartyOf(c)] ELSE c
    IN FoldLeft(LAMBDA T, member :
                    IF T.place[member] = T.place[leader] THEN GiveItem(T, member) ELSE T,
                S, IF party THEN Members(PartyOf(c)) ELSE <<c>>)

\* The state that an action leads to.
NextState(do) ==
    CASE do.act \in {"setstate", "startquest", "setqueststate"} -> do.args
      [] do.act \in {"reset", "resetdaily", "resetquest"} -> "done"
      [] do.act = "end" -> "end"

\* The actions startquest, resetquest and setqueststate, which put another quest in a
\* state.  A quest that the character does not have, or has done, is started; where the
\* table has a null pointer under its number the new context is not put there, and lost
\* when the action is over.  A quest is reset by whether this one, not that one, has a
\* count.  The last of the three works with a bare pointer.
StartQuest(S, c, q, name) ==
    LET new == Insert(S, c, q)
        null == S.at[c][q] = None
    IN IF Alone(S, c, q) /\ q \in S.loaded
       THEN Release(SetState(Hold(IF null THEN [new EXCEPT !.at[c][q] = None] ELSE new,
                                  Id(new, c, q)), Id(new, c, q), name), S)
       ELSE S

Restarts(S, i, do) ==
    \/ do.act = "startquest" /\ Context(S, Id(S, i.char, do.quest)).name = "done"
    \/ do.act = "resetquest" /\ Context(S, i).count = None
    \/ do.act = "setqueststate"

OtherQuest(S, i, do) ==
    LET c == i.char
        other == Id(S, c, do.quest)
        T == IF do.act = "setqueststate" THEN S ELSE Hold(S, other)
    IN IF Alone(S, c, do.quest)
       THEN IF do.act = "startquest" THEN StartQuest(S, c, do.quest, NextState(do)) ELSE S
       ELSE IF Restarts(S, i, do) THEN Release(SetState(T, other, NextState(do)), S)
       ELSE IF do.act = "resetquest" THEN [S EXCEPT !.at[c][do.quest] = None]
       ELSE S

\* Quest_Context::DoAction: what it takes down, whether it leaves the state of the quest
\* that it is an action of, and what it does.
OnOthers == {"startquest", "resetquest", "setqueststate"}

Rewarded(S, i, do) ==
    CASE do.act = "resetdaily" ->
            [S EXCEPT !.contexts[i.char][i.quest][i.copy] =
                         [@ EXCEPT !.today = TRUE, !.count = IF @ = None THEN 1 ELSE @ + 1],
                      !.done[i.char][i.quest].daily = @ + 1]
      [] do.act = "end" -> [S EXCEPT !.done[i.char][i.quest].ended = @ + 1]
      [] OTHER -> S

OnItself(S, i, do) ==
    /\ do.act \in {"resetquest", "setqueststate"}
    /\ do.quest = i.quest
    /\ do.act = "resetquest" \/ ~Alone(S, i.char, i.quest)

Stops(S, stops) == [S EXCEPT !.stops = stops]

DoAction(S, i, do) ==
    LET c == i.char IN
    IF ~Live(S, i) THEN Fault(S)
    ELSE IF do.act = "reset" /\ Context(S, i).count = None
         THEN Stops([S EXCEPT !.at[c][i.quest] = None], TRUE)
    ELSE IF do.act \in {"setstate", "reset", "resetdaily", "end"}
         THEN Stops(SetState(Rewarded(S, i, do), i, NextState(do)), TRUE)
    ELSE Stops(CASE do.act \in OnOthers -> OtherQuest(S, i, do)
                 [] do.act = "setcoord" -> Warp(S, c, do.args)
                 [] do.act = "removeitem" -> RemoveItem(S, c)
                 [] do.act \in {"giveitem", "givepartyitem"} -> Give(S, do, c),
               OnItself(S, i, do))

-----------------------------------------------------------------------------
(***************************************************************************)
(* Handlers.  One that throws leaves what it did; its client is closed and *)
(* its character logs out in a later step.                                 *)
(***************************************************************************)
Now == Memory(quests, loaded)

Table(S) == [c \in Char |-> [q \in Quest |->
                IF Alone(S, c, q) THEN S.at[c][q] ELSE Context(S, Id(S, c, q))]]

\* The depth below zero is followed down to its bound.
Becomes(S) ==
    /\ quests' = Table(S)
    /\ place' = S.place
    /\ has' = S.has
    /\ depth' = IF S.depth < -MaxLeak THEN -MaxLeak ELSE S.depth
    /\ done' = S.done
    /\ corrupt' = (corrupt \/ S.corrupt)

\* Somebody talks to the quest's NPC, whose vendor number is the quest's.
Quest_Use(c, q) ==
    LET new == Insert(Now, c, q)
        i == IF Alone(Now, c, q) THEN Id(new, c, q) ELSE Id(Now, c, q)
    IN /\ c \in online /\ q > 0
       /\ \/ /\ Alone(Now, c, q) /\ q \in loaded
             /\ Becomes(SetState(Hold(new, i), i, "begin"))
          \/ /\ ~Alone(Now, c, q) /\ Context(Now, i).name = "done"
             /\ Becomes(SetState(Hold(Now, i), i, "begin"))
       /\ UNCHANGED <<loaded, inactive, saved>>
       /\ UNCHANGED party_vars

\* Context::TriggerRule: the first rule that waits for the deed, and no more than was
\* done, acts.
Trigger(S, i, rule, enough) ==
    LET rules == IF HasState(S, i) THEN State(S, i).rules ELSE <<>>
        those == SelectSeq(rules, LAMBDA r : r.test.rule = rule /\ r.test.args \in enough)
    IN IF those = <<>> THEN S ELSE DoAction(S, i, Head(those).do)

Waits(S, i, rule) ==
    HasState(S, i) /\ \E r \in Range(State(S, i).rules) : r.test.rule = rule

\* One answers a dialog, which offers the inputs that the state waits for.
Quest_Accept(c, q, input) ==
    LET i == Id(Now, c, q) IN
    /\ c \in online /\ ~Alone(Now, c, q)
    /\ HasState(Now, i)
    /\ \E r \in Range(State(Now, i).rules) : r.test = [rule |-> "inputnpc", args |-> input]
    /\ Becomes(Trigger(Hold(Now, i), i, "inputnpc", {input}))
    /\ UNCHANGED <<loaded, inactive, saved>>
    /\ UNCHANGED party_vars

\* Quest_Context::KilledNPC.
Kills(S, i) == Context(S, i).kills

KilledNPC(S, i) ==
    LET T == [S EXCEPT !.contexts[i.char][i.quest][i.copy].kills = @ + 1]
        met == \E r \in Range(State(S, i).rules) :
                  r.test.rule = "killednpcs" /\ Kills(T, i) >= r.test.args
        U == Trigger(T, i, "killednpcs", 0 .. Kills(T, i))
    IN IF ~Waits(S, i, "killednpcs") THEN S
       ELSE IF met /\ ~U.thrown
            THEN [U EXCEPT !.contexts[i.char][i.quest][i.copy].kills = 0]
            ELSE U

\* A character's quests, one after the other, are told.
KillCounts(S, c) ==
    FoldLeft(LAMBDA T, q :
                IF T.thrown \/ Alone(T, c, q) THEN T
                ELSE Release(KilledNPC(Hold(T, Id(T, c, q)), Id(T, c, q)), T),
             S, QuestsInOrder)

\* NPC::Killed.  In a party everybody on the map is credited, or nobody.
Killed(c) ==
    LET credited == IF ~InParty(c) THEN <<c>>
                    ELSE IF KillShare THEN Members(PartyOf(c))
                    ELSE <<>>
    IN /\ c \in online
       /\ Becomes(FoldLeft(LAMBDA S, d : IF S.place[d] = S.place[c] THEN KillCounts(S, d) ELSE S,
                           Now, credited))
       /\ UNCHANGED <<loaded, inactive, saved>>
       /\ UNCHANGED party_vars

\* One walks onto a warp.
Travel(c, to) ==
    /\ c \in online /\ place[c] # to
    /\ Becomes(Warp(Now, c, to))
    /\ UNCHANGED <<loaded, inactive, saved>>
    /\ UNCHANGED party_vars

\* Items come and go in the many ways that do not concern quests.
Gain(c) ==
    /\ c \in online /\ has[c] < MaxItem
    /\ Becomes(GiveItem(Now, c))
    /\ UNCHANGED <<loaded, inactive, saved>>
    /\ UNCHANGED party_vars

Lose(c) ==
    /\ c \in online /\ has[c] > 0
    /\ Becomes(RemoveItem(Now, c))
    /\ UNCHANGED <<loaded, inactive, saved>>
    /\ UNCHANGED party_vars

-----------------------------------------------------------------------------
(***************************************************************************)
(* Logging in and out, reloading.                                          *)
(***************************************************************************)

\* A quest that is not loaded, or does not have that state, cannot be resumed.
Resumes(row, q, files) ==
    row # None /\ q \in files /\ row.name \in DOMAIN Scripts[q] \cup {"end", "done"}

\* QuestUnserialize.
Resumed(rows, files) == [q \in Quest |-> IF Resumes(rows[q], q, files) THEN rows[q] ELSE Absent]
Unresumed(rows, files) == [q \in Quest |-> IF Resumes(rows[q], q, files) THEN None ELSE rows[q]]

\* Character::Login: quest zero starts by itself; then the rules of all are checked, and
\* once more when the map is entered.
Begins(S, c) ==
    LET new == Insert(S, c, 0)
        i == Id(new, c, 0)
    IN IF Alone(S, c, 0) /\ 0 \in S.loaded
       THEN Release(SetState(Hold(new, i), i, "begin"), S) ELSE S

EnterWorld(c) ==
    LET S == Memory([quests EXCEPT ![c] = Resumed(saved[c], loaded)], loaded)
        T == CheckQuestRules(CheckQuestRules(Begins(S, c), c), c)
    IN /\ Login(c)
       /\ ~T.thrown
       /\ Becomes(T)
       /\ inactive' = [inactive EXCEPT ![c] = Unresumed(saved[c], loaded)]
       /\ saved' = [saved EXCEPT ![c] = Nothing]
       /\ UNCHANGED loaded

\* Mutant: only quests under way are written.
QuestSerialize_Active(c) ==
    [q \in Quest |-> IF quests[c][q] = Absent THEN None ELSE quests[c][q]]

\* QuestSerialize: null pointers are left out, and keep an inactive state from being
\* written, too.
QuestSerialize(c) == [q \in Quest |-> IF quests[c][q] = Absent THEN inactive[c][q] ELSE quests[c][q]]

LeaveWorld(c) ==
    /\ Logout(c)
    /\ saved' = [saved EXCEPT ![c] = QuestSerialize(c)]
    /\ quests' = [quests EXCEPT ![c] = NoQuests]
    /\ inactive' = [inactive EXCEPT ![c] = Nothing]
    /\ UNCHANGED <<loaded, place, has, depth, done, corrupt>>

\* World::ReloadQuests.  States are put by, unless one of an earlier reload is there
\* still; everybody's quests are cleared, the files read, and the states resumed that
\* can be.
PutBy(c) == [q \in Quest |->
    IF inactive[c][q] # None \/ quests[c][q] = Absent THEN inactive[c][q] ELSE quests[c][q]]

ReloadQuests(files) ==
    LET kept == [c \in Char |-> IF c \in online THEN PutBy(c) ELSE Nothing]
        table == [c \in Char |-> Resumed(kept[c], files)]
    IN /\ ReloadsAgain \/ \A c \in online, q \in Quest :
                                inactive[c][q] # None => quests[c][q] = Absent
       /\ loaded' = files
       /\ inactive' = kept
       /\ Becomes(FoldLeft(LAMBDA S, c : IF S.thrown THEN S ELSE CheckQuestRules(S, c),
                        Memory(table, files), SetToSeq(online)))
       /\ UNCHANGED saved
       /\ UNCHANGED party_vars

\* Midnight.
Yesterday(row) == IF row \in {Absent, None} THEN row ELSE [row EXCEPT !.today = FALSE]

NewDay ==
    /\ quests' = [c \in Char |-> [q \in Quest |-> Yesterday(quests[c][q])]]
    /\ inactive' = [c \in Char |-> [q \in Quest |-> Yesterday(inactive[c][q])]]
    /\ saved' = [c \in Char |-> [q \in Quest |-> Yesterday(saved[c][q])]]
    /\ done' = [c \in Char |-> [q \in Quest |-> [done[c][q] EXCEPT !.daily = 0]]]
    /\ UNCHANGED <<loaded, place, has, depth, corrupt>>
    /\ UNCHANGED party_vars

QuestInit ==
    /\ PartyInit
    /\ loaded = {}
    /\ quests = [c \in Char |-> NoQuests]
    /\ inactive = [c \in Char |-> Nothing]
    /\ saved = [c \in Char |-> Nothing]
    /\ place = [c \in Char |-> Home]
    /\ has = [c \in Char |-> 0]
    /\ depth = 0
    /\ done = [c \in Char |-> [q \in Quest |-> [daily |-> 0, ended |-> 0]]]
    /\ corrupt = FALSE

\* Parties change as they do; only who comes and goes brings quests along.
PartyStep == \E c, d \in Char :
    \/ \E type \in {"Join", "Invite"} :
          <<c, d, type>> \in Requests /\ Party_Request(c, d, type)
    \/ Party_Accept(c, d)
    \/ Packet_Remove(c, d)

QuestNext ==
    \/ PartyStep /\ UNCHANGED questvars
    \/ \E c \in Char :
          \/ EnterWorld(c)
          \/ LeaveWorld(c)
          \/ Killed(c)
          \/ Gain(c)
          \/ Lose(c)
          \/ \E to \in Places : Travel(c, to)
          \/ \E q \in Quest : Quest_Use(c, q) \/ \E input \in 1 .. 2 : Quest_Accept(c, q, input)
    \/ \E files \in SUBSET Quest : ReloadQuests(files)
    \/ NewDay

QuestSpec == QuestInit /\ [][QuestNext]_<<party_vars, questvars>>

-----------------------------------------------------------------------------
\* However deep the quests call each other, and however they end, by a rule, by a reset
\* of the very quest that is being worked on or by an exception, no context is used
\* after its last pointer is gone, and the depth is counted down as often as it was
\* counted up.  Were it not, the quests of all characters would be refused one day.
HandlersUnwind == ~corrupt /\ depth <= 0

\* A quest that came to its end is not done again, and a daily reward not taken more
\* often on one day than its script allows, whatever logging out, reloading and quests
\* that are missing for a while do to its state.
RewardedOnce ==
    \A c \in Char, q \in Quest : done[c][q].daily <= 1 /\ done[c][q].ended <= 1

=============================================================================

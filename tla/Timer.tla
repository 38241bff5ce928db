--------------------------------- MODULE Timer ---------------------------------
(***************************************************************************)
(* The timer of the world, and what hangs on it: casting spells, doors     *)
(* that close, maps that are evacuated, timed spikes, and the check-ins    *)
(* with the server list.                                                   *)
(*                                                                         *)
(* Timer::Tick walks a copy of the registered events in the order of their *)
(* addresses and calls those that are due.  Callbacks register events and  *)
(* delete others, whose addresses may be used again before the walk gets   *)
(* there.  One of the callbacks, server_pump_queue, runs the handlers of   *)
(* packets; they also run between ticks.  The thread of a check-in         *)
(* registers an event of its own.                                          *)
(*                                                                         *)
(* Time is counted in units since an event was registered or last due, and *)
(* stands still during a tick.                                             *)
(***************************************************************************)
EXTENDS Integers, FiniteSets, FiniteSetsExt

CONSTANTS
    Char,        \* characters
    Address,     \* where events may be allocated
    Pump,        \* the address of the event of server_pump_queue
    Speed,       \* of each kind of event
    Steps,       \* EvacuateLength / EvacuateTick (misc.ini:197)
    MaxLag,      \* bound on the time a tick is late
    None

Forever == -1    \* Timer::FOREVER
Kind == {"cast", "close", "evacuate", "spikes", "cleanup", "request"}

ASSUME AddressesAreOrdered == Address \subseteq Nat /\ IsFiniteSet(Address) /\ Pump \in Address
Event ==
    [kind : Kind \cup {"pump"}, param : Char \cup {None}, age : Int, speed : Nat, lifetime : Int]
Spell == [event : Address \cup {None}, ready : BOOLEAN, target : BOOLEAN]

ASSUME CharIsFinite == IsFiniteSet(Char)
ASSUME SpeedsAreKnown == Speed \in [Kind -> Nat] /\ Steps \in Nat
ASSUME NoneIsNone ==
    None \notin Char \cup Address \cup Int \cup BOOLEAN \cup Event \cup Spell
                \cup [age : Int, speed : Nat, lifetime : Int]

VARIABLES
    event,      \* the events in memory, by address
    timers,     \* Timer::timers
    execlist,   \* Timer::execlist
    changed,    \* Timer::changed
    cursor,     \* where the walk is: None outside Tick
    spell,      \* Character::spell_event, spell_ready and spell_target; None out of the world
    asked,      \* how long ago a character asked for its spell, for the properties
    open,       \* Map_Warp::open of a door
    step,       \* map_evacuate_struct::step while evacuate_lock is set
    checking,   \* the thread of a check-in runs; None without a list server
    corrupt     \* an event was read or deleted after it was deleted

vars == <<event, timers, execlist, changed, cursor, spell, asked, open, step, checking,
          corrupt>>

Free == None
NoSpell == [event |-> None, ready |-> FALSE, target |-> FALSE]

\* The event of server_pump_queue: its period is shorter than any loop takes.
AlwaysDue == [kind |-> "pump", param |-> None, age |-> 1, speed |-> 0, lifetime |-> Forever]

Memory == [event |-> event, timers |-> timers, changed |-> changed, spell |-> spell,
           asked |-> asked, open |-> open, step |-> step, checking |-> checking,
           corrupt |-> corrupt]
Become(S) ==
    /\ event' = S.event /\ timers' = S.timers /\ changed' = S.changed
    /\ spell' = S.spell /\ asked' = S.asked /\ open' = S.open /\ step' = S.step
    /\ checking' = S.checking /\ corrupt' = S.corrupt

-----------------------------------------------------------------------------
(***************************************************************************)
(* Events.                                                                 *)
(***************************************************************************)

Unused(S) == {e \in Address : S.event[e] = Free}

\* Handlers leave two for the check-ins, if there are any: memory is bounded here, and
\* not there.
Links(S) == {e \in Address : S.event[e] # Free /\ S.event[e].kind \in {"cleanup", "request"}}
Allocated(S) ==
    LET spare == IF S.checking = None THEN 0 ELSE 2
    IN IF Cardinality(Unused(S) \cup Links(S)) > spare THEN Unused(S) ELSE {}

\* new TimeEvent and Timer::Register, which does nothing for those that never run.
Register(S, e, kind, param, lifetime) ==
    IF lifetime = 0 THEN S
    ELSE [S EXCEPT !.event[e] = [kind |-> kind, param |-> param, age |-> 0,
                                 speed |-> Speed[kind], lifetime |-> lifetime],
                   !.timers = @ \cup {e}, !.changed = TRUE]

\* Timer::Unregister.
Unregister(S, e) == [S EXCEPT !.timers = @ \ {e}, !.changed = TRUE]

\* TimeEvent::~TimeEvent, which unregisters what has a manager.
Delete(S, e) ==
    IF S.event[e] = Free THEN [S EXCEPT !.corrupt = TRUE]
    ELSE [(IF e \in S.timers THEN Unregister(S, e) ELSE S) EXCEPT !.event[e] = Free]

-----------------------------------------------------------------------------
(***************************************************************************)
(* Spells.                                                                 *)
(***************************************************************************)

\* Character::CancelSpell.
CancelSpell(S, c) ==
    LET e == S.spell[c].event
        gone == IF e = None THEN S ELSE Delete(S, e)
    IN [gone EXCEPT !.spell[c] = NoSpell, !.asked[c] = None]

\* Character::SpellAct.  The spell, and the quests of who casts it, may move characters
\* about: Map::Enter cancels what they are casting.
SpellAct(S, c) ==
    LET done == CancelSpell(S, c)
    IN {done} \cup {CancelSpell(done, x) : x \in {y \in Char : done.spell[y] # None}}

\* Mutant: the character still has its event while that is called.
Cast_Kept(S, c) ==
    IF S.spell[c] = None THEN {[S EXCEPT !.corrupt = TRUE]}
    ELSE IF S.spell[c].target THEN SpellAct(S, c)
    ELSE {[S EXCEPT !.spell[c].ready = TRUE, !.spell[c].event = None]}
\* character_cast_spell.  Of spells that are no longer known to the server nothing
\* comes.
Cast(S, c) ==
    LET came == [S EXCEPT !.spell[c].event = None, !.asked[c] = None]
    IN IF S.spell[c] = None THEN {[S EXCEPT !.corrupt = TRUE]}
       ELSE IF S.spell[c].event = None THEN {S}
       ELSE {came} \cup IF S.spell[c].target THEN SpellAct(came, c)
                        ELSE {[came EXCEPT !.spell[c].ready = TRUE]}

\* Handlers::Spell_Request.
Spell_Request(c) ==
    LET free == CancelSpell(Memory, c)
    IN /\ spell[c] # None
       /\ \/ Become(free)
          \/ \E e \in Allocated(free) :
                Become([Register(free, e, "cast", c, 1) EXCEPT !.spell[c].event = e,
                                                               !.asked[c] = 0])

\* Handlers::Spell_Target_Self, Spell_Target_Other and Spell_Target_Group: the
\* timestamp may be wrong; for a spell over an area there may be too few TP.
Spell_Target(c) ==
    LET aimed == [Memory EXCEPT !.spell[c].target = TRUE]
    IN /\ spell[c] # None
       /\ spell[c].event # None \/ spell[c].ready
       /\ \/ Become(CancelSpell(Memory, c))
          \/ Become(aimed)
          \/ spell[c].ready /\ \E S \in SpellAct(aimed, c) : Become(S)

\* Walking, attacking, sitting, facing, and entering a map.
Move(c) == spell[c] # None /\ spell[c] # NoSpell /\ Become(CancelSpell(Memory, c))

Login(c) == spell[c] = None /\ Become([Memory EXCEPT !.spell[c] = NoSpell])
\* Character::Logout, after which the character is deleted.
Logout(c) ==
    /\ spell[c] # None
    /\ Become([CancelSpell(Memory, c) EXCEPT !.spell[c] = None])

-----------------------------------------------------------------------------
(***************************************************************************)
(* Maps and check-ins.                                                     *)
(***************************************************************************)

\* Map::OpenDoor.
OpenDoor ==
    /\ ~open
    /\ \E e \in Allocated(Memory) :
          Become([Register(Memory, e, "close", None, 1) EXCEPT !.open = TRUE])

\* Map::Load makes the tiles of a map anew, and has an event for the timed spikes its file
\* may have.  Map::Reload does not delete the event it had before.
Load(S) == {S} \cup {Register(S, e, "spikes", None, Forever) : e \in Allocated(S)}
Reload == \E S \in Load([Memory EXCEPT !.open = FALSE]) : Become(S)

\* World::Jail of those on the map, who enter another.
Jailed(S) ==
    {FoldSet(LAMBDA c, T : CancelSpell(T, c), S, C) :
        C \in SUBSET {c \in Char : S.spell[c] # None}}

\* map_evacuate.
Evacuated(S) ==
    IF S.step > 0 THEN {[S EXCEPT !.step = @ - 1]}
    ELSE {[T EXCEPT !.step = None] : T \in Jailed(S)}

\* Map::Evacuate.
Evacuate ==
    /\ step = None
    /\ \E e \in Allocated(Memory) :
          \E S \in Evacuated([Register(Memory, e, "evacuate", None, Steps)
                                 EXCEPT !.step = Steps]) : Become(S)

\* SLN::RequestThread, whose requests time out.
RequestThread ==
    /\ checking = TRUE
    /\ \E e \in Unused(Memory) :
          Become([Register(Memory, e, "cleanup", None, 1) EXCEPT !.checking = FALSE])
    /\ UNCHANGED <<execlist, cursor>>

-----------------------------------------------------------------------------
(***************************************************************************)
(* The tick.                                                               *)
(***************************************************************************)

\* The callbacks of the events.
Callback(S, kind, param) ==
    CASE kind = "cast" -> Cast(S, param)
      [] kind = "close" -> {[S EXCEPT !.open = FALSE]}
      [] kind = "evacuate" -> IF S.step = None THEN {[S EXCEPT !.corrupt = TRUE]}
                              ELSE Evacuated(S)
      [] kind = "spikes" -> Jailed(S)
      [] kind = "cleanup" -> {Register(S, e, "request", None, 1) : e \in Unused(S)}
      [] kind = "request" -> {[S EXCEPT !.checking = TRUE]}

\* Mutant: an event is due as soon as its time has come to an end, not after it.
Due_Early(e) == e \in timers /\ event[e].age >= event[e].speed
\* The walk skips what is no longer registered, and what is not due.
Due(e) == e \in timers /\ event[e].age > event[e].speed
Ahead == {e \in execlist : e > cursor}
DueAhead == {e \in Ahead : Due(e)}

StartTick ==
    /\ cursor = None
    /\ cursor' = -1 /\ changed' = FALSE
    /\ execlist' = IF changed THEN timers ELSE execlist
    /\ UNCHANGED <<event, timers, spell, asked, open, step, checking, corrupt>>

\* Mutant: the event is called again and again, whatever its lifetime.
Lived_Again(n) == [n EXCEPT !.age = @ - n.speed]
Lived(n) == [n EXCEPT !.age = @ - n.speed,
                      !.lifetime = IF @ = Forever THEN Forever ELSE @ - 1]
\* An event that has come to the end of its life is unregistered before its callback
\* and deleted after it.
Fire ==
    /\ cursor # None /\ DueAhead # {}
    /\ LET e == Min(DueAhead)
           n == Lived(event[e])
           due == [Memory EXCEPT !.event[e] = n]
           called == IF n.lifetime = 0 THEN Unregister(due, e) ELSE due
       IN /\ e # Pump
          /\ cursor' = e
          /\ \E S \in Callback(called, n.kind, n.param) :
                Become(IF e \in S.timers THEN S ELSE Delete(S, e))
    /\ UNCHANGED execlist

\* server_pump_queue is called: handlers run until the walk goes on.
StartPump ==
    /\ cursor # None /\ DueAhead # {} /\ Min(DueAhead) = Pump
    /\ cursor' = Pump
    /\ UNCHANGED <<event, timers, execlist, changed, spell, asked, open, step, checking,
                   corrupt>>

EndTick ==
    /\ cursor # None /\ DueAhead = {}
    /\ cursor' = None
    /\ UNCHANGED <<event, timers, execlist, changed, spell, asked, open, step, checking,
                   corrupt>>

Handler ==
    /\ cursor \in {None, Pump}
    /\ \/ \E c \in Char : Spell_Request(c) \/ Spell_Target(c) \/ Move(c)
                             \/ Login(c) \/ Logout(c)
       \/ OpenDoor \/ Reload \/ Evacuate
    /\ UNCHANGED <<execlist, cursor>>

\* Timer::GetTime between ticks.
Advance ==
    /\ cursor = None
    /\ \A e \in timers \ {Pump} : event[e].age < event[e].speed + MaxLag
    /\ event' = [e \in Address |-> IF e \in timers \ {Pump}
                                   THEN [event[e] EXCEPT !.age = @ + 1] ELSE event[e]]
    /\ asked' = [c \in Char |-> IF asked[c] = None THEN None ELSE asked[c] + 1]
    /\ UNCHANGED <<timers, execlist, changed, cursor, spell, open, step, checking, corrupt>>

Init ==
    \E configured \in {TRUE, None} :
        /\ execlist = {} /\ cursor = None
        /\ \E S \in Load([event |-> [e \in Address |-> IF e = Pump THEN AlwaysDue ELSE Free],
                          timers |-> {Pump}, changed |-> TRUE,
                          spell |-> [c \in Char |-> None], asked |-> [c \in Char |-> None],
                          open |-> FALSE, step |-> None, checking |-> configured,
                          corrupt |-> FALSE]) :
              /\ event = S.event /\ timers = S.timers /\ changed = S.changed
              /\ spell = S.spell /\ asked = S.asked /\ open = S.open /\ step = S.step
              /\ checking = S.checking /\ corrupt = S.corrupt

Next ==
    \/ Handler \/ RequestThread \/ Advance
    \/ StartTick \/ Fire \/ StartPump \/ EndTick

\* The main loop ticks for ever, time goes on, and requests time out.
Spec ==
    /\ Init /\ [][Next]_vars
    /\ WF_vars(StartTick) /\ WF_vars(Fire) /\ WF_vars(StartPump) /\ WF_vars(EndTick)
    /\ SF_vars(Advance) /\ WF_vars(RequestThread)

-----------------------------------------------------------------------------
(***************************************************************************)
(* Properties.                                                             *)
(***************************************************************************)

Pending(kind) == {e \in timers : event[e].kind = kind}

\* Nothing that was deleted is reached, and whoever counts on the timer has exactly one
\* event there: a character that casts, whose pointer is to that event, an evacuation,
\* whose lifetime ends when the count does, and the chain of check-ins, which neither
\* breaks nor doubles.  A door that is open has an event that will close it.
EventsMatch ==
    /\ ~corrupt
    /\ \A e \in timers : event[e] # Free
    /\ \A e \in Pending("cast") :
          spell[event[e].param] # None /\ spell[event[e].param].event = e
    /\ \A c \in Char : spell[c] # None =>
          /\ spell[c].event # None => spell[c].event \in Pending("cast")
          /\ spell[c].event # None => ~spell[c].ready
    /\ \A e \in Pending("evacuate") : step # None /\ event[e].lifetime = step + 1
    /\ open => Pending("close") # {}
    /\ Cardinality(Pending("evacuate")) = (IF step = None THEN 0 ELSE 1)
    /\ Cardinality(Links(Memory) \cap timers) = (IF checking = FALSE THEN 1 ELSE 0)

\* No spell comes before its time, counted from when it was asked for: an event that was
\* cancelled does not come for the spell after it, though it may have its address.
Called(e) == cursor' = e /\ cursor # e
NotEarly ==
    [][\A e \in timers : Called(e) /\ event[e] # Free /\ event[e].kind = "cast" =>
          LET c == event[e].param IN asked[c] # None /\ asked[c] > Speed["cast"]]_vars

Armed == [e \in Address \ {Pump} |->
             IF e \in timers
             THEN [age |-> event[e].age, speed |-> event[e].speed,
                   lifetime |-> event[e].lifetime]
             ELSE None]
Promise == INSTANCE Alarms WITH Alarm <- Address \ {Pump}, armed <- Armed

\* The timer does what it promises, though it walks a stale copy of its events: all that is
\* due is called, nothing else is, and of spells only what was asked for long enough ago.
AlarmsRing == Promise!Spec /\ NotEarly

=============================================================================

-------------------------------- MODULE Alarms --------------------------------
(***************************************************************************)
(* What a timer promises, whatever list it walks: alarms that are set ring *)
(* when they have waited for longer than their period and never before,    *)
(* ring again for as long as they live, and are not forgotten while others *)
(* are set and stopped, be it by the callback of one that rings.           *)
(***************************************************************************)
EXTENDS Integers

CONSTANTS Alarm, Forever, None

VARIABLE armed   \* what is set, and how long ago it was set or last due

Fresh(set) == set # None => set.age = 0

\* Somebody sets and stops alarms; this one is left alone.
OthersChange(e) ==
    \A x \in Alarm \ {e} : armed'[x] = armed[x] \/ Fresh(armed'[x])

Rung(set) ==
    CASE set.lifetime = Forever -> [set EXCEPT !.age = @ - set.speed]
      [] set.lifetime = 1 -> None
      [] OTHER -> [set EXCEPT !.age = @ - set.speed, !.lifetime = @ - 1]

Overdue(e) == armed[e] # None /\ armed[e].age > armed[e].speed

Ring(e) ==
    /\ Overdue(e)
    /\ armed'[e] = Rung(armed[e]) /\ OthersChange(e)
    /\ DOMAIN armed' = Alarm

Change ==
    /\ DOMAIN armed' = Alarm
    /\ \A x \in Alarm : armed'[x] = armed[x] \/ Fresh(armed'[x])

Advance ==
    armed' = [e \in Alarm |->
        IF armed[e] = None THEN None ELSE [armed[e] EXCEPT !.age = @ + 1]]

Init == DOMAIN armed = Alarm /\ \A e \in Alarm : Fresh(armed[e])

Next == (\E e \in Alarm : Ring(e)) \/ Change \/ Advance

\* No alarm is overdue for ever: the weak fairness of Ring(e), which is enabled exactly
\* while it is overdue, written without ENABLED, so that it can be checked of a
\* refinement.
Rings(e) == []<>~Overdue(e) \/ []<><<Ring(e)>>_armed

Safe == Init /\ [][Next]_armed
Spec == Safe /\ \A e \in Alarm : Rings(e)

=============================================================================

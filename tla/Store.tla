--------------------------------- MODULE Store ---------------------------------
(***************************************************************************)
(* What the server counts on of its database, whatever happens to the      *)
(* connection: a transaction is stored as a whole when it is committed and *)
(* not before, a statement outside of one is stored at once, each at least *)
(* once, and every statement ends, be it with the server.                  *)
(***************************************************************************)
EXTENDS Tables

VARIABLES
    stored,    \* the tables, as they outlive a crash
    written,   \* the tables as the open transaction has written them; None without one
    asked,     \* the statement the server waits for; None if it does not
    running    \* the server

vars == <<stored, written, asked, running>>

Init ==
    /\ stored \in NoPets
    /\ written = None /\ asked = None /\ running = TRUE

Ask ==
    /\ running /\ asked = None
    /\ asked' \in {q \in Data \cup Control :
                       written = None => q.op \notin {"commit", "rollback"}}
    /\ UNCHANGED <<stored, written, running>>

\* The statement may be executed again, since its answer may be lost.
Execute ==
    /\ asked \in Data /\ written = None /\ ~Duplicate(asked, stored)
    /\ stored' = Apply(asked, stored) /\ asked' \in {None, asked}
    /\ UNCHANGED <<written, running>>

Write ==
    /\ asked \in Data /\ written # None /\ ~Duplicate(asked, written)
    /\ written' = Apply(asked, written) /\ asked' = None
    /\ UNCHANGED <<stored, running>>

Throw ==
    /\ asked \in Data /\ asked' = None
    /\ UNCHANGED <<stored, written, running>>

Begin ==
    /\ asked # None /\ asked.op = "begin" /\ written = None
    /\ written' = stored /\ asked' = None
    /\ UNCHANGED <<stored, running>>

\* Every row that has a key is as it was written; a row without one may be there twice.
Holds(t) == t.rows = written.rows /\ t.pets >= written.pets

Commit ==
    /\ asked # None /\ asked.op = "commit" /\ written # None
    /\ Holds(stored')
    /\ \/ written' = None /\ asked' = None
       \/ UNCHANGED <<written, asked>>
    /\ UNCHANGED running

Rollback ==
    /\ asked # None /\ asked.op = "rollback" /\ written # None
    /\ written' = None /\ asked' = None
    /\ UNCHANGED <<stored, running>>

Halt ==
    /\ running /\ running' = FALSE
    /\ asked' = None /\ written' = None
    /\ UNCHANGED stored

Restart ==
    /\ ~running /\ running' = TRUE
    /\ UNCHANGED <<stored, written, asked>>

Next ==
    \/ Ask \/ Execute \/ Write \/ Throw
    \/ Begin \/ Commit \/ Rollback \/ Halt \/ Restart

Ends == asked # None ~> asked = None

Safe == Init /\ [][Next]_vars
Spec == Safe /\ Ends

=============================================================================

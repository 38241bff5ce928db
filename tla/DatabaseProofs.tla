---------------------------- MODULE DatabaseProofs ----------------------------
(***************************************************************************)
(* Between queries the database is where the server thinks it is, and      *)
(* every step of the connection is a step of the store that the server     *)
(* counts on, for any tables, any log and any number of lost connections.  *)
(*                                                                         *)
(* The argument: what the open transaction has written is what its log     *)
(* makes, one statement after the other, of the tables it was begun over.  *)
(* A replay that has come to a place of the log has made of them what the  *)
(* transaction had made of them there.  A COMMIT whose answer was lost is  *)
(* replayed over tables that hold the transaction already: row by row, the *)
(* replay then agrees with the transaction, or is going to be refused, or  *)
(* is already where the transaction ends.                                  *)
(***************************************************************************)
EXTENDS Database, TLAPS

-----------------------------------------------------------------------------
(***************************************************************************)
(* Statements.                                                             *)
(***************************************************************************)

\* A statement is one of the five of the data, or controls the transaction.
LEMMA Statements ==
    /\ \A q \in Data : /\ q.op \in {"insert", "update", "delete", "pet", "select"}
                       /\ q.op \in {"insert", "update", "delete"} => q.name \in Name
                       /\ q.value \in Value \cup {None}
                       /\ q.op = "insert" => q.value # None
                       /\ q.op = "update" => q.value # None
                       /\ q.op = "delete" => q.value = None
    /\ \A q \in Control : q.op \in {"begin", "commit", "rollback"} /\ q.name = None
BY ValuesAreKnown DEF Data, Control

\* The rows of a table once a statement was applied.
LEMMA AppliedRows ==
    ASSUME NEW q \in Data, NEW t \in Table
    PROVE  /\ Apply(q, t) \in Table
           /\ Apply(q, t).pets >= t.pets
           /\ q.op = "select" => Apply(q, t) = t
           /\ \A n \in Name :
                 Apply(q, t).rows[n] =
                    IF \/ q.op \in {"insert", "delete"} /\ q.name = n
                       \/ q.op = "update" /\ q.name = n /\ t.rows[n] # None
                    THEN q.value ELSE t.rows[n]
<1>1. /\ q.op \in {"insert", "update", "delete", "pet", "select"}
      /\ q.op \in {"insert", "update", "delete"} => q.name \in Name
      /\ q.value \in Value \cup {None}
    BY Statements
<1>2. t.rows \in [Name -> Value \cup {None}] /\ t.pets \in Nat
    BY DEF Table
<1>3. CASE q.op = "pet"
    <2>1. Apply(q, t) = [t EXCEPT !.pets = @ + 1]
        BY <1>3 DEF Apply
    <2>2. Apply(q, t) = [rows |-> t.rows, pets |-> t.pets + 1]
        BY <2>1 DEF Table
    <2> QED BY <1>2, <1>3, <2>2 DEF Table
<1>4. CASE q.op = "select" \/ (q.op = "update" /\ t.rows[q.name] = None)
    <2>1. q.op = "select" => Apply(q, t) = t
        BY DEF Apply
    <2>2. q.op = "update" /\ t.rows[q.name] = None => Apply(q, t) = t
        BY DEF Apply
    <2>3. Apply(q, t) = t
        BY <1>4, <2>1, <2>2
    <2>4. t.pets >= t.pets
        BY <1>2
    <2> QED BY <1>4, <2>3, <2>4
<1>5. CASE q.op \in {"insert", "delete"} \/ (q.op = "update" /\ t.rows[q.name] # None)
    <2>1. Apply(q, t) = [t EXCEPT !.rows[q.name] = q.value]
        BY <1>5 DEF Apply
    <2>2. Apply(q, t) = [rows |-> [t.rows EXCEPT ![q.name] = q.value], pets |-> t.pets]
        BY <2>1 DEF Table
    <2>3. q.name \in Name
        BY <1>1, <1>5
    <2>4. [t.rows EXCEPT ![q.name] = q.value] \in [Name -> Value \cup {None}]
        BY <1>1, <1>2, <2>3
    <2>5. Apply(q, t) \in Table /\ Apply(q, t).pets = t.pets
        BY <1>2, <2>2, <2>4 DEF Table
    <2>6. \A n \in Name : Apply(q, t).rows[n] = IF n = q.name THEN q.value ELSE t.rows[n]
        BY <1>2, <2>2, <2>3
    <2> QED BY <1>2, <1>5, <2>3, <2>5, <2>6
<1>6. \/ q.op = "pet"
      \/ q.op = "select" \/ (q.op = "update" /\ t.rows[q.name] = None)
      \/ q.op \in {"insert", "delete"} \/ (q.op = "update" /\ t.rows[q.name] # None)
    BY <1>1
<1> QED BY <1>3, <1>4, <1>5, <1>6

\* Tables with the same rows.
LEMMA SameRows ==
    ASSUME NEW t \in Table, NEW u \in Table, \A n \in Name : t.rows[n] = u.rows[n]
    PROVE  t.rows = u.rows
<1>1. t.rows \in [Name -> Value \cup {None}] /\ u.rows \in [Name -> Value \cup {None}]
    BY DEF Table
<1> QED BY <1>1

-----------------------------------------------------------------------------
(***************************************************************************)
(* Replays.                                                                *)
(***************************************************************************)

\* What a log makes of tables, as h, one statement after the other: none is refused.
Trace(h, log, w) ==
    /\ h \in [1..(Len(log) + 1) -> Table]
    /\ h[Len(log) + 1] = w
    /\ \A i \in 1..Len(log) : ~Duplicate(log[i], h[i]) /\ h[i + 1] = Apply(log[i], h[i])

\* A row of a replay, of the transaction at the same place of the log, and at its end: it
\* is the same, or an insertion will be refused, or it will be deleted, or it stays.
Comes(r, s, end) ==
    \/ r = s
    \/ s = None /\ r # None /\ end # None
    \/ s # None /\ r = None /\ end = None
    \/ s # None /\ r # None /\ r = end
Follows(t, u, w) ==
    /\ \A n \in Name : Comes(t.rows[n], u.rows[n], w.rows[n])
    /\ t.pets >= w.pets

\* What is stored by a COMMIT.
Holds(t, w) == t.rows = w.rows /\ t.pets >= w.pets

\* A replay over tables that hold the transaction follows it from the start.
LEMMA FollowsFirst ==
    ASSUME NEW t \in Table, NEW u \in Table, NEW w \in Table, Holds(t, w)
    PROVE  Follows(t, u, w)
BY DEF Follows, Holds, Comes

\* A replay that has come to the end holds it.
LEMMA FollowsLast ==
    ASSUME NEW t \in Table, NEW w \in Table, Follows(t, w, w)
    PROVE  Holds(t, w)
<1>1. \A n \in Name : t.rows[n] = w.rows[n]
    BY DEF Follows, Comes
<1> QED BY <1>1, SameRows DEF Holds, Follows

\* It follows through every statement that is not refused.
LEMMA FollowsNext ==
    ASSUME NEW t \in Table, NEW u \in Table, NEW w \in Table, NEW q \in Data,
           Follows(t, u, w), ~Duplicate(q, t), ~Duplicate(q, u)
    PROVE  Follows(Apply(q, t), Apply(q, u), w)
<1>1. Apply(q, t).pets >= w.pets
    <2>1. Apply(q, t) \in Table /\ Apply(q, t).pets >= t.pets
        BY AppliedRows
    <2> QED BY <2>1 DEF Follows, Table
<1>2. ASSUME NEW n \in Name
      PROVE  Comes(Apply(q, t).rows[n], Apply(q, u).rows[n], w.rows[n])
    <2>1. Comes(t.rows[n], u.rows[n], w.rows[n])
        BY DEF Follows
    <2>2. q.op = "insert" /\ q.name = n => t.rows[n] = None /\ u.rows[n] = None
        BY DEF Duplicate
    <2>3. Apply(q, t).rows[n] =
             IF \/ q.op \in {"insert", "delete"} /\ q.name = n
                \/ q.op = "update" /\ q.name = n /\ t.rows[n] # None
             THEN q.value ELSE t.rows[n]
        BY AppliedRows
    <2>4. Apply(q, u).rows[n] =
             IF \/ q.op \in {"insert", "delete"} /\ q.name = n
                \/ q.op = "update" /\ q.name = n /\ u.rows[n] # None
             THEN q.value ELSE u.rows[n]
        BY AppliedRows
    <2>5. q.op = "update" => q.value # None
        BY Statements
    <2> QED BY <2>1, <2>2, <2>3, <2>4, <2>5 DEF Comes
<1> QED BY <1>1, <1>2 DEF Follows

\* A transaction that writes goes on with its trace.
LEMMA TraceGrows ==
    ASSUME NEW log \in Seq(Data), NEW w \in Table, NEW h, Trace(h, log, w),
           NEW q \in Data, ~Duplicate(q, w)
    PROVE  \E g : Trace(g, Append(log, q), Apply(q, w)) /\ g[1] = h[1]
<1> DEFINE n == Len(log)
           g == [i \in 1..(n + 2) |-> IF i = n + 2 THEN Apply(q, w) ELSE h[i]]
           more == Append(log, q)
<1>1. n \in Nat /\ Len(more) = n + 1 /\ more[n + 1] = q /\ \A i \in 1..n : more[i] = log[i]
    OBVIOUS
<1>2. h \in [1..(n + 1) -> Table] /\ h[n + 1] = w
      /\ \A i \in 1..n : ~Duplicate(log[i], h[i]) /\ h[i + 1] = Apply(log[i], h[i])
    BY DEF Trace
<1>3. Apply(q, w) \in Table
    BY AppliedRows
<1> HIDE DEF n, more
<1>4. g \in [1..(n + 2) -> Table] /\ g[n + 2] = Apply(q, w)
      /\ \A i \in 1..(n + 1) : g[i] = h[i]
    BY <1>1, <1>2, <1>3
<1> HIDE DEF g
<1>5. ASSUME NEW i \in 1..(n + 1)
      PROVE  ~Duplicate(more[i], g[i]) /\ g[i + 1] = Apply(more[i], g[i])
    <2>1. CASE i = n + 1
        <3>1. i + 1 = n + 2 /\ more[i] = q /\ g[i] = w /\ g[i + 1] = Apply(q, w)
            BY <1>1, <1>2, <1>4, <2>1
        <3> QED BY <3>1
    <2>2. CASE i \in 1..n
        <3>1. i + 1 \in 1..(n + 1) /\ i \in 1..(n + 1)
            BY <1>1, <2>2
        <3>2. g[i + 1] = h[i + 1] /\ g[i] = h[i] /\ more[i] = log[i]
            BY <1>1, <1>4, <2>2, <3>1
        <3> QED BY <1>2, <2>2, <3>2
    <2> QED BY <1>1, <2>1, <2>2
<1>6. Len(more) + 1 = n + 2
    BY <1>1
<1>7. Trace(g, more, Apply(q, w))
    BY <1>1, <1>4, <1>5, <1>6 DEF Trace
<1>8. g[1] = h[1]
    BY <1>1, <1>4
<1> QED BY <1>7, <1>8 DEF more

-----------------------------------------------------------------------------
(***************************************************************************)
(* The invariant.                                                          *)
(***************************************************************************)

TypeOK ==
    /\ stored \in Table /\ locked \subseteq Name
    /\ session \in Connection \cup {None}
    /\ running \in BOOLEAN /\ in_transaction \in BOOLEAN
    /\ transaction_log \in Seq(Data)
    /\ call \in Run \cup {None}
    /\ written \in Table \cup {None}

Asks(op) == call # None /\ call.sql.op = op

\* Without a transaction nothing is logged, and the connection is in none.
Outside ==
    /\ written = None /\ transaction_log = <<>>
    /\ Live => session.tx = None
    /\ call # None => call.at \in {"exec", "connect"}
    /\ ~Asks("commit") /\ ~Asks("rollback")

\* The tables that the transaction is over are stored, unless it was committed.
Over(h) == stored = h[1] \/ (Asks("commit") /\ Holds(stored, written))

\* A statement is executed over what the transaction has written.
Ready ==
    Live /\ (call = None \/ call.at = "exec") =>
        \/ session.tx = written
        \/ Asks("commit") /\ session.tx \in Table /\ Holds(session.tx, written)

\* How far a replay has come.
Back(h) ==
    Live /\ call # None /\ call.at = "replay" =>
        /\ call.next \in 1..(Len(transaction_log) + 1) /\ session.tx \in Table
        /\ \/ session.tx = h[call.next]
           \/ Asks("commit") /\ Follows(session.tx, h[call.next], written)

Traced == \E h : Trace(h, transaction_log, written) /\ Over(h) /\ Back(h)

Inside == written \in Table /\ ~Asks("begin") /\ Ready /\ Traced

Inv ==
    /\ TypeOK
    /\ ~running => ~in_transaction /\ call = None
    /\ ~in_transaction => Outside
    /\ in_transaction => Inside

\* Where the server starts, without a transaction.
LEMMA InitInv == Init => Inv
<1> SUFFICES ASSUME Init PROVE Inv
    OBVIOUS
<1>1. stored \in Table
    BY ValuesAreKnown DEF Init, NoPets, Table
<1>2. session \in Connection /\ session.tx = None
    BY DEF Init, Connected, Connection
<1>3. TypeOK
    <2>1. transaction_log \in Seq(Data)
        BY DEF Init
    <2> QED BY <1>1, <1>2, <2>1 DEF Init, TypeOK
<1>4. Outside
    BY <1>2 DEF Init, Outside, Asks
<1> QED BY <1>3, <1>4 DEF Inv, Init

\* Records are not None, and so a connection is live exactly if it says so.
LEMMA Apartness ==
    /\ \A s \in Connection : s # None
    /\ \A c \in Run : c # None
    /\ \A t \in Table : t # None
    /\ \A q \in Statement : q # None
BY NoneIsApart, NoneIsNoRecord

\* After the process has stopped there is nothing left of the transaction.
LEMMA StopKeeps ==
    ASSUME TypeOK, Stop
    PROVE  Inv'
<1>1. ~Live'
    BY DEF Stop, Live
<1>2. Live => session.rows \subseteq Name
    BY DEF Live, TypeOK, Connection
<1>3. TypeOK'
    <2>1. locked' \subseteq Name
        BY <1>2 DEF Stop, TypeOK
    <2>2. transaction_log' \in Seq(Data)
        BY DEF Stop
    <2> QED BY <2>1, <2>2 DEF Stop, TypeOK
<1>4. Outside'
    BY <1>1 DEF Stop, Outside, Asks
<1> QED BY <1>3, <1>4 DEF Inv, Stop

\* What a statement does to the tables and the connection.
LEMMA Executes ==
    ASSUME TypeOK, Live, NEW q \in Statement
    PROVE  /\ q.op = "begin" => Executed(q).stored = stored
                                /\ Executed(q).session = [Connected EXCEPT !.tx = stored]
           /\ q.op = "commit" => Executed(q).stored = session.tx
                                 /\ Executed(q).session = Connected
           /\ q.op = "rollback" => Executed(q).stored = stored
                                   /\ Executed(q).session = Connected
           /\ q \in Data /\ session.tx = None =>
                 Executed(q).stored = Apply(q, stored) /\ Executed(q).session = session
           /\ q \in Data /\ session.tx # None =>
                 /\ Executed(q).stored = stored
                 /\ Executed(q).session \in Connection
                 /\ Executed(q).session.tx = Apply(q, session.tx)
                 /\ Executed(q).session.live
<1>1. q \in Data => q.op \notin {"begin", "commit", "rollback"}
    BY Statements
<1>2. session \in Connection /\ session.live
    BY DEF TypeOK, Live
<1>3. ASSUME q \in Data, session.tx # None
      PROVE  /\ Executed(q).stored = stored
             /\ Executed(q).session \in Connection
             /\ Executed(q).session.tx = Apply(q, session.tx)
             /\ Executed(q).session.live
    <2> DEFINE rows == session.rows \cup ({q.name} \cap Name)
               tx == Apply(q, session.tx)
    <2>1. Executed(q) = [stored |-> stored,
                         session |-> [session EXCEPT !.tx = tx, !.rows = rows]]
        BY <1>1, <1>3 DEF Executed
    <2>2. rows \in SUBSET Name
        BY <1>2 DEF Connection
    <2>3. tx \in Table
        <3>1. session.tx \in Table
            BY <1>2, <1>3 DEF Connection
        <3> QED BY <3>1, <1>3, AppliedRows
    <2> HIDE DEF rows, tx
    <2>4. [session EXCEPT !.tx = tx, !.rows = rows]
             = [live |-> session.live, tx |-> tx, rows |-> rows]
        <3>1. session = [live |-> session.live, tx |-> session.tx, rows |-> session.rows]
            BY <1>2 DEF Connection
        <3> DEFINE live == session.live
                   half == [session EXCEPT !.tx = tx]
        <3>2. half = [live |-> live, tx |-> tx, rows |-> session.rows]
            BY <3>1
        <3>3. [session EXCEPT !.tx = tx, !.rows = rows] = [half EXCEPT !.rows = rows]
            OBVIOUS
        <3> HIDE DEF live, half
        <3>4. [half EXCEPT !.rows = rows] = [live |-> live, tx |-> tx, rows |-> rows]
            BY <3>2
        <3> QED BY <3>3, <3>4 DEF live
    <2>5. session.live \in BOOLEAN
        BY <1>2 DEF Connection
    <2>6. [live |-> session.live, tx |-> tx, rows |-> rows] \in Connection
        BY <2>2, <2>3, <2>5 DEF Connection
    <2>7. Executed(q).stored = stored
        BY <2>1
    <2>8. Executed(q).session = [live |-> session.live, tx |-> tx, rows |-> rows]
        BY <2>1, <2>4
    <2>9. Executed(q).session.tx = tx /\ Executed(q).session.live = session.live
        BY <2>8
    <2> QED BY <1>2, <2>6, <2>7, <2>8, <2>9 DEF tx
<1>4. q \in Data /\ session.tx = None =>
         Executed(q).stored = Apply(q, stored) /\ Executed(q).session = session
    BY <1>1 DEF Executed
<1>5. /\ q.op = "begin" => Executed(q).stored = stored
                           /\ Executed(q).session = [Connected EXCEPT !.tx = stored]
      /\ q.op = "commit" => Executed(q).stored = session.tx
                            /\ Executed(q).session = Connected
      /\ q.op = "rollback" => Executed(q).stored = stored
                              /\ Executed(q).session = Connected
    BY DEF Executed
<1> QED BY <1>3, <1>4, <1>5

\* Connections, as they are made and lost.
LEMMA Connections ==
    /\ Connected \in Connection /\ Connected.live /\ Connected.tx = None
    /\ Lost \in Connection /\ ~Lost.live
    /\ \A t \in Table : /\ [Connected EXCEPT !.tx = t] \in Connection
                        /\ [Connected EXCEPT !.tx = t].tx = t
                        /\ [Connected EXCEPT !.tx = t].live
                        /\ [Connected EXCEPT !.tx = t].rows = {}
BY DEF Connected, Lost, Connection

-----------------------------------------------------------------------------
(***************************************************************************)
(* The steps.                                                              *)
(***************************************************************************)

\* A transaction of which nothing is written or forgotten.
LEMMA Stands ==
    ASSUME Inside, UNCHANGED <<transaction_log, written>>, ~Asks("begin")', Ready',
           \A h : Trace(h, transaction_log, written) /\ Over(h) /\ Back(h)
                     => Over(h)' /\ Back(h)'
    PROVE  Inside'
<1>1. PICK h : Trace(h, transaction_log, written) /\ Over(h) /\ Back(h)
    BY DEF Inside, Traced
<1>2. Trace(h, transaction_log', written') /\ Over(h)' /\ Back(h)'
    BY <1>1
<1> HIDE DEF Over, Back, Ready, Asks
<1>3. Traced'
    BY <1>2 DEF Traced
<1> QED BY <1>3 DEF Inside

\* Between queries there is no COMMIT that was lost.
LEMMA AskKeeps ==
    ASSUME Inv, NEW q \in Statement, Ask(q),
           ~in_transaction => q.op \notin {"commit", "rollback"},
           in_transaction => q.op # "begin"
    PROVE  Inv'
<1> DEFINE run == [sql |-> q, at |-> "exec", attempt |-> 0, next |-> 0]
<1>1. run \in Run /\ run # None
    BY Apartness DEF Run, Place
<1>2. call' = run /\ call = None /\ running /\ UNCHANGED <<database, running, in_transaction,
                                                          transaction_log, written>>
    BY DEF Ask
<1>3. run.sql = q /\ run.at = "exec"
    OBVIOUS
<1> HIDE DEF run
<1>4. TypeOK'
    BY <1>1, <1>2 DEF Inv, TypeOK, database
<1>5. ~in_transaction => Outside'
    BY <1>1, <1>2, <1>3 DEF Inv, Outside, Live, Asks, database
<1>6. in_transaction => Inside'
    <2> SUFFICES ASSUME in_transaction PROVE Inside'
        OBVIOUS
    <2>1. Inside
        BY DEF Inv
    <2>2. ~Asks("begin")' /\ Ready'
        BY <1>1, <1>2, <1>3, <2>1 DEF Inside, Asks, Ready, Live, database
    <2>3. \A h : Over(h) => Over(h)' /\ Back(h)'
        BY <1>2, <1>3 DEF Over, Back, Asks, Live, database
    <2> QED BY <1>2, <2>1, <2>2, <2>3, Stands
<1> QED BY <1>2, <1>4, <1>5, <1>6 DEF Inv

LEMMA AsksKeep ==
    ASSUME Inv, Query \/ BeginTransaction \/ Commit \/ Rollback
    PROVE  Inv'
<1>1. CASE Query
    <2>1. PICK q \in Data : Ask(q)
        BY <1>1 DEF Query
    <2>2. q \in Statement /\ q.op \notin {"begin", "commit", "rollback"}
        BY Statements DEF Statement
    <2> QED BY <2>1, <2>2, AskKeeps
<1>2. CASE BeginTransaction
    <2>1. PICK q \in Control : q.op = "begin" /\ Ask(q)
        BY <1>2 DEF BeginTransaction
    <2> QED BY <1>2, <2>1, AskKeeps DEF BeginTransaction, Statement
<1>3. CASE Commit
    <2>1. PICK q \in Control : q.op = "commit" /\ Ask(q)
        BY <1>3 DEF Commit
    <2> QED BY <1>3, <2>1, AskKeeps DEF Commit, Statement
<1>4. CASE Rollback
    <2>1. PICK q \in Control : q.op = "rollback" /\ Ask(q)
        BY <1>4 DEF Rollback
    <2> QED BY <1>4, <2>1, AskKeeps DEF Rollback, Statement
<1> QED BY <1>1, <1>2, <1>3, <1>4

\* What is known when a statement is executed: one that writes in a transaction is
\* executed over what was written.
LEMMA Executing ==
    ASSUME Inv, At("exec"), Live, ~Refused(call.sql)
    PROVE  /\ call \in Run /\ call.sql \in Statement
           /\ session \in Connection /\ session # None /\ session.live
           /\ call.sql.op = "begin" => ~in_transaction
           /\ call.sql.op \in {"commit", "rollback"} => in_transaction
           /\ in_transaction => session.tx \in Table /\ session.tx # None
           /\ in_transaction /\ call.sql.op # "commit" => session.tx = written
           /\ in_transaction /\ call.sql.op = "commit" => Holds(session.tx, written)
           /\ ~in_transaction => session.tx = None
           /\ call.sql \in Data =>
                 call.sql.op \notin {"begin", "commit", "rollback"}
                 /\ (in_transaction => ~Duplicate(call.sql, written))
                 /\ (~in_transaction => ~Duplicate(call.sql, stored))
           /\ call.sql \notin Data => call.sql.op \in {"begin", "commit", "rollback"}
<1>1. call \in Run /\ call.sql \in Statement /\ call # None /\ call.at = "exec"
    BY Apartness DEF At, Inv, TypeOK, Run
<1>2. session \in Connection /\ session # None /\ session.live
    BY DEF Live, Inv, TypeOK
<1>3. ASSUME ~in_transaction
      PROVE  session.tx = None /\ call.sql.op \notin {"commit", "rollback"}
    BY <1>1, <1>3 DEF Inv, Outside, Asks
<1>4. ASSUME in_transaction
      PROVE  /\ written \in Table /\ call.sql.op # "begin"
             /\ session.tx \in Table
             /\ call.sql.op # "commit" => session.tx = written
             /\ call.sql.op = "commit" => Holds(session.tx, written)
    <2>1. Inside
        BY <1>4 DEF Inv
    <2>2. \/ session.tx = written
          \/ call.sql.op = "commit" /\ session.tx \in Table /\ Holds(session.tx, written)
        BY <1>1, <2>1 DEF Inside, Ready, Asks
    <2>3. written \in Table /\ call.sql.op # "begin"
        BY <1>1, <2>1 DEF Inside, Asks
    <2>4. Holds(written, written)
        BY <2>3 DEF Holds, Table
    <2> HIDE DEF Holds
    <2> QED BY <2>2, <2>3, <2>4
<1>5. in_transaction => session.tx # None
    BY <1>4, Apartness
<1>6. call.sql \in Data => call.sql.op \notin {"begin", "commit", "rollback"}
    BY Statements
<1>7. call.sql \notin Data => call.sql.op \in {"begin", "commit", "rollback"}
    BY <1>1, Statements DEF Statement
<1>8. ~Duplicate(call.sql, Current)
    BY DEF Refused
<1>9. in_transaction /\ call.sql \in Data => ~Duplicate(call.sql, written)
    BY <1>4, <1>5, <1>6, <1>8 DEF Current
<1>10. ~in_transaction => ~Duplicate(call.sql, stored)
    BY <1>3, <1>8 DEF Current
<1> QED BY <1>1, <1>2, <1>3, <1>4, <1>5, <1>6, <1>7, <1>9, <1>10

\* What the server remembers of a statement that succeeded.
LEMMA Remembers ==
    ASSUME NEW q \in Statement, Remember(q)
    PROVE  /\ q.op = "begin" =>
                 in_transaction' = TRUE /\ written' = stored /\ UNCHANGED transaction_log
           /\ q.op \in {"commit", "rollback"} =>
                 in_transaction' = FALSE /\ written' = None /\ transaction_log' = <<>>
           /\ q \in Data /\ in_transaction =>
                 /\ transaction_log' =
                       IF q.op = "select" THEN transaction_log ELSE Append(transaction_log, q)
                 /\ written' = Apply(q, written) /\ UNCHANGED in_transaction
           /\ q \in Data /\ ~in_transaction =>
                 UNCHANGED <<in_transaction, transaction_log, written>>
<1>1. q \in Data => q.op \notin {"begin", "commit", "rollback"}
    BY Statements
<1>2. q.op = "begin" =>
         in_transaction' = TRUE /\ written' = stored /\ UNCHANGED transaction_log
    BY <1>1 DEF Remember
<1>3. q.op \in {"commit", "rollback"} =>
         in_transaction' = FALSE /\ written' = None /\ transaction_log' = <<>>
    BY <1>1 DEF Remember
<1>4. q \in Data /\ in_transaction =>
         /\ transaction_log' =
               IF q.op = "select" THEN transaction_log ELSE Append(transaction_log, q)
         /\ written' = Apply(q, written) /\ UNCHANGED in_transaction
    BY <1>1 DEF Remember
<1>5. q \in Data /\ ~in_transaction => UNCHANGED <<in_transaction, transaction_log, written>>
    BY <1>1 DEF Remember
<1> QED BY <1>2, <1>3, <1>4, <1>5

\* The trace of a transaction that has just begun, and of one that goes on.
LEMMA ExecuteKeeps ==
    ASSUME Inv, Execute
    PROVE  Inv'
<1> DEFINE q == call.sql
<1>1. At("exec") /\ Live /\ ~Refused(q)
    BY DEF Execute
<1>2. /\ stored' = Executed(q).stored /\ session' = Executed(q).session
      /\ call' = None /\ running' = running /\ locked' = locked /\ running
      /\ Remember(q)
    BY DEF Execute, At
<1>3. /\ q \in Statement
      /\ session \in Connection /\ session # None /\ session.live
      /\ q.op = "begin" => ~in_transaction
      /\ q.op \in {"commit", "rollback"} => in_transaction
      /\ in_transaction => session.tx \in Table /\ session.tx # None
      /\ in_transaction /\ q.op # "commit" => session.tx = written
      /\ ~in_transaction => session.tx = None
      /\ q \in Data /\ in_transaction => ~Duplicate(q, written)
      /\ q \notin Data => q.op \in {"begin", "commit", "rollback"}
    BY <1>1, Executing
<1>4. /\ stored \in Table /\ locked \subseteq Name /\ transaction_log \in Seq(Data)
      /\ running \in BOOLEAN /\ in_transaction \in BOOLEAN /\ written \in Table \cup {None}
      /\ TypeOK
    BY DEF Inv, TypeOK
<1>5. ~Asks("begin")' /\ ~Asks("commit")' /\ ~Asks("rollback")' /\ call' = None
    BY <1>2 DEF Asks
<1> HIDE DEF q
<1>6. CASE q.op = "begin"
    <2>1. stored' = stored /\ session' = [Connected EXCEPT !.tx = stored]
        BY <1>1, <1>2, <1>3, <1>4, <1>6, Executes
    <2>2. session' \in Connection /\ session'.tx = stored
        BY <1>4, <2>1, Connections
    <2>3. in_transaction' = TRUE /\ written' = stored /\ transaction_log' = <<>>
        <3>1. transaction_log = <<>>
            BY <1>3, <1>6 DEF Inv, Outside
        <3> QED BY <1>2, <1>3, <1>6, <3>1, Remembers
    <2>4. TypeOK'
        BY <1>2, <1>4, <2>1, <2>2, <2>3 DEF TypeOK
    <2>5. \E h : Trace(h, transaction_log', written') /\ h[1] = stored'
        <3>1. [i \in 1..1 |-> stored][1] = stored'
            BY <2>1
        <3>2. Trace([i \in 1..1 |-> stored], transaction_log', written')
            BY <1>4, <2>3 DEF Trace
        <3> QED BY <3>1, <3>2
    <2>6. PICK h : Trace(h, transaction_log', written') /\ h[1] = stored'
        BY <2>5
    <2>7. Over(h)' /\ Back(h)' /\ Ready'
        <3>1. Over(h)'
            BY <2>6 DEF Over
        <3>2. Back(h)'
            BY <1>5 DEF Back
        <3>3. Ready'
            BY <2>2, <2>3 DEF Ready
        <3> QED BY <3>1, <3>2, <3>3
    <2>8. Traced'
        BY <2>6, <2>7 DEF Traced
    <2>9. Inside'
        BY <1>4, <1>5, <2>3, <2>7, <2>8 DEF Inside
    <2> QED BY <1>2, <2>3, <2>4, <2>9 DEF Inv
<1>7. CASE q.op \in {"commit", "rollback"}
    <2>1. session' = Connected /\ stored' \in Table
        BY <1>1, <1>2, <1>3, <1>4, <1>7, Executes
    <2>2. session' \in Connection /\ session'.tx = None
        BY <2>1, Connections
    <2>3. in_transaction' = FALSE /\ written' = None /\ transaction_log' = <<>>
        BY <1>2, <1>3, <1>7, Remembers
    <2>4. TypeOK'
        <3>1. transaction_log' \in Seq(Data)
            BY <2>3
        <3> QED BY <1>2, <1>4, <2>1, <2>2, <2>3, <3>1 DEF TypeOK
    <2>5. Outside'
        BY <1>5, <2>2, <2>3 DEF Outside
    <2> QED BY <1>2, <2>3, <2>4, <2>5 DEF Inv
<1>8. CASE q \in Data /\ ~in_transaction
    <2>1. stored' = Apply(q, stored) /\ session' = session
        BY <1>1, <1>2, <1>3, <1>4, <1>8, Executes
    <2>2. stored' \in Table
        BY <1>4, <1>8, <2>1, AppliedRows
    <2>3. UNCHANGED <<in_transaction, transaction_log, written>>
        BY <1>2, <1>3, <1>8, Remembers
    <2>4. TypeOK'
        BY <1>2, <1>3, <1>4, <2>1, <2>2, <2>3 DEF TypeOK
    <2>5. Outside'
        BY <1>3, <1>5, <1>8, <2>1, <2>3 DEF Outside, Inv
    <2> QED BY <1>2, <1>8, <2>3, <2>4, <2>5 DEF Inv
<1>9. CASE q \in Data /\ in_transaction
    <2>1. /\ stored' = stored /\ session' \in Connection
          /\ session'.tx = Apply(q, session.tx)
        BY <1>1, <1>2, <1>3, <1>4, <1>9, Executes
    <2>2. /\ transaction_log' =
                IF q.op = "select" THEN transaction_log ELSE Append(transaction_log, q)
          /\ written' = Apply(q, written) /\ in_transaction' = in_transaction
        BY <1>2, <1>3, <1>9, Remembers
    <2>3. Inside
        BY <1>9 DEF Inv
    <2>4. q.op \notin {"begin", "commit", "rollback"} /\ ~Asks("commit")
        <3>1. q.op \notin {"begin", "commit", "rollback"}
            BY <1>9, Statements
        <3> QED BY <3>1 DEF Asks, q
    <2>5. session'.tx = written' /\ written \in Table /\ written' \in Table
        <3>1. written \in Table
            BY <2>3 DEF Inside
        <3>2. Apply(q, written) \in Table
            BY <1>9, <3>1, AppliedRows
        <3> QED BY <1>3, <1>9, <2>1, <2>2, <2>4, <3>1, <3>2
    <2>6. transaction_log' \in Seq(Data)
        BY <1>4, <1>9, <2>2
    <2>7. TypeOK'
        BY <1>2, <1>4, <2>1, <2>2, <2>5, <2>6 DEF TypeOK
    <2>8. PICK h : Trace(h, transaction_log, written) /\ Over(h)
        BY <2>3 DEF Inside, Traced
    <2>9. PICK g : Trace(g, transaction_log', written') /\ g[1] = h[1]
        <3>1. CASE q.op = "select"
            <4>1. transaction_log' = transaction_log /\ written' = written
                BY <1>9, <2>2, <2>5, <3>1, AppliedRows
            <4> QED BY <2>8, <4>1
        <3>2. CASE q.op # "select"
            <4>1. ~Duplicate(q, written)
                BY <1>3, <1>9
            <4>2. \E g : Trace(g, Append(transaction_log, q), Apply(q, written))
                         /\ g[1] = h[1]
                BY <1>4, <1>9, <2>5, <2>8, <4>1, TraceGrows
            <4> QED BY <2>2, <3>2, <4>2
        <3> QED BY <3>1, <3>2
    <2>10. Over(g)' /\ Back(g)'
        BY <1>5, <2>1, <2>4, <2>8, <2>9 DEF Over, Back
    <2>11. Traced'
        BY <2>9, <2>10 DEF Traced
    <2>12. Ready'
        BY <2>5 DEF Ready
    <2>13. Inside'
        BY <1>5, <2>5, <2>11, <2>12 DEF Inside
    <2> QED BY <1>2, <1>9, <2>2, <2>7, <2>13 DEF Inv
<1> QED BY <1>3, <1>6, <1>7, <1>8, <1>9

\* With the connection the transaction in it is lost.  What a COMMIT has stored of which
\* the answer does not come is what was written.
LEMMA LoseAnswerKeeps ==
    ASSUME Inv, LoseAnswer
    PROVE  Inv'
<1> DEFINE q == call.sql
<1>1. At("exec") /\ Live /\ ~Refused(q)
    BY DEF LoseAnswer
<1>2. /\ stored' = Executed(q).stored
      /\ session' = Lost /\ locked' = locked \cup Executed(q).session.rows
      /\ running' = running /\ running
      /\ UNCHANGED <<in_transaction, transaction_log, written>>
      /\ call' = call \/ (q.op = "select" /\ call' = None)
    BY DEF LoseAnswer, Lose, At
<1>3. /\ q \in Statement
      /\ session \in Connection /\ session # None /\ session.live
      /\ q.op = "begin" => ~in_transaction
      /\ q.op \in {"commit", "rollback"} => in_transaction
      /\ in_transaction => session.tx \in Table /\ session.tx # None
      /\ in_transaction /\ q.op = "commit" => Holds(session.tx, written)
      /\ ~in_transaction => session.tx = None
      /\ q \notin Data => q.op \in {"begin", "commit", "rollback"}
    BY <1>1, Executing
<1>4. /\ stored \in Table /\ locked \subseteq Name /\ transaction_log \in Seq(Data)
      /\ running \in BOOLEAN /\ in_transaction \in BOOLEAN /\ written \in Table \cup {None}
      /\ call \in Run \cup {None} /\ call # None
      /\ TypeOK
    BY <1>1 DEF Inv, TypeOK, At
<1>5. ~Live' /\ session' \in Connection
    BY <1>2, Connections DEF Live
<1>6. call' # None => call' = call
    BY <1>2
<1>7. q.op = "commit" => call' = call
    BY <1>2
<1>8. Executed(q).session \in Connection /\ Executed(q).stored \in Table
    <2>1. CASE q.op \in {"begin", "commit", "rollback"}
        <3>1. [Connected EXCEPT !.tx = stored] \in Connection /\ Connected \in Connection
            BY <1>4, Connections
        <3> QED BY <1>1, <1>3, <1>4, <2>1, <3>1, Executes
    <2>2. CASE q \in Data
        <3>1. Apply(q, stored) \in Table
            BY <1>4, <2>2, AppliedRows
        <3> QED BY <1>1, <1>3, <1>4, <2>2, <3>1, Executes
    <2> QED BY <1>3, <2>1, <2>2
<1>9. TypeOK'
    <2>1. locked' \subseteq Name
        BY <1>2, <1>4, <1>8 DEF Connection
    <2> QED BY <1>2, <1>4, <1>5, <1>8, <2>1 DEF TypeOK
<1>10. ~in_transaction => Outside'
    BY <1>2, <1>4, <1>5, <1>6 DEF Inv, Outside, Asks
<1>11. in_transaction => Inside'
    <2> SUFFICES ASSUME in_transaction PROVE Inside'
        OBVIOUS
    <2>1. Inside
        BY DEF Inv
    <2>2. ~Asks("begin")' /\ Ready'
        BY <1>4, <1>5, <1>6, <2>1 DEF Inside, Asks, Ready
    <2>3. q.op = "commit" => Asks("commit")' /\ Holds(stored', written')
        BY <1>1, <1>2, <1>3, <1>4, <1>7, Executes DEF Asks
    <2>4. q.op # "commit" => stored' = stored /\ ~Asks("commit")
        <3>1. q.op # "commit" => stored' = stored
            BY <1>1, <1>2, <1>3, <1>4, Executes
        <3> QED BY <3>1 DEF Asks
    <2>5. \A h : Over(h) => Over(h)' /\ Back(h)'
        <3> TAKE h
        <3>1. Back(h)'
            BY <1>5 DEF Back
        <3>2. Over(h) => Over(h)'
            BY <2>3, <2>4 DEF Over
        <3> QED BY <3>1, <3>2
    <2> QED BY <1>2, <2>1, <2>2, <2>5, Stands
<1> QED BY <1>2, <1>9, <1>10, <1>11 DEF Inv

\* Only statements of the data are refused, and they have done nothing.
LEMMA ThrowKeeps ==
    ASSUME Inv, Throw
    PROVE  Inv' /\ call.sql \in Data
<1>1. /\ call # None /\ call \in Run /\ call.sql \in Statement /\ running /\ call.at = "exec"
      /\ locked \subseteq Name
    BY DEF Throw, At, Inv, TypeOK, Run
<1>2. Live /\ Refused(call.sql)
    BY DEF Throw
<1>3. call' = None /\ UNCHANGED <<stored, locked, session, running, in_transaction,
                                  transaction_log, written>>
    BY DEF Throw, database
<1>4. None \notin Name
    BY ValuesAreKnown
<1>5. call.sql \in Data
    <2>1. call.sql.op # "insert" => ~Duplicate(call.sql, Current)
        BY DEF Duplicate
    <2>2. call.sql \in Control => call.sql.op # "insert" /\ call.sql.name = None
        BY Statements
    <2> QED BY <1>1, <1>2, <1>4, <2>1, <2>2 DEF Refused, Statement
<1>6. TypeOK'
    BY <1>3 DEF Inv, TypeOK
<1>7. ~Asks("begin")' /\ ~Asks("commit")' /\ ~Asks("rollback")'
    BY <1>3 DEF Asks
<1>8. ~Asks("commit")
    <2>1. call.sql.op # "commit"
        BY <1>5, Statements
    <2> QED BY <2>1 DEF Asks
<1>9. ~in_transaction => Outside'
    BY <1>3, <1>7 DEF Inv, Outside, Live
<1>10. in_transaction => Inside'
    <2> SUFFICES ASSUME in_transaction PROVE Inside'
        OBVIOUS
    <2>1. Inside
        BY DEF Inv
    <2>2. Ready'
        BY <1>1, <1>3, <1>8, <2>1 DEF Inside, Ready, Live
    <2>3. \A h : Over(h) => Over(h)' /\ Back(h)'
        BY <1>3, <1>8 DEF Over, Back
    <2> QED BY <1>3, <1>7, <2>1, <2>2, <2>3, Stands
<1> QED BY <1>1, <1>3, <1>5, <1>6, <1>9, <1>10 DEF Inv

\* While nobody is connected nothing is known but where the transaction was begun.
LEMMA UnconnectedKeeps ==
    ASSUME Inv, UNCHANGED <<stored, running, in_transaction, transaction_log, written>>,
           TypeOK', ~Live',
           call' = call \/ (call # None /\ call' # None /\ call'.sql = call.sql),
           running, call' # None /\ ~in_transaction => call'.at \in {"exec", "connect"}
    PROVE  Inv'
<1>1. /\ Asks("begin")' <=> Asks("begin")
      /\ Asks("commit")' <=> Asks("commit")
      /\ Asks("rollback")' <=> Asks("rollback")
    BY DEF Asks
<1>2. ~in_transaction => Outside'
    BY <1>1 DEF Inv, Outside
<1>3. in_transaction => Inside'
    <2> SUFFICES ASSUME in_transaction PROVE Inside'
        OBVIOUS
    <2>1. Inside
        BY DEF Inv
    <2>2. Ready' /\ \A h : Over(h) => Over(h)' /\ Back(h)'
        BY <1>1 DEF Over, Back, Ready
    <2>3. ~Asks("begin")'
        BY <1>1, <2>1 DEF Inside
    <2> QED BY <2>1, <2>2, <2>3, Stands
<1> QED BY <1>2, <1>3 DEF Inv

LEMMA ServerGoneKeeps ==
    ASSUME Inv, running, call # None, ~Live \/ call.at = "connect",
           NEW n \in Nat, ServerGone(n)
    PROVE  Inv'
<1>1. CASE n > Attempts
    BY <1>1, StopKeeps DEF ServerGone, Inv
<1>2. CASE ~(n > Attempts)
    <2>1. /\ call' = [call EXCEPT !.at = "connect", !.attempt = n]
          /\ session' = None
          /\ UNCHANGED <<stored, locked, running, in_transaction, transaction_log, written>>
        BY <1>2 DEF ServerGone
    <2>2. call \in Run
        BY DEF Inv, TypeOK
    <2>3. call' \in Run /\ call'.sql = call.sql /\ call'.at = "connect"
        BY <2>1, <2>2 DEF Run, Place
    <2>4. call' # None
        BY <2>3, Apartness
    <2>5. TypeOK' /\ ~Live'
        BY <2>1, <2>3 DEF Inv, TypeOK, Live
    <2> QED BY <2>1, <2>3, <2>4, <2>5, UnconnectedKeeps
<1> QED BY <1>1, <1>2

LEMMA GoneKeeps ==
    ASSUME Inv, Gone
    PROVE  Inv'
<1>1. call \in Run => call.attempt + 1 \in Nat
    BY DEF Run
<1>2. CASE At("exec") /\ ~Live /\ ServerGone(1)
    BY <1>2, ServerGoneKeeps DEF At
<1>3. CASE (At("begin") \/ At("replay")) /\ ~Live /\ ServerGone(call.attempt + 1)
    BY <1>1, <1>3, ServerGoneKeeps DEF At, Inv, TypeOK
<1>4. CASE At("connect") /\ ~up /\ ServerGone(call.attempt + 1)
    BY <1>1, <1>4, ServerGoneKeeps DEF At, Inv, TypeOK
<1> QED BY <1>2, <1>3, <1>4 DEF Gone

\* The connection that is made is in no transaction until it is told.
LEMMA ConnectKeeps ==
    ASSUME Inv, Connect
    PROVE  Inv'
<1> DEFINE place == IF in_transaction THEN "begin" ELSE "exec"
<1>1. /\ call # None /\ call \in Run /\ call.at = "connect" /\ running
      /\ session' = Connected /\ call' = [call EXCEPT !.at = place]
      /\ UNCHANGED <<stored, locked, running, in_transaction, transaction_log, written>>
    BY DEF Connect, At, Inv, TypeOK
<1>2. call' \in Run /\ call'.sql = call.sql /\ call'.at = place
    BY <1>1 DEF Run, Place
<1>3. call' # None
    BY <1>2, Apartness
<1>4. session' \in Connection /\ session'.tx = None
    BY <1>1, Connections
<1>5. TypeOK'
    BY <1>1, <1>2, <1>4 DEF Inv, TypeOK
<1>6. ~in_transaction => Outside'
    BY <1>1, <1>2, <1>3, <1>4 DEF Inv, Outside, Asks
<1>7. in_transaction => Inside'
    <2> SUFFICES ASSUME in_transaction PROVE Inside'
        OBVIOUS
    <2>1. Inside
        BY DEF Inv
    <2>2. call'.at = "begin"
        BY <1>2
    <2>3. Ready'
        BY <1>3, <2>2 DEF Ready
    <2>4. \A h : Over(h) => Over(h)' /\ Back(h)'
        BY <1>1, <1>2, <1>3, <2>2 DEF Over, Back, Asks
    <2>5. ~Asks("begin")'
        BY <1>1, <1>2, <1>3, <2>1 DEF Inside, Asks
    <2> QED BY <1>1, <2>1, <2>3, <2>4, <2>5, Stands
<1> QED BY <1>1, <1>5, <1>6, <1>7 DEF Inv

\* A replay starts over what is stored.
LEMMA StartAgainKeeps ==
    ASSUME Inv, StartAgain
    PROVE  Inv'
<1>1. /\ call # None /\ call \in Run /\ call.at = "begin" /\ running /\ stored \in Table
      /\ session' = [Connected EXCEPT !.tx = stored]
      /\ call' = [call EXCEPT !.at = "replay", !.next = 1]
      /\ UNCHANGED <<stored, locked, running, in_transaction, transaction_log, written>>
      /\ transaction_log \in Seq(Data)
    BY DEF StartAgain, At, Inv, TypeOK
<1>2. call' \in Run /\ call'.sql = call.sql /\ call'.at = "replay" /\ call'.next = 1
    BY <1>1 DEF Run, Place
<1>3. call' # None
    BY <1>2, Apartness
<1>4. session' \in Connection /\ session'.tx = stored
    BY <1>1, Connections
<1>5. TypeOK'
    BY <1>1, <1>2, <1>4 DEF Inv, TypeOK
<1>6. in_transaction
    BY <1>1 DEF Inv, Outside
<1>7. Inside
    BY <1>6 DEF Inv
<1>8. PICK h : Trace(h, transaction_log, written) /\ Over(h) /\ Back(h)
    BY <1>7 DEF Inside, Traced
<1>9. Len(transaction_log) \in Nat
    BY <1>1
<1>10. h[1] \in Table /\ written \in Table
    BY <1>7, <1>8, <1>9 DEF Trace, Inside
<1>11. stored = h[1] \/ (Asks("commit") /\ Follows(stored, h[1], written))
    BY <1>1, <1>8, <1>10, FollowsFirst DEF Over
<1>12. Over(h)'
    BY <1>1, <1>2, <1>3, <1>8 DEF Over, Asks
<1>13. Back(h)'
    <2>1. Asks("commit")' <=> Asks("commit")
        BY <1>1, <1>2, <1>3 DEF Asks
    <2>2. call'.next \in 1..(Len(transaction_log') + 1)
        BY <1>1, <1>2, <1>9
    <2> QED BY <1>1, <1>2, <1>4, <1>11, <2>1, <2>2 DEF Back
<1>14. Ready'
    BY <1>2, <1>3 DEF Ready
<1>15. ~Asks("begin")'
    BY <1>1, <1>2, <1>3, <1>7 DEF Inside, Asks
<1>16. Traced'
    BY <1>1, <1>8, <1>12, <1>13 DEF Traced
<1>17. Inside'
    BY <1>1, <1>10, <1>14, <1>15, <1>16 DEF Inside
<1> QED BY <1>1, <1>5, <1>6, <1>17 DEF Inv

\* A statement that is replayed makes of the tables what it had made of them.
LEMMA ReplayKeeps ==
    ASSUME Inv, Replay
    PROVE  Inv'
<1> DEFINE n == call.next
           q == transaction_log[n]
<1>1. /\ call # None /\ call \in Run /\ call.at = "replay" /\ running /\ Live
      /\ n <= Len(transaction_log)
      /\ stored \in Table /\ locked \subseteq Name /\ transaction_log \in Seq(Data)
      /\ TypeOK /\ session \in Connection /\ session # None
    BY DEF Replay, At, Live, Inv, TypeOK
<1>2. CASE Refused(q)
    BY <1>2, StopKeeps DEF Replay, Inv
<1>3. CASE ~Refused(q)
    <2>1. /\ session' = Executed(q).session /\ stored' = Executed(q).stored
          /\ call' = [call EXCEPT !.next = @ + 1]
          /\ UNCHANGED <<locked, running, in_transaction, transaction_log, written>>
        BY <1>3 DEF Replay
    <2>2. in_transaction
        BY <1>1 DEF Inv, Outside
    <2>3. Inside
        BY <2>2 DEF Inv
    <2>4. PICK h : Trace(h, transaction_log, written) /\ Over(h) /\ Back(h)
        BY <2>3 DEF Inside, Traced
    <2>5. /\ n \in 1..(Len(transaction_log) + 1) /\ session.tx \in Table
          /\ session.tx = h[n] \/ (Asks("commit") /\ Follows(session.tx, h[n], written))
        BY <1>1, <2>4 DEF Back
    <2>6. n \in 1..Len(transaction_log) /\ n + 1 \in 1..(Len(transaction_log) + 1)
        BY <1>1, <2>5
    <2>7. q \in Data
        BY <1>1, <2>6
    <2>8. h[n] \in Table /\ ~Duplicate(q, h[n]) /\ h[n + 1] = Apply(q, h[n])
        BY <2>4, <2>6 DEF Trace
    <2>9. call' \in Run /\ call'.sql = call.sql /\ call'.at = "replay" /\ call'.next = n + 1
        BY <1>1, <2>1 DEF Run, Place
    <2> HIDE DEF n, q
    <2>10. session.tx # None /\ q \in Statement /\ call' # None
        BY <2>5, <2>7, <2>9, Apartness DEF Statement
    <2>11. stored' = stored /\ session' \in Connection /\ session'.tx = Apply(q, session.tx)
        BY <1>1, <2>1, <2>7, <2>10, Executes
    <2>12. ~Duplicate(q, session.tx)
        BY <1>3, <2>10 DEF Refused, Current
    <2>13. written \in Table
        BY <2>3 DEF Inside
    <2>14. session'.tx \in Table
        BY <2>5, <2>7, <2>11, AppliedRows
    <2>15. \/ session'.tx = h[n + 1]
           \/ Asks("commit") /\ Follows(session'.tx, h[n + 1], written)
        BY <2>5, <2>7, <2>8, <2>11, <2>12, <2>13, FollowsNext
    <2>16. Asks("commit")' <=> Asks("commit")
        BY <1>1, <2>9, <2>10 DEF Asks
    <2>17. Back(h)'
        BY <2>1, <2>6, <2>9, <2>14, <2>15, <2>16 DEF Back
    <2>18. Over(h)'
        BY <2>1, <2>4, <2>11, <2>16 DEF Over
    <2>19. Ready' /\ ~Asks("begin")'
        BY <1>1, <2>3, <2>9, <2>10 DEF Ready, Inside, Asks
    <2>20. Traced'
        BY <2>1, <2>4, <2>17, <2>18 DEF Traced
    <2>21. Inside'
        BY <2>1, <2>13, <2>19, <2>20 DEF Inside
    <2>22. TypeOK'
        BY <1>1, <2>1, <2>9, <2>11 DEF TypeOK
    <2> QED BY <1>1, <2>1, <2>2, <2>21, <2>22 DEF Inv
<1> QED BY <1>2, <1>3

\* At the end of the log a replay has come to what was written.
LEMMA ReplayedKeeps ==
    ASSUME Inv, Replayed
    PROVE  Inv'
<1> DEFINE n == Len(transaction_log)
<1>1. /\ call # None /\ call \in Run /\ call.at = "replay" /\ running
      /\ call.next > n /\ call' = [call EXCEPT !.at = "exec"]
      /\ UNCHANGED <<stored, locked, session, running, in_transaction, transaction_log,
                     written>>
      /\ transaction_log \in Seq(Data) /\ TypeOK
    BY DEF Replayed, At, Inv, TypeOK, database
<1>2. call' \in Run /\ call'.sql = call.sql /\ call'.at = "exec"
    BY <1>1 DEF Run, Place
<1>3. call' # None
    BY <1>2, Apartness
<1>4. in_transaction
    BY <1>1 DEF Inv, Outside
<1>5. Inside /\ n \in Nat
    BY <1>1, <1>4 DEF Inv
<1>6. PICK h : Trace(h, transaction_log, written) /\ Over(h) /\ Back(h)
    BY <1>5 DEF Inside, Traced
<1>7. Asks("commit")' <=> Asks("commit")
    BY <1>1, <1>2, <1>3 DEF Asks
<1>8. written \in Table /\ h[n + 1] = written
    BY <1>5, <1>6 DEF Inside, Trace
<1>9. Live => \/ session.tx = written
              \/ Asks("commit") /\ session.tx \in Table /\ Holds(session.tx, written)
    <2> SUFFICES ASSUME Live
                 PROVE  \/ session.tx = written
                        \/ Asks("commit") /\ session.tx \in Table
                           /\ Holds(session.tx, written)
        OBVIOUS
    <2>1. /\ call.next \in 1..(n + 1) /\ session.tx \in Table
          /\ \/ session.tx = h[call.next]
             \/ Asks("commit") /\ Follows(session.tx, h[call.next], written)
        BY <1>1, <1>6 DEF Back
    <2>2. call.next = n + 1
        BY <1>1, <1>5, <2>1
    <2> QED BY <1>8, <2>1, <2>2, FollowsLast
<1>10. Ready'
    BY <1>1, <1>7, <1>9 DEF Ready, Live
<1>11. Over(h)' /\ Back(h)'
    BY <1>1, <1>2, <1>6, <1>7 DEF Over, Back
<1>12. Traced'
    BY <1>1, <1>6, <1>11 DEF Traced
<1>13. ~Asks("begin")'
    BY <1>1, <1>2, <1>3, <1>5 DEF Inside, Asks
<1>14. Inside'
    BY <1>1, <1>8, <1>10, <1>12, <1>13 DEF Inside
<1>15. TypeOK'
    BY <1>1, <1>2 DEF TypeOK
<1> QED BY <1>1, <1>4, <1>14, <1>15 DEF Inv

\* A connection is lost while nothing is executed, and what it locked is released or not.
LEMMA WeatherKeeps ==
    ASSUME Inv, Drop \/ Notice \/ GoDown \/ ComeUp
    PROVE  Inv'
<1>1. CASE Drop
    <2>1. /\ running /\ Live /\ session' = Lost /\ locked' = locked \cup session.rows
          /\ UNCHANGED <<stored, running, in_transaction, transaction_log, call, written>>
        BY <1>1 DEF Drop, Lose, server
    <2>2. session \in Connection
        BY <2>1 DEF Live, Inv, TypeOK
    <2>3. ~Live' /\ session' \in Connection
        BY <2>1, Connections DEF Live
    <2>4. TypeOK'
        BY <2>1, <2>2, <2>3 DEF Inv, TypeOK, Connection
    <2>5. ~in_transaction /\ call # None => call.at \in {"exec", "connect"}
        BY DEF Inv, Outside
    <2> QED BY <2>1, <2>3, <2>4, <2>5, UnconnectedKeeps
<1>2. CASE Notice \/ GoDown \/ ComeUp
    <2>1. /\ UNCHANGED <<stored, session, running, in_transaction, transaction_log, call,
                         written>>
          /\ locked' \in {locked, {}}
        BY <1>2 DEF Notice, GoDown, ComeUp, server
    <2>2. TypeOK'
        BY <2>1 DEF Inv, TypeOK
    <2>3. Outside => Outside'
        BY <2>1 DEF Outside, Asks, Live
    <2>4. in_transaction => Inside'
        <3> SUFFICES ASSUME in_transaction PROVE Inside'
            OBVIOUS
        <3>1. Inside
            BY DEF Inv
        <3>2. Ready' /\ ~Asks("begin")'
            BY <2>1, <3>1 DEF Inside, Ready, Asks, Live
        <3>3. \A h : Over(h) /\ Back(h) => Over(h)' /\ Back(h)'
            BY <2>1 DEF Over, Back, Asks, Live
        <3> QED BY <2>1, <3>1, <3>2, <3>3, Stands
    <2> QED BY <2>1, <2>2, <2>3, <2>4 DEF Inv
<1> QED BY <1>1, <1>2

\* The process that is started again has nothing open.
LEMMA RestartKeeps ==
    ASSUME Inv, Restart
    PROVE  Inv'
<1>1. /\ session' = Connected /\ running' = TRUE /\ ~running
      /\ UNCHANGED <<stored, locked, in_transaction, transaction_log, call, written>>
    BY DEF Restart
<1>2. session' \in Connection /\ session'.tx = None
    BY <1>1, Connections
<1>3. ~in_transaction /\ call = None
    BY <1>1 DEF Inv
<1>4. TypeOK'
    BY <1>1, <1>2 DEF Inv, TypeOK
<1>5. Outside'
    BY <1>1, <1>2, <1>3 DEF Inv, Outside, Asks
<1> QED BY <1>1, <1>3, <1>4, <1>5 DEF Inv

LEMMA NextInv == Inv /\ [Next]_vars => Inv'
<1> SUFFICES ASSUME Inv, [Next]_vars PROVE Inv'
    OBVIOUS
<1>1. CASE Query \/ BeginTransaction \/ Commit \/ Rollback
    BY <1>1, AsksKeep
<1>2. CASE RawQuery
    BY <1>2, ExecuteKeeps, ThrowKeeps, GoneKeeps, ConnectKeeps, StartAgainKeeps, ReplayKeeps,
       ReplayedKeeps DEF RawQuery
<1>3. CASE LoseAnswer
    BY <1>3, LoseAnswerKeeps
<1>4. CASE Drop \/ Notice \/ GoDown \/ ComeUp
    BY <1>4, WeatherKeeps
<1>5. CASE Crash
    <2>1. TypeOK /\ Stop
        BY <1>5 DEF Crash, Inv
    <2> QED BY <2>1, StopKeeps
<1>6. CASE Restart
    BY <1>6, RestartKeeps
<1>7. CASE UNCHANGED vars
    <2>1. UNCHANGED <<stored, locked, session, running, in_transaction, transaction_log, call,
                      written>>
        BY <1>7 DEF vars, database, server
    <2>2. TypeOK'
        BY <2>1 DEF Inv, TypeOK
    <2>3. Outside => Outside'
        BY <2>1 DEF Outside, Asks, Live
    <2>4. Inside => Inside'
        BY <2>1 DEF Inside, Ready, Traced, Over, Back, Asks, Live
    <2> QED BY <2>1, <2>2, <2>3, <2>4 DEF Inv
<1> QED BY <1>1, <1>2, <1>3, <1>4, <1>5, <1>6, <1>7 DEF Next

LEMMA InvHolds == Spec => []Inv
BY InitInv, NextInv, PTL DEF Spec

-----------------------------------------------------------------------------
(***************************************************************************)
(* What it is for.                                                         *)
(***************************************************************************)

\* Database::RawQuery: between queries the connection is in the transaction that the
\* server is in, with all it has written there and nothing else, or in none, through any
\* number of connections that were lost and replays of the log.
THEOREM TransactionIsKept == Spec => []TransactionMatches
<1>1. Inv => TransactionMatches
    <2> SUFFICES ASSUME Inv, running, call = None, Live PROVE session.tx = written
        BY DEF TransactionMatches
    <2>1. ~Asks("commit")
        BY DEF Asks
    <2>2. CASE in_transaction
        BY <2>1, <2>2 DEF Inv, Inside, Ready
    <2>3. CASE ~in_transaction
        BY <2>3 DEF Inv, Outside
    <2> QED BY <2>2, <2>3
<1> QED BY <1>1, InvHolds, PTL

-----------------------------------------------------------------------------
(***************************************************************************)
(* The store.                                                              *)
(***************************************************************************)

\* What the server waits for, as the store has it.
Asked == IF call = None THEN None ELSE call.sql

\* The statements and tables of the store are those of the connection.
LEMMA SameTables ==
    /\ Promise!Data = Data /\ Promise!Control = Control
    /\ Promise!NoPets = NoPets
    /\ \A q, t : Promise!Apply(q, t) = Apply(q, t)
    /\ \A q, t : Promise!Duplicate(q, t) <=> Duplicate(q, t)
    /\ \A t : Promise!Holds(t) <=> Holds(t, written)
BY DEF Promise!Data, Data, Promise!Control, Control, Promise!NoPets, NoPets,
       Promise!Apply, Apply, Promise!Duplicate, Duplicate, Promise!Holds, Holds

\* A step that the store does not see.
LEMMA Unseen ==
    ASSUME UNCHANGED <<stored, written, running>>, Asked' = Asked
    PROVE  UNCHANGED Promise!vars
BY DEF Promise!vars, Asked

LEMMA AskRefines ==
    ASSUME Inv, Query \/ BeginTransaction \/ Commit \/ Rollback
    PROVE  Promise!Ask
<1>1. \E q \in Data \cup Control :
         /\ Ask(q)
         /\ ~in_transaction => q.op \notin {"commit", "rollback"}
    <2>1. CASE Query
        BY <2>1, Statements DEF Query
    <2>2. CASE BeginTransaction \/ Commit \/ Rollback
        BY <2>2 DEF BeginTransaction, Commit, Rollback
    <2> QED BY <2>1, <2>2
<1>2. PICK q \in Data \cup Control :
         /\ Ask(q)
         /\ ~in_transaction => q.op \notin {"commit", "rollback"}
    BY <1>1
<1>3. running /\ call = None /\ call' = [sql |-> q, at |-> "exec", attempt |-> 0, next |-> 0]
      /\ UNCHANGED <<stored, written, running>>
    BY <1>2 DEF Ask, database
<1>4. call' \in Run /\ call'.sql = q
    BY <1>3 DEF Run, Place, Statement
<1>5. Asked' = q /\ Asked = None
    BY <1>3, <1>4, Apartness DEF Asked
<1>6. written = None => ~in_transaction
    BY Apartness DEF Inv, Inside
<1>7. q \in {p \in Promise!Data \cup Promise!Control :
                written = None => p.op \notin {"commit", "rollback"}}
    BY <1>2, <1>6, SameTables
<1> QED BY <1>3, <1>5, <1>7 DEF Promise!Ask, Asked

\* A statement that is executed, with its answer or without.
LEMMA ExecuteRefines ==
    ASSUME Inv, Execute \/ LoseAnswer
    PROVE  Promise!Next \/ UNCHANGED Promise!vars
<1> DEFINE q == call.sql
<1>1. At("exec") /\ Live /\ ~Refused(q) /\ stored' = Executed(q).stored
      /\ running' = running /\ call # None
    BY DEF Execute, LoseAnswer, At
<1>2. \/ Remember(q) /\ call' = None
      \/ /\ UNCHANGED <<in_transaction, transaction_log, written>>
         /\ call' = call \/ (q.op = "select" /\ call' = None)
    BY DEF Execute, LoseAnswer
<1>3. /\ q \in Statement
      /\ q.op = "begin" => ~in_transaction
      /\ q.op \in {"commit", "rollback"} => in_transaction
      /\ in_transaction => session.tx \in Table /\ session.tx # None
      /\ in_transaction /\ q.op # "commit" => session.tx = written
      /\ in_transaction /\ q.op = "commit" => Holds(session.tx, written)
      /\ ~in_transaction => session.tx = None
      /\ q \in Data =>
            q.op \notin {"begin", "commit", "rollback"}
            /\ (in_transaction => ~Duplicate(q, written))
            /\ (~in_transaction => ~Duplicate(q, stored))
      /\ q \notin Data => q.op \in {"begin", "commit", "rollback"}
    BY <1>1, Executing
<1>4. in_transaction \in BOOLEAN /\ TypeOK
    BY DEF Inv, TypeOK
<1>5. (in_transaction => written \in Table /\ written # None) /\ (~in_transaction => written = None)
    BY Apartness DEF Inv, Inside, Outside
<1>6. Asked = q /\ q # None /\ (call' = None => Asked' = None) /\ (call' = call => Asked' = q)
    BY <1>1, <1>3, Apartness DEF Asked
<1> HIDE DEF q
<1>7. CASE q.op = "begin"
    <2>1. stored' = stored
        BY <1>1, <1>3, <1>4, <1>7, Executes
    <2>2. CASE Remember(q) /\ call' = None
        <3>1. written' = stored /\ Asked' = None /\ written = None
            BY <1>3, <1>5, <1>6, <1>7, <2>2, Remembers
        <3> QED BY <1>1, <1>6, <1>7, <2>1, <3>1 DEF Promise!Next, Promise!Begin, Asked
    <2>3. CASE written' = written /\ call' = call
        BY <1>1, <1>6, <2>1, <2>3, Unseen
    <2> QED BY <1>2, <1>7, <2>2, <2>3
<1>8. CASE q.op = "commit"
    <2>1. Promise!Holds(stored') /\ written # None
        BY <1>1, <1>3, <1>4, <1>5, <1>8, Executes, SameTables
    <2>2. CASE Remember(q) /\ call' = None
        <3>1. written' = None /\ Asked' = None
            BY <1>3, <1>6, <1>8, <2>2, Remembers
        <3> QED BY <1>1, <1>6, <1>8, <2>1, <3>1 DEF Promise!Next, Promise!Commit, Asked
    <2>3. CASE written' = written /\ call' = call
        BY <1>1, <1>6, <1>8, <2>1, <2>3 DEF Promise!Next, Promise!Commit, Asked
    <2> QED BY <1>2, <1>8, <2>2, <2>3
<1>9. CASE q.op = "rollback"
    <2>1. stored' = stored /\ written # None
        BY <1>1, <1>3, <1>4, <1>5, <1>9, Executes
    <2>2. CASE Remember(q) /\ call' = None
        <3>1. written' = None /\ Asked' = None
            BY <1>3, <1>6, <1>9, <2>2, Remembers
        <3> QED BY <1>1, <1>6, <1>9, <2>1, <3>1 DEF Promise!Next, Promise!Rollback, Asked
    <2>3. CASE written' = written /\ call' = call
        BY <1>1, <1>6, <2>1, <2>3, Unseen
    <2> QED BY <1>2, <1>9, <2>2, <2>3
<1>10. CASE q \in Data /\ ~in_transaction
    <2>1. stored' = Promise!Apply(q, stored) /\ ~Promise!Duplicate(q, stored)
          /\ q \in Promise!Data
        BY <1>1, <1>3, <1>4, <1>10, Executes, SameTables
    <2>2. written' = written
        BY <1>2, <1>3, <1>10, Remembers
    <2>3. Asked' \in {None, q}
        BY <1>2, <1>6
    <2> QED BY <1>1, <1>5, <1>6, <1>10, <2>1, <2>2, <2>3
            DEF Promise!Next, Promise!Execute, Asked
<1>11. CASE q \in Data /\ in_transaction
    <2>1. stored' = stored /\ ~Promise!Duplicate(q, written) /\ q \in Promise!Data
        BY <1>1, <1>3, <1>4, <1>11, Executes, SameTables
    <2>2. CASE call' = None
        <3>1. written' = Promise!Apply(q, written)
            <4>1. CASE Remember(q)
                <5>1. written' = Apply(q, written)
                    BY <1>3, <1>11, <4>1, Remembers
                <5> QED BY <5>1, SameTables
            <4>2. CASE written' = written /\ q.op = "select"
                <5>1. Apply(q, written) = written
                    BY <1>5, <1>11, <4>2, AppliedRows
                <5> QED BY <4>2, <5>1, SameTables
            <4> QED BY <1>1, <1>2, <2>2, <4>1, <4>2
        <3> QED BY <1>1, <1>5, <1>6, <1>11, <2>1, <2>2, <3>1
                DEF Promise!Next, Promise!Write, Asked
    <2>3. CASE written' = written /\ call' = call
        BY <1>1, <1>6, <2>1, <2>3, Unseen
    <2> QED BY <1>2, <2>2, <2>3
<1> QED BY <1>3, <1>4, <1>7, <1>8, <1>9, <1>10, <1>11

LEMMA StopRefines ==
    ASSUME running, Stop
    PROVE  Promise!Halt
BY DEF Stop, Promise!Halt

\* Replays write in the transaction that was started again.
LEMMA ReplayStores ==
    ASSUME Inv, Replay, ~Stop
    PROVE  stored' = stored
<1> DEFINE q == transaction_log[call.next]
<1>1. /\ call # None /\ call \in Run /\ call.at = "replay" /\ Live
      /\ call.next <= Len(transaction_log) /\ transaction_log \in Seq(Data) /\ TypeOK
      /\ stored' = Executed(q).stored
    BY DEF Replay, At, Inv, TypeOK
<1>2. in_transaction
    BY <1>1 DEF Inv, Outside
<1>3. PICK h : Back(h)
    BY <1>2 DEF Inv, Inside, Traced
<1>4. call.next \in 1..Len(transaction_log) /\ session.tx \in Table
    BY <1>1, <1>3 DEF Back
<1>5. q \in Data /\ q \in Statement /\ session.tx # None
    BY <1>1, <1>4, Apartness DEF Statement
<1> HIDE DEF q
<1> QED BY <1>1, <1>5, Executes

\* What is done about a connection that is gone the store does not see, unless the server
\* gives up.
LEMMA RecoveryRefines ==
    ASSUME Inv, Gone \/ Connect \/ StartAgain \/ Replay \/ Replayed
    PROVE  Promise!Next \/ UNCHANGED Promise!vars
<1>1. running /\ call # None /\ call \in Run
    BY DEF Gone, Connect, StartAgain, Replay, Replayed, At, Inv, TypeOK
<1>2. CASE Stop
    BY <1>1, <1>2, StopRefines DEF Promise!Next
<1>3. CASE ~Stop
    <2>1. /\ UNCHANGED <<written, running>>
          /\ \/ \E n \in Nat : call' = [call EXCEPT !.at = "connect", !.attempt = n]
             \/ \E p \in Place : call' = [call EXCEPT !.at = p]
             \/ call' = [call EXCEPT !.at = "replay", !.next = 1]
             \/ call' = [call EXCEPT !.next = @ + 1]
        <3>1. CASE Gone
            <4>1. 1 \in Nat /\ call.attempt + 1 \in Nat
                BY <1>1 DEF Run
            <4>2. PICK n \in Nat : ServerGone(n)
                BY <3>1, <4>1 DEF Gone
            <4> QED BY <1>3, <4>2 DEF ServerGone
        <3>2. CASE Connect
            BY <3>2 DEF Connect, Place
        <3>3. CASE StartAgain
            BY <3>3 DEF StartAgain
        <3>4. CASE Replay
            BY <1>3, <3>4 DEF Replay
        <3>5. CASE Replayed
            BY <3>5 DEF Replayed, Place
        <3> QED BY <3>1, <3>2, <3>3, <3>4, <3>5
    <2>2. call'.sql = call.sql /\ call' # None
        <3>1. CASE \E n \in Nat : call' = [call EXCEPT !.at = "connect", !.attempt = n]
            <4>1. call' \in Run /\ call'.sql = call.sql
                BY <1>1, <3>1 DEF Run, Place
            <4> QED BY <4>1, Apartness
        <3>2. CASE \E p \in Place : call' = [call EXCEPT !.at = p]
            <4>1. call' \in Run /\ call'.sql = call.sql
                BY <1>1, <3>2 DEF Run
            <4> QED BY <4>1, Apartness
        <3>3. CASE call' = [call EXCEPT !.at = "replay", !.next = 1]
            <4>1. call' \in Run /\ call'.sql = call.sql
                BY <1>1, <3>3 DEF Run, Place
            <4> QED BY <4>1, Apartness
        <3>4. CASE call' = [call EXCEPT !.next = @ + 1]
            <4>1. call' \in Run /\ call'.sql = call.sql
                BY <1>1, <3>4 DEF Run
            <4> QED BY <4>1, Apartness
        <3> QED BY <2>1, <3>1, <3>2, <3>3, <3>4
    <2>3. stored' = stored
        <3>1. CASE Replay
            BY <1>3, <3>1, ReplayStores
        <3>2. CASE Gone \/ Connect \/ StartAgain \/ Replayed
            BY <1>3, <3>2 DEF Gone, ServerGone, Connect, StartAgain, Replayed, database
        <3> QED BY <3>1, <3>2
    <2> QED BY <1>1, <2>1, <2>2, <2>3, Unseen DEF Asked
<1> QED BY <1>2, <1>3

LEMMA NextRefines == Inv /\ [Next]_vars => [Promise!Next]_Promise!vars
<1> SUFFICES ASSUME Inv, [Next]_vars PROVE Promise!Next \/ UNCHANGED Promise!vars
    OBVIOUS
<1>1. CASE Query \/ BeginTransaction \/ Commit \/ Rollback
    BY <1>1, AskRefines DEF Promise!Next
<1>2. CASE Execute \/ LoseAnswer
    BY <1>2, ExecuteRefines
<1>3. CASE Throw
    <2>1. /\ call # None /\ call' = None /\ UNCHANGED <<stored, written, running>>
        BY <1>3 DEF Throw, At, database
    <2>2. call.sql \in Promise!Data
        BY <1>3, ThrowKeeps, SameTables
    <2> QED BY <2>1, <2>2 DEF Promise!Next, Promise!Throw
<1>4. CASE Gone \/ Connect \/ StartAgain \/ Replay \/ Replayed
    BY <1>4, RecoveryRefines
<1>5. CASE Drop \/ Notice \/ GoDown \/ ComeUp
    <2>1. UNCHANGED <<stored, written, running, call>>
        BY <1>5 DEF Drop, Notice, GoDown, ComeUp, server
    <2> QED BY <2>1, Unseen DEF Asked
<1>6. CASE Crash
    BY <1>6, StopRefines DEF Crash, Promise!Next
<1>7. CASE Restart
    BY <1>7 DEF Restart, Promise!Restart, Promise!Next
<1>8. CASE UNCHANGED vars
    <2>1. UNCHANGED <<stored, written, running, call>>
        BY <1>8 DEF vars, database, server
    <2> QED BY <2>1, Unseen DEF Asked
<1> QED BY <1>1, <1>2, <1>3, <1>4, <1>5, <1>6, <1>7, <1>8 DEF Next, RawQuery

\* Database: every step of the connection, of its recovery and of the database is a step of
\* the store that the server counts on, or none: what is committed is stored as a whole, a
\* COMMIT replayed over itself changes no row that has a key, and what is not committed
\* outlives nothing.
THEOREM StoreIsSafe == Spec => Promise!Safe
<1>1. Init => Promise!Init
    BY SameTables DEF Init, Promise!Init
<1> QED BY <1>1, InvHolds, NextRefines, PTL DEF Spec, Promise!Safe
=============================================================================

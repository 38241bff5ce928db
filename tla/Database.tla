-------------------------------- MODULE Database --------------------------------
(***************************************************************************)
(* The connection of the server with its MySQL database.                   *)
(*                                                                         *)
(* Database::RawQuery connects again when a query finds the connection     *)
(* gone, replays the transaction that is open, and asks its query again.   *)
(* The database executes statements, and its side is external: it may be   *)
(* out of reach, a connection may be lost, with an answer or without, and  *)
(* the transaction of a lost connection keeps its rows locked until the    *)
(* database notices.  The server may crash and be started again.           *)
(*                                                                         *)
(* With TimedSave the server keeps a transaction open between two saves.   *)
(***************************************************************************)
EXTENDS Tables, FiniteSets, Sequences

CONSTANTS
    Attempts,    \* to connect again: 10 in the code
    MaxLog,      \* bound on the statements of a transaction
    MaxPets,     \* bound on the pets the server inserts
    MaxFaults    \* bound on lost connections and crashes

ASSUME BoundsAreNumbers == Attempts \in Nat \ {0} /\ {MaxLog, MaxPets, MaxFaults} \subseteq Nat

\* A connection: its transaction, if there is one, and the rows it has changed.
Connection == [live : BOOLEAN, tx : Table \cup {None}, rows : SUBSET Name]
\* A RawQuery that runs.
Place == {"exec", "connect", "begin", "replay"}
Run == [sql : Statement, at : Place, attempt : Nat, next : Nat]

ASSUME NoneIsNoRecord == None \notin Connection \cup Run

VARIABLES
    stored,           \* the tables that are committed
    locked,           \* the rows of transactions whose connection is lost
    up,               \* the database can be reached
    session,          \* the connection; None when it is closed
    running,          \* the process of the server
    in_transaction,   \* Database::in_transaction
    transaction_log,  \* Database::transaction_log
    call,             \* the RawQuery that runs: None if there is none
    written,          \* what the open transaction has written, for the properties
    faults            \* how many there were

database == <<stored, locked, up, session>>
server == <<running, in_transaction, transaction_log, call, written>>
vars == <<database, server, faults>>

-----------------------------------------------------------------------------
(***************************************************************************)
(* The database (external).                                                *)
(***************************************************************************)

Connected == [live |-> TRUE, tx |-> None, rows |-> {}]
Lost == [live |-> FALSE, tx |-> None, rows |-> {}]

Live == session # None /\ session.live
Current == IF session.tx = None THEN stored ELSE session.tx

\* The row is there already, or locked by a transaction nobody will end.
Refused(q) == Duplicate(q, Current) \/ q.name \in locked

\* The tables and the connection once a statement is executed.
Executed(q) ==
    CASE q.op = "begin" -> [stored |-> stored, session |-> [Connected EXCEPT !.tx = stored]]
      [] q.op = "commit" -> [stored |-> session.tx, session |-> Connected]
      [] q.op = "rollback" -> [stored |-> stored, session |-> Connected]
      [] OTHER ->
            IF session.tx = None
            THEN [stored |-> Apply(q, stored), session |-> session]
            ELSE [stored |-> stored,
                  session |-> [session EXCEPT !.tx = Apply(q, @),
                                              !.rows = @ \cup ({q.name} \cap Name)]]

\* The rows its transaction has changed stay locked.
Lose(s) ==
    /\ faults < MaxFaults /\ faults' = faults + 1
    /\ session' = Lost /\ locked' = locked \cup s.rows

\* A connection is lost while nothing is executed.
Drop ==
    /\ running /\ Live /\ Lose(session)
    /\ UNCHANGED <<stored, up, server>>

Notice ==
    /\ locked # {} /\ locked' = {}
    /\ UNCHANGED <<stored, up, session, server, faults>>

GoDown ==
    /\ up /\ ~Live /\ up' = FALSE
    /\ UNCHANGED <<stored, locked, session, server, faults>>

ComeUp ==
    /\ ~up /\ up' = TRUE
    /\ UNCHANGED <<stored, locked, session, server, faults>>

-----------------------------------------------------------------------------
(***************************************************************************)
(* Database::RawQuery.                                                     *)
(***************************************************************************)

At(place) == running /\ call # None /\ call.at = place

Ask(q) ==
    /\ running /\ call = None
    /\ call' = [sql |-> q, at |-> "exec", attempt |-> 0, next |-> 0]
    /\ UNCHANGED <<database, running, in_transaction, transaction_log, written, faults>>

Query ==
    \E q \in Data :
        /\ Len(transaction_log) < MaxLog
        /\ q.op = "pet" => (IF in_transaction THEN written ELSE stored).pets < MaxPets
        /\ Ask(q)

BeginTransaction ==
    ~in_transaction /\ \E q \in Control : q.op = "begin" /\ Ask(q)

Commit ==
    in_transaction /\ \E q \in Control : q.op = "commit" /\ Ask(q)

Rollback ==
    in_transaction /\ \E q \in Control : q.op = "rollback" /\ Ask(q)

\* Mutant: the log of a transaction that has ended is kept.
Remember_Kept(q) ==
    CASE q.op = "begin" ->
            in_transaction' = TRUE /\ written' = stored /\ UNCHANGED transaction_log
      [] q.op \in {"commit", "rollback"} ->
            in_transaction' = FALSE /\ written' = None /\ UNCHANGED transaction_log
      [] q \in Data /\ in_transaction ->
            /\ transaction_log' = Append(transaction_log, q)
            /\ written' = Apply(q, written)
            /\ UNCHANGED in_transaction
      [] OTHER -> UNCHANGED <<in_transaction, transaction_log, written>>
\* What the server makes of a query that succeeded.
Remember(q) ==
    CASE q.op = "begin" ->
            /\ in_transaction' = TRUE /\ written' = stored
            /\ UNCHANGED transaction_log
      [] q.op \in {"commit", "rollback"} ->
            /\ in_transaction' = FALSE /\ written' = None
            /\ transaction_log' = <<>>
      [] q \in Data /\ in_transaction ->
            /\ transaction_log' =
                  IF q.op = "select" THEN transaction_log ELSE Append(transaction_log, q)
            /\ written' = Apply(q, written)
            /\ UNCHANGED in_transaction
      [] OTHER -> UNCHANGED <<in_transaction, transaction_log, written>>

Execute ==
    /\ At("exec") /\ Live /\ ~Refused(call.sql)
    /\ stored' = Executed(call.sql).stored /\ session' = Executed(call.sql).session
    /\ Remember(call.sql)
    /\ call' = None
    /\ UNCHANGED <<locked, up, running, faults>>

\* It is executed, and the connection is lost before the answer.  Where the rows of an
\* answer are lost the query is not asked again.
LoseAnswer ==
    /\ At("exec") /\ Live /\ ~Refused(call.sql)
    /\ stored' = Executed(call.sql).stored /\ Lose(Executed(call.sql).session)
    /\ \/ call' = call
       \/ call.sql.op = "select" /\ call' = None
    /\ UNCHANGED <<up, running, in_transaction, transaction_log, written>>

\* Database_QueryFailed.
Throw ==
    /\ At("exec") /\ Live /\ Refused(call.sql)
    /\ call' = None
    /\ UNCHANGED <<database, running, in_transaction, transaction_log, written, faults>>

\* std::terminate, or the end of the process for another reason.
Stop ==
    /\ running' = FALSE /\ call' = None /\ session' = None
    /\ in_transaction' = FALSE /\ transaction_log' = <<>> /\ written' = None
    /\ locked' = locked \cup (IF Live THEN session.rows ELSE {})
    /\ UNCHANGED <<stored, up>>

\* The connection is gone: it is closed, and one attempt more is made to connect.
ServerGone(attempt) ==
    IF attempt > Attempts
    THEN Stop
    ELSE /\ call' = [call EXCEPT !.at = "connect", !.attempt = attempt]
         /\ session' = None
         /\ UNCHANGED <<stored, locked, up, running, in_transaction, transaction_log,
                        written>>

Gone ==
    /\ \/ At("exec") /\ ~Live /\ ServerGone(1)
       \/ (At("begin") \/ At("replay")) /\ ~Live /\ ServerGone(call.attempt + 1)
       \/ At("connect") /\ ~up /\ ServerGone(call.attempt + 1)
    /\ UNCHANGED faults

\* Mutant: the log is replayed outside of a transaction.
Connect_Bare ==
    /\ At("connect") /\ up
    /\ session' = Connected
    /\ call' = [call EXCEPT !.at = IF in_transaction THEN "replay" ELSE "exec", !.next = 1]
    /\ UNCHANGED <<stored, locked, up, running, in_transaction, transaction_log, written,
                   faults>>
Connect ==
    /\ At("connect") /\ up
    /\ session' = Connected
    /\ call' = [call EXCEPT !.at = IF in_transaction THEN "begin" ELSE "exec"]
    /\ UNCHANGED <<stored, locked, up, running, in_transaction, transaction_log, written,
                   faults>>

\* The transaction is started again, and its log replayed.
StartAgain ==
    /\ At("begin") /\ Live
    /\ session' = [Connected EXCEPT !.tx = stored]
    /\ call' = [call EXCEPT !.at = "replay", !.next = 1]
    /\ UNCHANGED <<stored, locked, up, running, in_transaction, transaction_log, written,
                   faults>>

Replay ==
    /\ At("replay") /\ Live /\ call.next <= Len(transaction_log)
    /\ LET q == transaction_log[call.next]
       IN IF Refused(q)
          THEN Stop
          ELSE /\ session' = Executed(q).session /\ stored' = Executed(q).stored
               /\ call' = [call EXCEPT !.next = @ + 1]
               /\ UNCHANGED <<locked, up, running, in_transaction, transaction_log, written>>
    /\ UNCHANGED faults

Replayed ==
    /\ At("replay") /\ call.next > Len(transaction_log)
    /\ call' = [call EXCEPT !.at = "exec"]
    /\ UNCHANGED <<database, running, in_transaction, transaction_log, written, faults>>

Crash ==
    /\ running /\ Stop
    /\ faults < MaxFaults /\ faults' = faults + 1

Restart ==
    /\ ~running /\ up
    /\ running' = TRUE /\ session' = Connected
    /\ UNCHANGED <<stored, locked, up, in_transaction, transaction_log, call, written, faults>>

-----------------------------------------------------------------------------
Init ==
    /\ stored \in NoPets
    /\ locked = {} /\ up = TRUE /\ session = Connected
    /\ running = TRUE /\ in_transaction = FALSE /\ transaction_log = <<>> /\ call = None
    /\ written = None /\ faults = 0

RawQuery ==
    \/ Execute \/ Throw \/ Gone \/ Connect
    \/ StartAgain \/ Replay \/ Replayed

Next ==
    \/ Query \/ BeginTransaction \/ Commit \/ Rollback
    \/ RawQuery
    \/ LoseAnswer \/ Drop \/ Notice \/ GoDown \/ ComeUp
    \/ Crash \/ Restart

\* Nothing but the database holds up a query that runs.
Spec == Init /\ [][Next]_vars /\ WF_vars(RawQuery)

-----------------------------------------------------------------------------
(***************************************************************************)
(* Properties.                                                             *)
(***************************************************************************)

\* Between queries the database is where the server thinks it is: in a transaction only if
\* the server is in one, with all that the server has written in it since, through however
\* many connections, and nothing else.
TransactionMatches ==
    running /\ call = None /\ Live => session.tx = written

Promise == INSTANCE Store WITH asked <- IF call = None THEN None ELSE call.sql

\* Whatever is lost, the database keeps what a store promises.
StoreKept == Promise!Spec

=============================================================================

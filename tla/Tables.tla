-------------------------------- MODULE Tables --------------------------------
(***************************************************************************)
(* What the statements of the server do to the tables of install.sql.      *)
(*                                                                         *)
(* Accounts, characters and guilds have a primary key, and are inserted,   *)
(* updated to values that the server holds, and deleted.  The table of     *)
(* pets has none: the same insertion twice makes two pets.                 *)
(***************************************************************************)
EXTENDS Integers

CONSTANTS
    Name,    \* primary keys
    Value,   \* what the other columns of a row hold
    New,     \* what they hold in a row just inserted
    None

ASSUME ValuesAreKnown == New \in Value /\ None \notin Name \cup Value

\* What the tables hold.
Table == [rows : [Name -> Value \cup {None}], pets : Nat]
\* Where the server starts.
NoPets == [rows : [Name -> Value \cup {None}], pets : {0}]

Data ==
    [op : {"insert"}, name : Name, value : {New}]
        \cup [op : {"update"}, name : Name, value : Value]
        \cup [op : {"delete"}, name : Name, value : {None}]
        \cup [op : {"pet", "select"}, name : {None}, value : {None}]

Control == [op : {"begin", "commit", "rollback"}, name : {None}, value : {None}]

Statement == Data \cup Control

ASSUME NoneIsApart == None \notin Table \cup Statement

\* The key is there already.
Duplicate(q, t) == q.op = "insert" /\ t.rows[q.name] # None

Apply(q, t) ==
    CASE q.op = "pet" -> [t EXCEPT !.pets = @ + 1]
      [] \/ q.op \in {"insert", "delete"}
         \/ q.op = "update" /\ t.rows[q.name] # None -> [t EXCEPT !.rows[q.name] = q.value]
      [] OTHER -> t

=============================================================================

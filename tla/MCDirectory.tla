----------------------------- MODULE MCDirectory ----------------------------
(* Small instances, side by side, of the parts that administrators use and  *)
(* of what sets their tables up; they share no state here: a behaviour      *)
(* exercises one of them.  The tables are taken one at a time, as no        *)
(* operation touches two of them.                                           *)
EXTENDS AdminDirectory, AdminAccess, Bootstrap, Migrations, TLC

VARIABLE part

vars == <<adminVars, accessVars, bootVars, schemaVars, part>>

(* The rows and operations of a part.  A client's URIs are taken apart from *)
(* what changes its row: the row is there as long as they are.             *)
RowsOf == [users |-> UserRow, clients |-> ClientRow, uris |-> ClientRow,
           groups |-> GroupRow]

OperationsOf ==
  [users   |-> Operations,
   clients |-> Operations \ {"attach", "detach"},
   uris    |-> {"create", "attach", "detach"},
   groups  |-> Operations]

Init ==
  /\ part \in {"access", "boot", "schema"} \cup DOMAIN RowsOf
  /\ AdminInit /\ AccessInit /\ BootInit /\ SchemaInit
  /\ part # "boot" => ~ password
  /\ part # "schema" => db = Empty

Directory ==
  /\ part \in DOMAIN RowsOf /\ AdminNext
  /\ \A p \in Request :
       /\ adminJob'[p].record \in RowsOf[part] \cup {Null}
       /\ adminJob'[p].op \in OperationsOf[part] \cup {Null}
  /\ UNCHANGED <<accessVars, bootVars, schemaVars, part>>

Access ==
  /\ part = "access" /\ AccessNext
  /\ UNCHANGED <<adminVars, bootVars, schemaVars, part>>

Boot ==
  /\ part = "boot" /\ BootNext
  /\ UNCHANGED <<adminVars, accessVars, schemaVars, part>>

Schema ==
  /\ part = "schema" /\ SchemaNext
  /\ UNCHANGED <<adminVars, accessVars, bootVars, part>>

Next == Directory \/ Access \/ Boot \/ Schema

Spec == Init /\ [][Next]_vars

(* Identities are interchangeable; parts use the same ones.                 *)
Symmetry ==
  Permutations(Request) \cup Permutations(Person) \cup Permutations(Group)
=============================================================================

-------------------------- MODULE DeploymentProofs --------------------------
(***************************************************************************)
(* Theorems of Deployment.  What is done stays done (Grows), and the       *)
(* script's order makes each grant, each finished run and each process     *)
(* that serves a witness of all the statements before it.                  *)
(***************************************************************************)
EXTENDS Deployment, TLAPS

(* The script, statement by statement *)

LEMMA NamedSets ==
    /\ ToSet(Tables) = {"demo_sessions", "session_rate_windows", "memories", "action_receipts"}
    /\ Objects = {"demo_sessions", "session_rate_windows", "memories", "action_receipts",
                   "memories_tenant_embedding_idx"}
    /\ Privileges = {"demo_sessions", "session_rate_windows", "memories", "action_receipts",
                      "connect", "usage", "create"}
<1>1. ToSet(Tables) = {"demo_sessions", "session_rate_windows", "memories", "action_receipts"}
  BY DEF ToSet, Tables
<1> QED BY <1>1 DEF Objects, Privileges

\* The script in full: nothing else is asked of how it is put together.
LEMMA ScriptInFull ==
    /\ DOMAIN Script = 1 .. 23
    /\ Script[1].op = "create_database"
    /\ Script[2].op = "create_user"
    /\ Script[3].op = "revoke_admin"
    /\ Script[4].op = "set_password"
    /\ Script[5].op = "create_object" /\ Script[5].on = "demo_sessions"
    /\ Script[6].op = "create_object" /\ Script[6].on = "session_rate_windows"
    /\ Script[7].op = "create_object" /\ Script[7].on = "memories"
    /\ Script[8].op = "create_object" /\ Script[8].on = "memories_tenant_embedding_idx"
    /\ Script[9].op = "create_object" /\ Script[9].on = "action_receipts"
    /\ Script[10].op = "revoke_from_public" /\ Script[10].on = "connect"
    /\ Script[11].op = "revoke_from_app" /\ Script[11].on = "connect"
    /\ Script[12].op = "grant" /\ Script[12].on = "connect"
    /\ Script[13].op = "revoke_from_public" /\ Script[13].on = "create"
    /\ Script[14].op = "revoke_from_public" /\ Script[14].on = "demo_sessions"
    /\ Script[15].op = "revoke_from_public" /\ Script[15].on = "session_rate_windows"
    /\ Script[16].op = "revoke_from_public" /\ Script[16].on = "memories"
    /\ Script[17].op = "revoke_from_public" /\ Script[17].on = "action_receipts"
    /\ Script[18].op = "grant" /\ Script[18].on = "usage"
    /\ Script[19].op = "grant" /\ Script[19].on = "demo_sessions"
    /\ Script[20].op = "grant" /\ Script[20].on = "session_rate_windows"
    /\ Script[21].op = "grant" /\ Script[21].on = "memories"
    /\ Script[22].op = "grant" /\ Script[22].on = "action_receipts"
    /\ Script[23].op = "validate"
BY DEF Script, Opening, SchemaStatements, DatabasePrivileges, LeastPrivilegeStatements,
       Validation, Each, Statement, Tables

StatementAt(i) ==
    /\ Script[i].op = "validate" <=> i = 23
    /\ Script[i].op = "create_database" => i = 1
    /\ Script[i].op = "create_user" => i = 2
    /\ Script[i].op = "revoke_admin" => i = 3
    /\ Script[i].op = "set_password" => i = 4
    /\ Script[i].op = "create_object" => i > 4 /\ Script[i].on \in Objects
    /\ Script[i].op = "revoke_from_public" => i > 9 /\ Script[i].on # "usage"
    /\ Script[i].op = "revoke_from_app" => i > 9 /\ Script[i].on = "connect"
    /\ Script[i].op = "grant" =>
         \/ i > 9 /\ Script[i].on \in {"connect", "usage"}
         \/ i > 18 /\ Script[i].on \in ToSet(Tables)

LEMMA StatementIs ==
    ASSUME NEW i \in DOMAIN Script
    PROVE  StatementAt(i)
BY ScriptInFull, NamedSets DEF StatementAt

-----------------------------------------------------------------------------
(* The invariant *)

\* What a statement leaves in a database, and what no later statement takes back.
Done(statement, d) ==
    /\ statement.op = "create_user" => login # None
    /\ statement.op = "revoke_admin" => login # None /\ ~ login.admin
    /\ statement.op \in {"create_database", "create_object", "revoke_from_public", "grant"} =>
            databases[d] # None
    /\ statement.op = "create_object" => statement.on \in databases[d].objects
    /\ statement.op = "revoke_from_public" => statement.on \notin databases[d].public
    /\ statement.op = "grant" /\ statement.on # "connect" => statement.on \in databases[d].app

DoneUpTo(n, d) == \A i \in 1 .. n : Done(Script[i], d)

\* A run has done what comes before its next statement.
RunsInOrder ==
    \A o \in Operator : run[o] # None => DoneUpTo(run[o].at - 1, run[o].database)

\* An object shows that the login is no administrator's, a table granted that the
\* objects are complete and the public is out.
DatabaseTells(d) ==
    /\ "usage" \in databases[d].public
    /\ databases[d].public \subseteq {"connect", "usage", "create"}
    /\ databases[d].objects # {} => DoneUpTo(3, d)
    /\ databases[d].app \cap ToSet(Tables) # {} => DoneUpTo(18, d)

DatabasesTell == \A d \in Database : databases[d] # None => DatabaseTells(d)

Undisturbed(d) == \A o \in Operator : run[o] # None => run[o].database # d

FinishedIsDone ==
    \A d \in finished :
        /\ DoneUpTo(22, d)
        /\ Undisturbed(d) => "connect" \in databases[d].app

StartedAsApp ==
    \A p \in Process : process[p] # None =>
        /\ process[p].archives
        /\ process[p].dsn.user = "app"
        /\ process[p].dsn.database = AppDatabase

ServingIsDone ==
    \A p \in Process :
        process[p] # None /\ process[p].phase = "serving" => DoneUpTo(22, AppDatabase)

DeploymentInv ==
    /\ DeploymentTypeOK
    /\ RunsInOrder
    /\ DatabasesTell
    /\ FinishedIsDone
    /\ StartedAsApp
    /\ ServingIsDone

-----------------------------------------------------------------------------
\* What the statements that open the script, and all of them, leave.
LEMMA OpeningDone ==
    ASSUME NEW d \in Database, NEW n \in Nat, DoneUpTo(n, d)
    PROVE  /\ n >= 1 => databases[d] # None
           /\ n >= 2 => login # None
           /\ n >= 3 => ~ login.admin
<1>1. \A i \in 1 .. n : Done(Script[i], d)
  BY DEF DoneUpTo
<1>2. n >= 1 => databases[d] # None
  <2>1. n >= 1 => Done(Script[1], d)
    BY <1>1
  <2> QED BY <2>1, ScriptInFull DEF Done
<1>3. n >= 2 => login # None
  <2>1. n >= 2 => Done(Script[2], d)
    BY <1>1
  <2> QED BY <2>1, ScriptInFull DEF Done
<1>4. n >= 3 => ~ login.admin
  <2>1. n >= 3 => Done(Script[3], d)
    BY <1>1
  <2> QED BY <2>1, ScriptInFull DEF Done
<1> QED BY <1>2, <1>3, <1>4

LEMMA AllDone ==
    ASSUME NEW d \in Database, DoneUpTo(22, d)
    PROVE  /\ databases[d] # None /\ login # None /\ ~ login.admin
           /\ Objects \subseteq databases[d].objects
           /\ databases[d].public \cap {"connect", "create"} = {}
           /\ ToSet(Tables) \cup {"usage"} \subseteq databases[d].app
<1>1. databases[d] # None /\ login # None /\ ~ login.admin
  BY OpeningDone
<1>2. \A i \in 1 .. 22 : Done(Script[i], d)
  BY DEF DoneUpTo
<1>3. Objects \subseteq databases[d].objects
  <2>1. /\ Done(Script[5], d) /\ Done(Script[6], d) /\ Done(Script[7], d)
        /\ Done(Script[8], d) /\ Done(Script[9], d)
    BY <1>2
  <2> QED BY <2>1, ScriptInFull, NamedSets DEF Done
<1>4. databases[d].public \cap {"connect", "create"} = {}
  <2>1. Done(Script[10], d) /\ Done(Script[13], d)
    BY <1>2
  <2> QED BY <2>1, ScriptInFull DEF Done
<1>5. ToSet(Tables) \cup {"usage"} \subseteq databases[d].app
  <2>1. /\ Done(Script[18], d) /\ Done(Script[19], d) /\ Done(Script[20], d)
        /\ Done(Script[21], d) /\ Done(Script[22], d)
    BY <1>2
  <2> QED BY <2>1, ScriptInFull, NamedSets DEF Done
<1> QED BY <1>1, <1>3, <1>4, <1>5

-----------------------------------------------------------------------------
(* What is done stays done *)

Grows ==
    /\ login # None => login' # None /\ (~ login.admin => ~ login'.admin)
    /\ \A d \in Database : databases[d] # None =>
        /\ databases'[d] # None
        /\ databases[d].objects \subseteq databases'[d].objects
        /\ databases'[d].public \subseteq databases[d].public
        /\ databases[d].app \ {"connect"} \subseteq databases'[d].app

LEMMA DoneStays ==
    ASSUME Grows, NEW d \in Database, NEW n \in Nat, DoneUpTo(n, d)
    PROVE  DoneUpTo(n, d)'
<1> SUFFICES ASSUME NEW i \in 1 .. n PROVE Done(Script[i], d)'
  BY DEF DoneUpTo
<1>1. Done(Script[i], d)
  BY DEF DoneUpTo
<1> QED BY <1>1 DEF Grows, Done

StatementStep(o) ==
    \/ CreateDatabase(o) \/ CreateUser(o) \/ RevokeAdmin(o) \/ SetPassword(o)
    \/ CreateObject(o) \/ RevokeFromPublic(o) \/ RevokeFromApp(o) \/ Grant(o)

\* A run about to execute its i-th statement, on database d.
RunAt(o, i, d) ==
    /\ o \in Operator /\ i \in 1 .. 22 /\ d \in Database
    /\ run[o] # None /\ run[o] \in Run
    /\ run[o].at = i /\ run[o].database = d
    /\ DoneUpTo(i - 1, d)

LEMMA StepIsAt ==
    ASSUME DeploymentInv, NEW o \in Operator, StatementStep(o)
    PROVE  \E i \in 1 .. 22, d \in Database : RunAt(o, i, d)
<1>1. run[o] # None /\ Script[run[o].at].op # "validate"
  BY DEF StatementStep, CreateDatabase, CreateUser, RevokeAdmin, SetPassword, CreateObject,
         RevokeFromPublic, RevokeFromApp, Grant, Executes
<1>2. run[o] \in Run
  BY <1>1 DEF DeploymentInv, DeploymentTypeOK
<1>3. run[o].at \in DOMAIN Script /\ run[o].database \in Database
  BY <1>2 DEF Run
<1>4. run[o].at \in 1 .. 22
  BY <1>1, <1>3, StatementIs, ScriptInFull DEF StatementAt
<1>5. DoneUpTo(run[o].at - 1, run[o].database)
  BY <1>1 DEF DeploymentInv, RunsInOrder
<1> QED BY <1>1, <1>2, <1>3, <1>4, <1>5 DEF RunAt

LEMMA RunGoesOn ==
    ASSUME DeploymentInv, NEW o, NEW i, NEW d, RunAt(o, i, d), StatementStep(o)
    PROVE  /\ run' = [run EXCEPT ![o].at = @ + 1]
           /\ run' \in [Operator -> Run \cup {None}]
           /\ UNCHANGED <<runs, finished, process>>
<1>1. run' = [run EXCEPT ![o].at = @ + 1] /\ UNCHANGED <<runs, finished, process>>
  BY DEF StatementStep, CreateDatabase, CreateUser, RevokeAdmin, SetPassword, CreateObject,
         RevokeFromPublic, RevokeFromApp, Grant, Executes
<1>2. i + 1 \in DOMAIN Script
  BY ScriptInFull DEF RunAt
<1> QED BY <1>1, <1>2 DEF RunAt, Run, DeploymentInv, DeploymentTypeOK

-----------------------------------------------------------------------------
(* What a statement does *)

StatementEffect(i, d) ==
    /\ login' \in Login \cup {None}
    /\ databases' \in [Database -> DatabaseState \cup {None}]
    /\ Grows
    /\ Done(Script[i], d)'
    /\ \A e \in Database \ {d} : databases'[e] = databases[e]
    /\ databases'[d] # None => DatabaseTells(d)'

\* The statements on the login.
LEMMA LoginEffect ==
    ASSUME DeploymentInv, NEW o, NEW i, NEW d, RunAt(o, i, d),
           CreateUser(o) \/ RevokeAdmin(o) \/ SetPassword(o)
    PROVE  StatementEffect(i, d)
<1>1. /\ login \in Login \cup {None}
      /\ databases \in [Database -> DatabaseState \cup {None}]
      /\ databases[d] # None => DatabaseTells(d)
      /\ run[o].password \in Password
      /\ Script[i].op \in {"create_user", "revoke_admin", "set_password"}
      /\ databases' = databases
  BY DEF RunAt, Run, DeploymentInv, DeploymentTypeOK, DatabasesTell, CreateUser, RevokeAdmin,
         SetPassword, Executes
<1>2. i >= 3 => login # None
  BY OpeningDone DEF RunAt
<1>3. StatementAt(i)
  BY StatementIs, ScriptInFull DEF RunAt
<1>4. login' \in Login /\ (login # None => (~ login.admin => ~ login'.admin))
  <2>1. CASE CreateUser(o)
    <3>1. login' = IF login = None THEN [password |-> None, admin |-> FALSE] ELSE login
      BY <2>1 DEF CreateUser
    <3>2. [password |-> None, admin |-> FALSE] \in Login
      BY DEF Login
    <3>3. CASE login = None
      BY <3>1, <3>2, <3>3
    <3>4. CASE login # None
      BY <1>1, <3>1, <3>4
    <3> QED BY <3>3, <3>4
  <2>2. CASE RevokeAdmin(o)
    <3>1. i = 3 /\ login' = [login EXCEPT !.admin = FALSE]
      BY <1>1, <1>3, <2>2 DEF RevokeAdmin, Executes, RunAt, StatementAt
    <3>2. login \in Login
      BY <1>1, <1>2, <3>1
    <3> QED BY <3>1, <3>2 DEF Login
  <2>3. CASE SetPassword(o)
    <3>1. i = 4 /\ login' = [login EXCEPT !.password = run[o].password]
      BY <1>1, <1>3, <2>3 DEF SetPassword, Executes, RunAt, StatementAt
    <3>2. login \in Login
      BY <1>1, <1>2, <3>1
    <3> QED BY <1>1, <3>1, <3>2 DEF Login
  <2> QED BY <2>1, <2>2, <2>3
<1>5. login' # None
  BY <1>4, AbsentAssumption
<1>6. Grows
  BY <1>1, <1>4, <1>5 DEF Grows
<1>7. Script[i].op = "revoke_admin" => ~ login'.admin
  <2> SUFFICES ASSUME Script[i].op = "revoke_admin" PROVE ~ login'.admin
    OBVIOUS
  <2>1. RevokeAdmin(o)
    BY DEF RunAt, CreateUser, SetPassword, Executes
  <2>2. login' = [login EXCEPT !.admin = FALSE] /\ login \in Login
    BY <1>1, <1>2, <1>3, <2>1 DEF RevokeAdmin, StatementAt
  <2> QED BY <2>2 DEF Login
<1>8. Done(Script[i], d)'
  BY <1>1, <1>5, <1>7 DEF Done
<1>9. databases'[d] # None => DatabaseTells(d)'
  BY <1>1, <1>6, DoneStays DEF DatabaseTells, RunAt
<1> QED BY <1>1, <1>4, <1>6, <1>8, <1>9 DEF StatementEffect

\* The statement that makes the database.
LEMMA CreateEffect ==
    ASSUME DeploymentInv, NEW o, NEW i, NEW d, RunAt(o, i, d), CreateDatabase(o)
    PROVE  StatementEffect(i, d)
<1>1. /\ login \in Login \cup {None} /\ login' = login
      /\ databases \in [Database -> DatabaseState \cup {None}]
      /\ databases[d] # None => DatabaseTells(d)
      /\ Script[i].op = "create_database"
      /\ databases' = [databases EXCEPT ![d] = IF @ = None THEN NewDatabase ELSE @]
      /\ d \in Database
  BY DEF RunAt, DeploymentInv, DeploymentTypeOK, DatabasesTell, CreateDatabase, Executes, Of
<1>2. NewDatabase \in DatabaseState /\ NewDatabase # None
  BY NamedSets, AbsentAssumption DEF NewDatabase, DatabaseState
<1>3. databases' \in [Database -> DatabaseState \cup {None}] /\ databases'[d] # None
  BY <1>1, <1>2
<1>4. Grows
  BY <1>1, <1>2 DEF Grows
<1>5. Done(Script[i], d)'
  BY <1>1, <1>3 DEF Done
<1>6. DatabaseTells(d)'
  <2>1. CASE databases[d] = None
    <3>1. databases'[d] = NewDatabase
      BY <1>1, <2>1
    <3>2. NewDatabase.app \cap ToSet(Tables) = {}
      BY DEF NewDatabase
    <3> QED BY <3>1, <3>2 DEF DatabaseTells, NewDatabase
  <2>2. CASE databases[d] # None
    BY <1>1, <1>4, <2>2, DoneStays DEF DatabaseTells
  <2> QED BY <2>1, <2>2
<1> QED BY <1>1, <1>3, <1>4, <1>5, <1>6 DEF StatementEffect

\* The statements on the objects and the privileges of a database.
LEMMA DatabaseEffect ==
    ASSUME DeploymentInv, NEW o, NEW i, NEW d, RunAt(o, i, d),
           CreateObject(o) \/ RevokeFromPublic(o) \/ RevokeFromApp(o) \/ Grant(o)
    PROVE  StatementEffect(i, d)
<1> DEFINE on == Script[i].on
<1>1. /\ login \in Login \cup {None} /\ login' = login
      /\ databases \in [Database -> DatabaseState \cup {None}]
      /\ d \in Database
  BY DEF RunAt, DeploymentInv, DeploymentTypeOK, CreateObject, RevokeFromPublic,
         RevokeFromApp, Grant
<1>2. i \in DOMAIN Script /\ StatementAt(i)
  BY StatementIs, ScriptInFull DEF RunAt
<1>3. i > 4
  BY <1>2 DEF RunAt, StatementAt, CreateObject, RevokeFromPublic, RevokeFromApp, Grant, Executes
<1>4. databases[d] # None /\ databases[d] \in DatabaseState /\ DatabaseTells(d)
  <2>1. databases[d] # None
    BY <1>1, <1>3, OpeningDone DEF RunAt
  <2> QED BY <1>1, <2>1 DEF DeploymentInv, DatabasesTell
<1>5. CASE CreateObject(o)
  <2>1. /\ Script[i].op = "create_object" /\ on \in Objects
        /\ databases' = [databases EXCEPT ![d].objects = @ \cup {on}]
    BY <1>2, <1>5 DEF CreateObject, Executes, RunAt, Of, On, StatementAt
  <2>2. databases'[d] = [databases[d] EXCEPT !.objects = @ \cup {on}]
    BY <1>1, <2>1
  <2>3. databases'[d] \in DatabaseState
    BY <1>4, <2>1, <2>2 DEF DatabaseState
  <2>4. databases'[d] # None
    BY <2>3, AbsentAssumption
  <2>5. Grows
    BY <1>1, <1>4, <2>1, <2>2, <2>4 DEF Grows, DatabaseState
  <2>6. Done(Script[i], d)'
    BY <1>4, <2>1, <2>2, <2>4 DEF Done, DatabaseState
  <2>7. DoneUpTo(3, d)
    BY <1>3 DEF RunAt, DoneUpTo
  <2>8. DoneUpTo(3, d)' /\ (DoneUpTo(18, d) => DoneUpTo(18, d)')
    BY <1>1, <2>5, <2>7, DoneStays
  <2>9. DatabaseTells(d)'
    BY <1>4, <2>2, <2>8 DEF DatabaseTells, DatabaseState
  <2> QED BY <1>1, <2>1, <2>3, <2>5, <2>6, <2>9 DEF StatementEffect
<1>6. CASE RevokeFromPublic(o)
  <2>1. /\ Script[i].op = "revoke_from_public" /\ on # "usage"
        /\ databases' = [databases EXCEPT ![d].public = @ \ {on}]
    BY <1>2, <1>6 DEF RevokeFromPublic, Executes, RunAt, Of, On, StatementAt
  <2>2. databases'[d] = [databases[d] EXCEPT !.public = @ \ {on}]
    BY <1>1, <2>1
  <2>3. databases'[d] \in DatabaseState
    BY <1>4, <2>1, <2>2 DEF DatabaseState
  <2>4. databases'[d] # None
    BY <2>3, AbsentAssumption
  <2>5. Grows
    BY <1>1, <1>4, <2>1, <2>2, <2>4 DEF Grows, DatabaseState
  <2>6. Done(Script[i], d)'
    BY <1>4, <2>1, <2>2, <2>4 DEF Done, DatabaseState
  <2>8. (DoneUpTo(3, d) => DoneUpTo(3, d)') /\ (DoneUpTo(18, d) => DoneUpTo(18, d)')
    BY <1>1, <2>5, DoneStays
  <2>9. DatabaseTells(d)'
    BY <1>4, <2>1, <2>2, <2>8 DEF DatabaseTells, DatabaseState
  <2> QED BY <1>1, <2>1, <2>3, <2>5, <2>6, <2>9 DEF StatementEffect
<1>7. CASE RevokeFromApp(o)
  <2>1. /\ Script[i].op = "revoke_from_app" /\ on = "connect"
        /\ databases' = [databases EXCEPT ![d].app = @ \ {on}]
    BY <1>2, <1>7 DEF RevokeFromApp, Executes, RunAt, Of, On, StatementAt
  <2>2. databases'[d] = [databases[d] EXCEPT !.app = @ \ {on}]
    BY <1>1, <2>1
  <2>3. databases'[d] \in DatabaseState
    BY <1>4, <2>1, <2>2 DEF DatabaseState
  <2>4. databases'[d] # None
    BY <2>3, AbsentAssumption
  <2>5. Grows
    BY <1>1, <1>4, <2>1, <2>2, <2>4 DEF Grows, DatabaseState
  <2>6. Done(Script[i], d)'
    BY <2>1 DEF Done
  <2>8. (DoneUpTo(3, d) => DoneUpTo(3, d)') /\ (DoneUpTo(18, d) => DoneUpTo(18, d)')
    BY <1>1, <2>5, DoneStays
  <2>9. DatabaseTells(d)'
    BY <1>4, <2>2, <2>8 DEF DatabaseTells, DatabaseState
  <2> QED BY <1>1, <2>1, <2>3, <2>5, <2>6, <2>9 DEF StatementEffect
<1>8. CASE Grant(o)
  <2>1. /\ Script[i].op = "grant"
        /\ on \in {"connect", "usage"} \/ (i > 18 /\ on \in ToSet(Tables))
        /\ databases' = [databases EXCEPT ![d].app = @ \cup {on}]
    BY <1>2, <1>8 DEF Grant, Executes, RunAt, Of, On, StatementAt
  <2>2. databases'[d] = [databases[d] EXCEPT !.app = @ \cup {on}]
    BY <1>1, <2>1
  <2>3. databases'[d] \in DatabaseState
    BY <1>4, <2>1, <2>2, NamedSets DEF DatabaseState
  <2>4. databases'[d] # None
    BY <2>3, AbsentAssumption
  <2>5. Grows
    BY <1>1, <1>4, <2>1, <2>2, <2>4 DEF Grows, DatabaseState
  <2>6. Done(Script[i], d)'
    BY <1>4, <2>1, <2>2, <2>4 DEF Done, DatabaseState
  <2>7. i > 18 => DoneUpTo(18, d)
    BY DEF RunAt, DoneUpTo
  <2>8. /\ DoneUpTo(3, d) => DoneUpTo(3, d)'
        /\ DoneUpTo(18, d) => DoneUpTo(18, d)'
    BY <1>1, <2>5, DoneStays
  <2>9. DatabaseTells(d)'
    <3>1. databases'[d].app \cap ToSet(Tables) # {} => DoneUpTo(18, d)
      <4>1. i > 18 \/ databases'[d].app \cap ToSet(Tables) = databases[d].app \cap ToSet(Tables)
        BY <1>4, <2>1, <2>2, NamedSets DEF DatabaseState
      <4> QED BY <1>4, <2>7, <4>1 DEF DatabaseTells
    <3> QED BY <1>4, <2>2, <2>8, <3>1 DEF DatabaseTells, DatabaseState
  <2> QED BY <1>1, <2>1, <2>3, <2>5, <2>6, <2>9 DEF StatementEffect
<1> QED BY <1>5, <1>6, <1>7, <1>8

-----------------------------------------------------------------------------
(* Every action keeps the invariant *)

LEMMA InitInv == Init => DeploymentInv
<1> SUFFICES ASSUME Init PROVE DeploymentInv
  OBVIOUS
<1>1. login \in Login \cup {None}
  BY DEF Init, Login
<1>2. DeploymentTypeOK
  BY <1>1, DeploymentAssumption DEF Init, DeploymentTypeOK
<1>3. RunsInOrder /\ DatabasesTell /\ FinishedIsDone /\ StartedAsApp /\ ServingIsDone
  BY DEF Init, RunsInOrder, DatabasesTell, FinishedIsDone, StartedAsApp, ServingIsDone
<1> QED BY <1>2, <1>3 DEF DeploymentInv

LEMMA StatementInv ==
    ASSUME DeploymentInv, NEW o \in Operator, StatementStep(o)
    PROVE  DeploymentInv'
<1>1. PICK i \in 1 .. 22, d \in Database : RunAt(o, i, d)
  BY StepIsAt
<1>2. StatementEffect(i, d)
  BY <1>1, LoginEffect, CreateEffect, DatabaseEffect DEF StatementStep
<1>3. /\ run' = [run EXCEPT ![o].at = @ + 1]
      /\ run' \in [Operator -> Run \cup {None}]
      /\ UNCHANGED <<runs, finished, process>>
  BY <1>1, RunGoesOn
<1>4. Grows
  BY <1>2 DEF StatementEffect
<1>5. DeploymentTypeOK'
  BY <1>2, <1>3 DEF DeploymentInv, DeploymentTypeOK, StatementEffect
<1>6. RunsInOrder'
  <2> SUFFICES ASSUME NEW p \in Operator, run'[p] # None
               PROVE  DoneUpTo(run[p].at - 1, run[p].database)'
    BY DEF RunsInOrder
  <2>1. CASE p = o
    <3>1. run'[o].at = i + 1 /\ run'[o].database = d
      BY <1>1, <1>3 DEF RunAt, Run, DeploymentInv, DeploymentTypeOK
    <3>2. DoneUpTo(i - 1, d)' /\ Done(Script[i], d)'
      BY <1>1, <1>2, <1>4, DoneStays DEF RunAt, StatementEffect
    <3>3. DoneUpTo(i, d)'
      BY <3>2 DEF DoneUpTo
    <3> QED BY <2>1, <3>1, <3>3
  <2>2. CASE p # o
    <3>1. run'[p] = run[p]
      BY <1>3, <2>2 DEF DeploymentInv, DeploymentTypeOK
    <3>2. run[p] \in Run /\ DoneUpTo(run[p].at - 1, run[p].database)
      BY <3>1 DEF DeploymentInv, DeploymentTypeOK, RunsInOrder
    <3>3. run[p].at - 1 \in Nat /\ run[p].database \in Database
      BY <3>2, ScriptInFull DEF Run
    <3>4. DoneUpTo(run[p].at - 1, run[p].database)'
      <4>1. PICK n \in Nat, e \in Database : n = run[p].at - 1 /\ e = run[p].database
        BY <3>3
      <4>2. DoneUpTo(n, e)'
        BY <1>4, <3>2, <4>1, DoneStays
      <4> QED BY <3>1, <4>1, <4>2
    <3> QED BY <3>4
  <2> QED BY <2>1, <2>2
<1>7. DatabasesTell'
  <2> SUFFICES ASSUME NEW e \in Database, databases'[e] # None PROVE DatabaseTells(e)'
    BY DEF DatabasesTell
  <2>1. CASE e = d
    BY <1>2, <2>1 DEF StatementEffect
  <2>2. CASE e # d
    <3>1. databases'[e] = databases[e] /\ DatabaseTells(e)
      BY <1>2, <2>2 DEF StatementEffect, DeploymentInv, DatabasesTell
    <3>2. (DoneUpTo(3, e) => DoneUpTo(3, e)') /\ (DoneUpTo(18, e) => DoneUpTo(18, e)')
      BY <1>4, DoneStays
    <3> QED BY <3>1, <3>2 DEF DatabaseTells
  <2> QED BY <2>1, <2>2
<1>8. FinishedIsDone'
  <2> SUFFICES ASSUME NEW e \in finished'
               PROVE  DoneUpTo(22, e)' /\ (Undisturbed(e)' => "connect" \in databases'[e].app)
    BY DEF FinishedIsDone
  <2>1. e \in finished /\ e \in Database
    BY <1>3 DEF DeploymentInv, DeploymentTypeOK
  <2>2. DoneUpTo(22, e)'
    BY <1>4, <2>1, DoneStays DEF DeploymentInv, FinishedIsDone
  <2>3. ASSUME Undisturbed(e)' PROVE "connect" \in databases'[e].app
    <3>1. run'[o] # None /\ run'[o].database = d
      <4>1. run'[o] = [run[o] EXCEPT !.at = @ + 1] /\ run[o] \in Run
        BY <1>1, <1>3 DEF RunAt, DeploymentInv, DeploymentTypeOK
      <4>2. i + 1 \in DOMAIN Script
        BY ScriptInFull
      <4>3. run'[o] \in Run /\ run'[o].database = d
        BY <1>1, <4>1, <4>2 DEF RunAt, Run
      <4> QED BY <4>3, AbsentAssumption
    <3>2. e # d
      BY <1>1, <2>3, <3>1 DEF Undisturbed
    <3>3. Undisturbed(e)
      BY <1>1, <1>3, <2>3, <3>2 DEF Undisturbed, RunAt, DeploymentInv, DeploymentTypeOK
    <3> QED BY <1>2, <2>1, <3>2, <3>3 DEF StatementEffect, DeploymentInv, FinishedIsDone
  <2> QED BY <2>2, <2>3
<1>9. StartedAsApp'
  BY <1>3 DEF DeploymentInv, StartedAsApp
<1>10. ServingIsDone'
  <2>1. AppDatabase \in Database
    BY DeploymentAssumption
  <2> QED BY <1>3, <1>4, <2>1, DoneStays DEF DeploymentInv, ServingIsDone
<1> QED BY <1>5, <1>6, <1>7, <1>8, <1>9, <1>10 DEF DeploymentInv

\* What a step that leaves the cluster alone has to show.
LEMMA ClusterKept ==
    ASSUME DeploymentInv, UNCHANGED <<login, databases>>
    PROVE  /\ DatabasesTell'
           /\ \A d \in Database, n \in Nat : DoneUpTo(n, d) => DoneUpTo(n, d)'
<1>1. Grows
  BY DEF Grows
<1>2. \A d \in Database, n \in Nat : DoneUpTo(n, d) => DoneUpTo(n, d)'
  BY <1>1, DoneStays
<1>3. DatabasesTell'
  BY <1>2 DEF DeploymentInv, DatabasesTell, DatabaseTells
<1> QED BY <1>2, <1>3

LEMMA BeginInv ==
    ASSUME DeploymentInv, NEW o \in Operator, Begin(o)
    PROVE  DeploymentInv'
<1>1. PICK d \in Database, p \in Password :
        /\ run' = [run EXCEPT ![o] = [database |-> d, password |-> p, at |-> 1]]
        /\ finished' = finished \ {d}
  BY DEF Begin
<1>2. run[o] = None /\ runs < MaxRuns /\ runs' = runs + 1 /\ UNCHANGED <<login, databases, process>>
  BY DEF Begin
<1>3. /\ run \in [Operator -> Run \cup {None}] /\ finished \subseteq Database
      /\ runs \in 0 .. MaxRuns
  BY DEF DeploymentInv, DeploymentTypeOK
<1> DEFINE begun == [database |-> d, password |-> p, at |-> 1]
<1>4. begun \in Run
  BY ScriptInFull DEF Run
<1>5. begun # None
  BY <1>4, AbsentAssumption
<1>6. DeploymentTypeOK'
  BY <1>1, <1>2, <1>3, <1>4, DeploymentAssumption DEF DeploymentInv, DeploymentTypeOK
<1>7. RunsInOrder'
  <2> SUFFICES ASSUME NEW q \in Operator, run'[q] # None
               PROVE  DoneUpTo(run[q].at - 1, run[q].database)'
    BY DEF RunsInOrder
  <2>1. CASE q = o
    BY <1>1, <1>3, <2>1 DEF DoneUpTo
  <2>2. CASE q # o
    <3>1. run'[q] = run[q] /\ run[q] \in Run
      BY <1>1, <1>3, <2>2
    <3>2. DoneUpTo(run[q].at - 1, run[q].database)
      BY <3>1 DEF DeploymentInv, RunsInOrder
    <3> QED BY <1>2, <3>1, <3>2 DEF DoneUpTo, Done
  <2> QED BY <2>1, <2>2
<1>8. DatabasesTell' /\ \A e \in Database, n \in Nat : DoneUpTo(n, e) => DoneUpTo(n, e)'
  BY <1>2, ClusterKept
<1>9. FinishedIsDone'
  <2> SUFFICES ASSUME NEW e \in finished'
               PROVE  DoneUpTo(22, e)' /\ (Undisturbed(e)' => "connect" \in databases'[e].app)
    BY DEF FinishedIsDone
  <2>1. e \in finished /\ e \in Database
    BY <1>1, <1>3
  <2>2. Undisturbed(e)' => Undisturbed(e)
    BY <1>1, <1>2, <1>3 DEF Undisturbed
  <2> QED BY <1>2, <1>8, <2>1, <2>2 DEF DeploymentInv, FinishedIsDone
<1>10. StartedAsApp' /\ ServingIsDone'
  BY <1>2, <1>8, DeploymentAssumption DEF DeploymentInv, StartedAsApp, ServingIsDone
<1> QED BY <1>6, <1>7, <1>8, <1>9, <1>10 DEF DeploymentInv

\* The end of a run, whether it succeeds or not.
EndsRun(o) ==
    /\ run[o] # None
    /\ run' = [run EXCEPT ![o] = None]
    /\ UNCHANGED <<login, databases, runs, process>>

LEMMA EndInv ==
    ASSUME DeploymentInv, NEW o \in Operator, EndsRun(o)
    PROVE  /\ run' \in [Operator -> Run \cup {None}]
           /\ RunsInOrder' /\ DatabasesTell' /\ StartedAsApp' /\ ServingIsDone'
           /\ \A e \in Database, n \in Nat : DoneUpTo(n, e) => DoneUpTo(n, e)'
           /\ \A e \in Database : e # run[o].database => (Undisturbed(e)' => Undisturbed(e))
<1>1. run \in [Operator -> Run \cup {None}]
  BY DEF DeploymentInv, DeploymentTypeOK
<1>2. run' \in [Operator -> Run \cup {None}]
  BY <1>1 DEF EndsRun
<1>3. DatabasesTell' /\ \A e \in Database, n \in Nat : DoneUpTo(n, e) => DoneUpTo(n, e)'
  BY ClusterKept DEF EndsRun
<1>4. RunsInOrder'
  <2> SUFFICES ASSUME NEW q \in Operator, run'[q] # None
               PROVE  DoneUpTo(run[q].at - 1, run[q].database)'
    BY DEF RunsInOrder
  <2>1. run'[q] = run[q]
    BY <1>1 DEF EndsRun
  <2>2. DoneUpTo(run[q].at - 1, run[q].database)
    BY <2>1 DEF DeploymentInv, RunsInOrder
  <2> QED BY <2>1, <2>2 DEF EndsRun, DoneUpTo, Done
<1>5. StartedAsApp' /\ ServingIsDone'
  BY <1>3, DeploymentAssumption DEF EndsRun, DeploymentInv, StartedAsApp, ServingIsDone
<1>6. \A e \in Database : e # run[o].database => (Undisturbed(e)' => Undisturbed(e))
  BY <1>1 DEF EndsRun, Undisturbed
<1> QED BY <1>2, <1>3, <1>4, <1>5, <1>6

LEMMA CutShortInv ==
    ASSUME DeploymentInv, NEW o \in Operator, CutShort(o)
    PROVE  DeploymentInv'
<1>1. EndsRun(o) /\ finished' = finished \ {run[o].database}
  BY DEF CutShort, EndsRun, Of
<1>2. DeploymentTypeOK'
  BY <1>1, EndInv DEF EndsRun, DeploymentInv, DeploymentTypeOK
<1>3. FinishedIsDone'
  <2> SUFFICES ASSUME NEW e \in finished'
               PROVE  DoneUpTo(22, e)' /\ (Undisturbed(e)' => "connect" \in databases'[e].app)
    BY DEF FinishedIsDone
  <2>1. e \in finished /\ e \in Database /\ e # run[o].database
    BY <1>1 DEF DeploymentInv, DeploymentTypeOK
  <2> QED BY <1>1, <2>1, EndInv DEF EndsRun, DeploymentInv, FinishedIsDone
<1> QED BY <1>1, <1>2, <1>3, EndInv DEF DeploymentInv

LEMMA ValidateInv ==
    ASSUME DeploymentInv, NEW o \in Operator, Validate(o)
    PROVE  DeploymentInv'
<1>1. EndsRun(o) /\ finished' = finished \cup {run[o].database}
  BY DEF Validate, EndsRun, Of
<1>2. run[o] \in Run /\ run[o] # None /\ run[o].database \in Database
  BY <1>1 DEF EndsRun, DeploymentInv, DeploymentTypeOK, Run
<1>3. PICK d \in Database : d = run[o].database
  BY <1>2
<1>4. DoneUpTo(22, d)
  <2>1. run[o].at \in DOMAIN Script
    BY <1>2 DEF Run
  <2>2. run[o].at = 23
    BY <2>1, StatementIs DEF StatementAt, Validate
  <2> QED BY <1>2, <1>3, <2>2 DEF DeploymentInv, RunsInOrder
<1>5. "connect" \in databases[d].app
  BY <1>3, <1>4, AllDone DEF Validate, Connects, RuntimeDsn, Of
<1>6. DeploymentTypeOK'
  BY <1>1, <1>2, EndInv DEF EndsRun, DeploymentInv, DeploymentTypeOK
<1>7. FinishedIsDone'
  <2> SUFFICES ASSUME NEW e \in finished'
               PROVE  DoneUpTo(22, e)' /\ (Undisturbed(e)' => "connect" \in databases'[e].app)
    BY DEF FinishedIsDone
  <2>1. CASE e = d
    BY <1>1, <1>4, <1>5, <2>1, EndInv DEF EndsRun
  <2>2. CASE e # d
    <3>1. e \in finished /\ e \in Database /\ e # run[o].database
      BY <1>1, <1>3, <2>2 DEF DeploymentInv, DeploymentTypeOK
    <3> QED BY <1>1, <3>1, EndInv DEF EndsRun, DeploymentInv, FinishedIsDone
  <2> QED BY <2>1, <2>2
<1> QED BY <1>1, <1>6, <1>7, EndInv DEF DeploymentInv

\* The settings a production process accepts name the app, its database and a bucket.
LEMMA LaunchesAsApp ==
    ASSUME NEW launched \in Launches
    PROVE  /\ launched \in Started
           /\ launched.phase = "starting" /\ launched.archives
           /\ launched.dsn.user = "app" /\ launched.dsn.database = AppDatabase
<1>1. PICK s \in Settings, stored \in Dsn \cup {None} :
        /\ Accepted(s, stored)
        /\ launched = [phase |-> "starting", dsn |-> Resolved(s, stored), archives |-> s.bucket]
  BY DEF Launches
<1>2. /\ s.bucket = TRUE /\ Resolvable(s, stored)
      /\ ValidDsn(Resolved(s, stored))
  BY <1>1 DEF Accepted, Settings
<1>3. Resolved(s, stored) \in Dsn
  BY <1>2 DEF Resolvable, Resolved, Settings
<1> QED BY <1>1, <1>2, <1>3 DEF Started, ValidDsn

\* A process that reads the four tables as the app has found them all done.
LEMMA ReadsAllDone ==
    ASSUME DeploymentInv, NEW dsn, dsn.user = "app", dsn.database = AppDatabase,
           Connects(dsn), Reads(dsn)
    PROVE  DoneUpTo(22, AppDatabase)
<1>1. PICK d \in Database : d = AppDatabase
  BY DeploymentAssumption
<1>2. databases[d] # None /\ DatabaseTells(d)
  BY <1>1 DEF Connects, DeploymentInv, DatabasesTell
<1>3. /\ ToSet(Tables) \subseteq databases[d].objects
      /\ \A t \in ToSet(Tables) :
            login.admin \/ t \in databases[d].app \cup databases[d].public
  BY <1>1 DEF Reads, ToSet
<1>4. ~ login.admin
  <2>1. databases[d].objects # {}
    BY <1>3, NamedSets
  <2> QED BY <1>2, <2>1, OpeningDone DEF DatabaseTells
<1>5. ToSet(Tables) \subseteq databases[d].app
  BY <1>2, <1>3, <1>4, NamedSets DEF DatabaseTells
<1>6. DoneUpTo(18, d)
  <2>1. databases[d].app \cap ToSet(Tables) # {}
    BY <1>5, NamedSets
  <2> QED BY <1>2, <2>1 DEF DatabaseTells
<1>7. /\ Done(Script[19], d) /\ Done(Script[20], d) /\ Done(Script[21], d)
      /\ Done(Script[22], d)
  BY <1>2, <1>5, ScriptInFull, NamedSets DEF Done
<1>8. ASSUME NEW i \in 1 .. 22 PROVE Done(Script[i], d)
  <2>1. i \in 1 .. 18 \/ i = 19 \/ i = 20 \/ i = 21 \/ i = 22
    OBVIOUS
  <2> QED BY <1>6, <1>7, <2>1 DEF DoneUpTo
<1> QED BY <1>1, <1>8 DEF DoneUpTo

LEMMA ProcessInv ==
    ASSUME DeploymentInv, NEW p \in Process, Launch(p) \/ Initialize(p) \/ Stop(p)
    PROVE  DeploymentInv'
<1>1. UNCHANGED <<login, databases, run, runs, finished>>
  BY DEF Launch, Initialize, Stop
<1>2. DatabasesTell' /\ \A e \in Database, n \in Nat : DoneUpTo(n, e) => DoneUpTo(n, e)'
  BY <1>1, ClusterKept
<1>3. RunsInOrder' /\ FinishedIsDone'
  BY <1>1 DEF DeploymentInv, RunsInOrder, FinishedIsDone, DoneUpTo, Done, Undisturbed
<1>4. process \in [Process -> Started \cup {None}]
  BY DEF DeploymentInv, DeploymentTypeOK
<1>5. /\ \A q \in Process \ {p} : process'[q] = process[q]
      /\ process' \in [Process -> Started \cup {None}]
      /\ process'[p] # None =>
            /\ process'[p].archives
            /\ process'[p].dsn.user = "app" /\ process'[p].dsn.database = AppDatabase
            /\ process'[p].phase = "serving" => DoneUpTo(22, AppDatabase)
  <2>1. CASE Launch(p)
    <3>1. PICK launched \in Launches : process' = [process EXCEPT ![p] = launched]
      BY <2>1 DEF Launch
    <3> QED BY <1>4, <3>1, LaunchesAsApp
  <2>2. CASE Initialize(p)
    <3>1. /\ process[p] # None /\ process[p] \in Started
          /\ process[p].archives
          /\ process[p].dsn.user = "app" /\ process[p].dsn.database = AppDatabase
      BY <1>4, <2>2 DEF Initialize, DeploymentInv, StartedAsApp
    <3>2. CASE Connects(process[p].dsn) /\ Reads(process[p].dsn)
      <4>1. process' = [process EXCEPT ![p].phase = "serving"]
        BY <1>4, <2>2, <3>2 DEF Initialize
      <4>2. DoneUpTo(22, AppDatabase)
        BY <3>1, <3>2, ReadsAllDone
      <4>3. process'[p] = [process[p] EXCEPT !.phase = "serving"]
        BY <1>4, <4>1
      <4>4. process'[p] \in Started
        BY <3>1, <4>3 DEF Started
      <4> QED BY <1>4, <3>1, <4>1, <4>2, <4>3, <4>4 DEF Started
    <3>3. CASE ~ (Connects(process[p].dsn) /\ Reads(process[p].dsn))
      <4>1. process' = [process EXCEPT ![p] = None]
        BY <1>4, <2>2, <3>3 DEF Initialize
      <4> QED BY <1>4, <4>1
    <3> QED BY <3>2, <3>3
  <2>3. CASE Stop(p)
    BY <1>4, <2>3 DEF Stop
  <2> QED BY <2>1, <2>2, <2>3
<1>6. StartedAsApp'
  BY <1>5 DEF DeploymentInv, StartedAsApp
<1>7. ServingIsDone'
  BY <1>2, <1>5, DeploymentAssumption DEF DeploymentInv, ServingIsDone
<1>8. DeploymentTypeOK'
  BY <1>1, <1>5 DEF DeploymentInv, DeploymentTypeOK
<1> QED BY <1>2, <1>3, <1>6, <1>7, <1>8 DEF DeploymentInv

LEMMA NextInv == DeploymentInv /\ [Next]_vars => DeploymentInv'
<1> SUFFICES ASSUME DeploymentInv, [Next]_vars PROVE DeploymentInv'
  OBVIOUS
<1>1. CASE UNCHANGED vars
  BY <1>1 DEF vars, DeploymentInv, DeploymentTypeOK, RunsInOrder, DatabasesTell, DatabaseTells,
              FinishedIsDone, StartedAsApp, ServingIsDone, Undisturbed, DoneUpTo, Done
<1>2. CASE Next
  <2>1. ASSUME NEW o \in Operator, StatementStep(o) PROVE DeploymentInv'
    BY <2>1, StatementInv
  <2>2. ASSUME NEW o \in Operator, Begin(o) \/ Validate(o) \/ CutShort(o) PROVE DeploymentInv'
    BY <2>2, BeginInv, ValidateInv, CutShortInv
  <2>3. ASSUME NEW p \in Process, Launch(p) \/ Initialize(p) \/ Stop(p) PROVE DeploymentInv'
    BY <2>3, ProcessInv
  <2> QED BY <1>2, <2>1, <2>2, <2>3 DEF Next, StatementStep
<1> QED BY <1>1, <1>2

\* What the script has done so far, and what its traces tell, whatever runs overlap
\* or are cut short.
THEOREM DeploymentInvCorrect == Spec => []DeploymentInv
<1> QED BY InitInv, NextInv, PTL DEF Spec

-----------------------------------------------------------------------------
(* The theorems *)

LEMMA DoneIsComplete ==
    ASSUME DeploymentInv, NEW d \in Database, DoneUpTo(22, d)
    PROVE  Complete(d)
<1>1. /\ databases[d] # None /\ ~ login.admin
      /\ Objects \subseteq databases[d].objects
      /\ databases[d].public \cap {"connect", "create"} = {}
      /\ ToSet(Tables) \cup {"usage"} \subseteq databases[d].app
  BY AllDone
<1>2. databases[d] \in DatabaseState /\ DatabaseTells(d)
  BY <1>1 DEF DeploymentInv, DeploymentTypeOK, DatabasesTell
<1>3. databases[d].objects = Objects
  BY <1>1, <1>2 DEF DatabaseState
<1>4. databases[d].public = {"usage"}
  BY <1>1, <1>2 DEF DatabaseTells
<1>5. databases[d].app \ {"connect"} = ToSet(Tables) \cup {"usage"}
  BY <1>1, <1>2, NamedSets DEF DatabaseState
<1> QED BY <1>1, <1>3, <1>4, <1>5 DEF Complete

\* The login, the databases, the runs and the processes keep to their types: no
\* statement is executed on a login or a database that is not there yet.
THEOREM DeploymentTypeCorrect == Spec => []DeploymentTypeOK
<1>1. DeploymentInv => DeploymentTypeOK
  BY DEF DeploymentInv
<1> QED BY <1>1, DeploymentInvCorrect, PTL

\* For any number of operators, databases, runs and processes: production serves only
\* from its own database, complete and closed to the public.
THEOREM ServingIsComplete == Spec => []ServesOnlyComplete
<1>1. DeploymentInv => ServesOnlyComplete
  <2> SUFFICES ASSUME DeploymentInv, NEW p \in Process, process[p] # None,
                      process[p].phase = "serving"
               PROVE  /\ process[p].archives
                      /\ process[p].dsn.database = AppDatabase
                      /\ Complete(AppDatabase)
    BY DEF ServesOnlyComplete
  <2>1. process[p].archives /\ process[p].dsn.database = AppDatabase
    BY DEF DeploymentInv, StartedAsApp
  <2>2. DoneUpTo(22, AppDatabase)
    BY DEF DeploymentInv, ServingIsDone
  <2> QED BY <2>1, <2>2, DoneIsComplete, DeploymentAssumption
<1> QED BY <1>1, DeploymentInvCorrect, PTL

\* For any number of operators and runs: a run that finishes leaves its database
\* complete and open to the app, whatever other runs have left undone.
THEOREM FinishedIsComplete == Spec => []FinishedIsReady
<1>1. DeploymentInv => FinishedIsReady
  <2> SUFFICES ASSUME DeploymentInv, NEW d \in finished,
                      \A o \in Operator : run[o] # None => Of(o) # d
               PROVE  Complete(d) /\ "connect" \in databases[d].app
    BY DEF FinishedIsReady
  <2>1. d \in Database /\ Undisturbed(d)
    BY DEF DeploymentInv, DeploymentTypeOK, Undisturbed, Of
  <2>2. DoneUpTo(22, d) /\ "connect" \in databases[d].app
    BY <2>1 DEF DeploymentInv, FinishedIsDone
  <2> QED BY <2>1, <2>2, DoneIsComplete
<1> QED BY <1>1, DeploymentInvCorrect, PTL

=============================================================================

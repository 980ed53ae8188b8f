----------------------------- MODULE Deployment -----------------------------
(***************************************************************************)
(* How a database comes to serve: scripts/bootstrap_database.py, run by    *)
(* operators against one cluster, and the start of a production process in *)
(* recalllease/api.py, which serves once the app's login can read the four *)
(* tables.  The script's statements commit one by one; a run may be cut    *)
(* short between any two, run again, and overlap another.  Database names  *)
(* and passwords are values that passed the script's syntactic checks.     *)
(***************************************************************************)
EXTENDS Naturals, Sequences, SequencesExt

CONSTANTS
    None,
    Database,      \* names of databases
    AppDatabase,   \* the one production uses
    Password,      \* passwords of the app's login
    Operator,      \* who runs the script
    Process,       \* who runs the application
    MaxRuns        \* bound: runs of the script begun

ASSUME DeploymentAssumption ==
    /\ AppDatabase \in Database
    /\ None \notin Password
    /\ MaxRuns \in Nat

VARIABLES
    login,      \* the app's login, one for the cluster: None, or password and role
    databases,  \* per database: what it holds and grants, or None
    run,        \* per operator: the run of the script under way, or None
    runs,       \* runs begun
    finished,   \* databases whose last run, of those begun or ended, succeeded
    process     \* per process: what it has started with, or None

vars == <<login, databases, run, runs, finished, process>>

-----------------------------------------------------------------------------
Tables == <<"demo_sessions", "session_rate_windows", "memories", "action_receipts">>

Objects == ToSet(Tables) \cup {"memories_tenant_embedding_idx"}

Statement(op, on) == [op |-> op, on |-> on]

Each(op, ons) == [i \in DOMAIN ons |-> Statement(op, ons[i])]

SchemaStatements ==
    Each("create_object", <<"demo_sessions", "session_rate_windows", "memories",
                            "memories_tenant_embedding_idx", "action_receipts">>)

\* Mutant: the schema is granted, and not its use alone.
GrantsSchema ==
    <<Statement("revoke_from_public", "create")>>
        \o Each("revoke_from_public", Tables)
        \o Each("grant", <<"create">> \o Tables)

LeastPrivilegeStatements ==
    <<Statement("revoke_from_public", "create")>>
        \o Each("revoke_from_public", Tables)
        \o Each("grant", <<"usage">> \o Tables)

\* The runtime login that ends the script stands as its last statement.
Opening ==
    <<Statement("create_database", None), Statement("create_user", None),
      Statement("revoke_admin", None), Statement("set_password", None)>>

DatabasePrivileges ==
    <<Statement("revoke_from_public", "connect"),
      Statement("revoke_from_app", "connect"), Statement("grant", "connect")>>

Validation == <<Statement("validate", None)>>

\* Mutant: the tables are granted before the schema is complete.
GrantsFirst ==
    Opening \o SubSeq(SchemaStatements, 1, 3) \o <<SchemaStatements[5]>>
        \o DatabasePrivileges \o LeastPrivilegeStatements \o <<SchemaStatements[4]>>
        \o Validation

Script ==
    Opening \o SchemaStatements \o DatabasePrivileges \o LeastPrivilegeStatements
        \o Validation

-----------------------------------------------------------------------------
\* What CockroachDB grants of itself: a new database can be connected to, and
\* its schema used and extended, by anyone; a new table by its owner.
NewDatabase ==
    [objects |-> {}, public |-> {"connect", "usage", "create"}, app |-> {}]

Privileges == ToSet(Tables) \cup {"connect", "usage", "create"}

\* The app is never granted to extend the schema.
DatabaseState ==
    [objects : SUBSET Objects, public : SUBSET Privileges, app : SUBSET (Privileges \ {"create"})]

Login == [password : Password \cup {None}, admin : BOOLEAN]

Run == [database : Database, password : Password, at : DOMAIN Script]

\* A connection string: the other parameters are the administrator's own.
Dsn ==
    [user : {"app", "admin"}, database : Database, password : Password \cup {None},
     verified : BOOLEAN]

Started == [phase : {"starting", "serving"}, dsn : Dsn, archives : BOOLEAN]

ASSUME AbsentAssumption == None \notin Login \cup DatabaseState \cup Run \cup Dsn \cup Started

DeploymentTypeOK ==
    /\ login \in Login \cup {None}
    /\ databases \in [Database -> DatabaseState \cup {None}]
    /\ run \in [Operator -> Run \cup {None}]
    /\ runs \in 0 .. MaxRuns
    /\ finished \subseteq Database
    /\ process \in [Process -> Started \cup {None}]

\* The login may exist already: one made in the console is an administrator.
Init ==
    /\ login \in [password : Password, admin : {TRUE}] \cup {None}
    /\ databases = [d \in Database |-> None]
    /\ run = [o \in Operator |-> None]
    /\ runs = 0
    /\ finished = {}
    /\ process = [p \in Process |-> None]

-----------------------------------------------------------------------------
(* The cluster's answers *)

Connects(dsn) ==
    /\ databases[dsn.database] # None
    /\ dsn.user = "app" =>
        /\ login # None
        /\ login.password = dsn.password
        /\ \/ login.admin
           \/ "connect" \in databases[dsn.database].app \cup databases[dsn.database].public

\* SCHEMA_VALIDATION_STATEMENTS: a read of each table.
Reads(dsn) ==
    \A i \in DOMAIN Tables :
        /\ Tables[i] \in databases[dsn.database].objects
        /\ dsn.user = "app" =>
            \/ login.admin
            \/ Tables[i] \in databases[dsn.database].app \cup databases[dsn.database].public

-----------------------------------------------------------------------------
(* The script *)

\* _read_configuration: the administrator's login is not the app's.
Begin(o) ==
    /\ run[o] = None
    /\ runs < MaxRuns
    /\ \E d \in Database, p \in Password :
        /\ run' = [run EXCEPT ![o] = [database |-> d, password |-> p, at |-> 1]]
        /\ finished' = finished \ {d}
    /\ runs' = runs + 1
    /\ UNCHANGED <<login, databases, process>>

Executes(o, op) ==
    /\ run[o] # None
    /\ Script[run[o].at].op = op
    /\ run' = [run EXCEPT ![o].at = @ + 1]
    /\ UNCHANGED <<runs, finished, process>>

\* The object or the privilege the statement names, and the database it is in.
On(o) == Script[run[o].at].on

Of(o) == run[o].database

CreateDatabase(o) ==
    /\ Executes(o, "create_database")
    /\ databases' = [databases EXCEPT ![Of(o)] = IF @ = None THEN NewDatabase ELSE @]
    /\ UNCHANGED login

\* A login made by the statement has no password, and no role.
CreateUser(o) ==
    /\ Executes(o, "create_user")
    /\ login' = IF login = None THEN [password |-> None, admin |-> FALSE] ELSE login
    /\ UNCHANGED databases

RevokeAdmin(o) ==
    /\ Executes(o, "revoke_admin")
    /\ login' = [login EXCEPT !.admin = FALSE]
    /\ UNCHANGED databases

SetPassword(o) ==
    /\ Executes(o, "set_password")
    /\ login' = [login EXCEPT !.password = run[o].password]
    /\ UNCHANGED databases

CreateObject(o) ==
    /\ Executes(o, "create_object")
    /\ databases' = [databases EXCEPT ![Of(o)].objects = @ \cup {On(o)}]
    /\ UNCHANGED login

RevokeFromPublic(o) ==
    /\ Executes(o, "revoke_from_public")
    /\ databases' = [databases EXCEPT ![Of(o)].public = @ \ {On(o)}]
    /\ UNCHANGED login

\* REVOKE ALL ON DATABASE: connecting is what the app was granted of it.
RevokeFromApp(o) ==
    /\ Executes(o, "revoke_from_app")
    /\ databases' = [databases EXCEPT ![Of(o)].app = @ \ {On(o)}]
    /\ UNCHANGED login

Grant(o) ==
    /\ Executes(o, "grant")
    /\ databases' = [databases EXCEPT ![Of(o)].app = @ \cup {On(o)}]
    /\ UNCHANGED login

RuntimeDsn(o) ==
    [user |-> "app", database |-> Of(o), password |-> run[o].password, verified |-> TRUE]

\* Mutant: the tables are read over the administrator's connection.
ValidateAsAdmin(o) ==
    /\ run[o] # None
    /\ Script[run[o].at].op = "validate"
    /\ Reads([RuntimeDsn(o) EXCEPT !.user = "admin"])
    /\ run' = [run EXCEPT ![o] = None]
    /\ finished' = finished \cup {Of(o)}
    /\ UNCHANGED <<login, databases, runs, process>>

Validate(o) ==
    /\ run[o] # None
    /\ Script[run[o].at].op = "validate"
    /\ Connects(RuntimeDsn(o))
    /\ Reads(RuntimeDsn(o))
    /\ run' = [run EXCEPT ![o] = None]
    /\ finished' = finished \cup {Of(o)}
    /\ UNCHANGED <<login, databases, runs, process>>

\* A statement fails, or the script dies, between two statements.
CutShort(o) ==
    /\ run[o] # None
    /\ run' = [run EXCEPT ![o] = None]
    /\ finished' = finished \ {Of(o)}
    /\ UNCHANGED <<login, databases, runs, process>>

-----------------------------------------------------------------------------
(* The application, in production *)

Settings ==
    [backend : {"memory", "cockroach"}, exposure : {"loopback", "aws_iam"},
     url : Dsn \cup {None}, parameter : BOOLEAN, bucket : BOOLEAN, capability : BOOLEAN]

\* _resolve_database_url, with what Parameter Store answers.
Resolvable(s, stored) ==
    /\ s.exposure = "aws_iam" => s.url = None /\ s.parameter
    /\ IF s.parameter THEN stored # None ELSE s.url # None

Resolved(s, stored) == IF s.parameter THEN stored ELSE s.url

ValidDsn(dsn) ==
    /\ dsn.user = "app"
    /\ dsn.database = AppDatabase
    /\ dsn.verified
    /\ dsn.password # None

\* create_app, build_service and _validate_production_cloud_settings.
Accepted(s, stored) ==
    /\ s.backend = "cockroach"
    /\ s.exposure = "loopback" => s.capability
    /\ Resolvable(s, stored)
    /\ s.bucket
    /\ ValidDsn(Resolved(s, stored))

Launches ==
    UNION {{[phase |-> "starting", dsn |-> Resolved(s, stored), archives |-> s.bucket] :
                stored \in {v \in Dsn \cup {None} : Accepted(s, v)}} : s \in Settings}

\* Whatever the environment says, and whatever Parameter Store holds.
Launch(p) ==
    /\ process[p] = None
    /\ \E launched \in Launches : process' = [process EXCEPT ![p] = launched]
    /\ UNCHANGED <<login, databases, run, runs, finished>>

\* CockroachStore.initialize: a process that fails it does not serve.
Initialize(p) ==
    /\ process[p] # None
    /\ process[p].phase = "starting"
    /\ process' = [process EXCEPT ![p] =
            IF Connects(process[p].dsn) /\ Reads(process[p].dsn)
            THEN [@ EXCEPT !.phase = "serving"] ELSE None]
    /\ UNCHANGED <<login, databases, run, runs, finished>>

Stop(p) ==
    /\ process[p] # None
    /\ process' = [process EXCEPT ![p] = None]
    /\ UNCHANGED <<login, databases, run, runs, finished>>

-----------------------------------------------------------------------------
Next ==
    \/ \E o \in Operator :
        \/ Begin(o) \/ CreateDatabase(o) \/ CreateUser(o) \/ RevokeAdmin(o)
        \/ SetPassword(o) \/ CreateObject(o) \/ RevokeFromPublic(o)
        \/ RevokeFromApp(o) \/ Grant(o) \/ Validate(o) \/ CutShort(o)
    \/ \E p \in Process : Launch(p) \/ Initialize(p) \/ Stop(p)

Spec == Init /\ [][Next]_vars

-----------------------------------------------------------------------------
(* Properties *)

Complete(d) ==
    /\ databases[d].objects = Objects
    /\ databases[d].public = {"usage"}
    /\ databases[d].app \ {"connect"} = ToSet(Tables) \cup {"usage"}
    /\ ~ login.admin

\* A production process serves only from its own database, and only once the schema,
\* the index that no read of a table would miss included, is complete and the login it
\* uses has the privileges of the script and no others: reading the four tables is
\* proof of it, however many runs were cut short before (CockroachStore.initialize).
ServesOnlyComplete ==
    \A p \in Process :
        process[p] # None /\ process[p].phase = "serving" =>
            /\ process[p].archives
            /\ process[p].dsn.database = AppDatabase
            /\ Complete(AppDatabase)

\* A run that finishes leaves the database complete and open to the app's login,
\* whatever earlier or overlapping runs left undone (bootstrap).
FinishedIsReady ==
    \A d \in finished :
        (\A o \in Operator : run[o] # None => Of(o) # d) =>
            Complete(d) /\ "connect" \in databases[d].app

=============================================================================

---------------------------- MODULE LeaseService ----------------------------
(***************************************************************************)
(* RecallLeaseService (recalllease/service.py) serving concurrent requests *)
(* over the store, and the receipt archive (recalllease/receipts.py).      *)
(*                                                                         *)
(* A request is a thread of control: each call it makes to the store or to *)
(* the archive is one step, and the steps of different requests, the clock *)
(* and the row expiry interleave between them.  A request may fail at any  *)
(* call, by an exception or because its process dies.                      *)
(***************************************************************************)
EXTENDS LeaseStore

CONSTANTS
    Request,          \* requests clients send; each is served once
    Workers,          \* requests in flight at a time
    TTL,              \* lifetime of a session
    UseLimit,         \* budget of a session
    Skew,             \* clock of the service's host, relative to the store's
    Archive,          \* whether receipts are archived (S3ReceiptSink) or not (NullReceiptSink)
    ClientDraft,      \* what clients ask to be remembered
    PermissionTopic,  \* topic of the initial permission
    AudienceTopic     \* topic of the initial context fact

\* Times in a client's draft are relative to the service's clock on arrival.
ClientDrafts ==
    [effect : Effect, topic : Topic, delay : Int, length : (Nat \ {0}) \cup {None}]

MaxTries == 3

ASSUME ServiceAssumption ==
    /\ Workers \in Nat \ {0}
    /\ TTL \in Nat \ {0}
    /\ UseLimit \in Nat \ {0}
    /\ Skew \in Int
    /\ Archive \in BOOLEAN
    /\ ClientDraft \subseteq ClientDrafts
    /\ {PermissionTopic, AudienceTopic} \subseteq Topic
    /\ ReceiptId = Request \X (1 .. MaxTries)

VARIABLES
    pc,        \* per request: the call it makes next, or how it ended
    call,      \* per request: what was asked, or None before it arrives
    tries,     \* per request: retrievals whose receipt was refused
    view,      \* per request: what its latest retrieval returned
    response,  \* per request: the receipt it saved and will answer with
    objects    \* receipts written to the archive, named by their content

serviceVars == <<pc, call, tries, view, response, objects>>
vars == <<now, sessions, memories, receipts, hourly,
          pc, call, tries, view, response, objects>>

-----------------------------------------------------------------------------
Ended     == {"done", "failed"}
Underway  == {"open", "grant", "context", "authorize", "record", "list",
              "recall", "save", "put", "attach"}
Operation == {"create", "add", "state", "evaluate"}

Call ==
    [op     : Operation,
     tenant : Tenant,
     token  : Token,
     query  : Query \cup {None},
     draft  : MemoryCreate \cup {None}]

View ==
    [evidence : SUBSET (Nat \ {0}),
     decision : Decision,
     version  : Nat,
     before   : Time \cup {None},
     at       : Time]

ASSUME AbsentAssumption ==
    None \notin Session \cup Call \cup View \cup ActionReceipt \cup MemoryCreate \cup MemoryId

\* The content a receipt's digest is taken over; the archive key is not part of it.
Canonical(receipt) == [receipt EXCEPT !.archived = FALSE]

TypeOK ==
    /\ StoreTypeOK
    /\ pc \in [Request -> {"idle"} \cup Underway \cup Ended]
    /\ call \in [Request -> Call \cup {None}]
    /\ tries \in [Request -> 0 .. MaxTries]
    /\ view \in [Request -> View \cup {None}]
    /\ response \in [Request -> ActionReceipt \cup {None}]
    /\ objects \in SUBSET ActionReceipt

Init ==
    /\ StoreInit
    /\ pc = [r \in Request |-> "idle"]
    /\ call = [r \in Request |-> None]
    /\ tries = [r \in Request |-> 0]
    /\ view = [r \in Request |-> None]
    /\ response = [r \in Request |-> None]
    /\ objects = {}

-----------------------------------------------------------------------------
HostNow == now + Skew

Goto(r, label) == pc' = [pc EXCEPT ![r] = label]

\* A request that fails answers with an error, whatever it has saved.
Fail(r) ==
    /\ Goto(r, "failed")
    /\ view' = [view EXCEPT ![r] = None]
    /\ response' = [response EXCEPT ![r] = None]
    /\ UNCHANGED <<call, tries>>

\* A tenant identifier is a fresh random one at every create request.
Fresh(t) ==
    \A r \in Request : call[r] # None /\ call[r].op = "create" => call[r].tenant # t

\* A client knows the tenants, and the tokens, of sessions it was answered with.
Issued ==
    {t \in Tenant : \E r \in Request :
        /\ pc[r] = "done"
        /\ call[r].op = "create"
        /\ call[r].tenant = t}

KnownMemories == UNION {{<<t, i>> : i \in DOMAIN memories[t]} : t \in Issued}

HasRoom(r) ==
    /\ pc[r] = "idle"
    /\ Cardinality({s \in Request : pc[s] \in Underway}) < Workers

Arrive(r, asked, label) ==
    /\ HasRoom(r)
    /\ call' = [call EXCEPT ![r] = asked]
    /\ Goto(r, label)
    /\ UNCHANGED <<storeVars, tries, view, response, objects>>

-----------------------------------------------------------------------------
(* create_demo_session *)

InitialPermission(until) ==
    [effect |-> "allow", topic |-> PermissionTopic,
     from |-> HostNow, until |-> until, supersedes |-> None]

AudienceFact ==
    [effect |-> "context", topic |-> AudienceTopic,
     from |-> HostNow, until |-> None, supersedes |-> None]

\* The session's expiry is set by the host's clock before the store is called.
ReceiveCreate(r) ==
    \E t \in Tenant :
        /\ Fresh(t)
        /\ Arrive(r, [op |-> "create", tenant |-> t, token |-> t, query |-> None,
                      draft |-> InitialPermission(HostNow + TTL)], "open")

\* The permission is made next; one that would already have expired is refused.
OpenSession(r) ==
    LET c == call[r]
    IN  /\ pc[r] = "open"
        /\ CreateSession(c.tenant, c.token, c.draft.until, UseLimit)
        /\ IF HostNow < c.draft.until
           THEN /\ call' = [call EXCEPT ![r].draft = InitialPermission(c.draft.until)]
                /\ Goto(r, "grant")
                /\ UNCHANGED <<tries, view, response>>
           ELSE Fail(r)
        /\ UNCHANGED objects

OpenRefused(r) ==
    /\ pc[r] = "open"
    /\ RefuseSession
    /\ Fail(r)
    /\ UNCHANGED objects

RecordPermission(r) ==
    /\ pc[r] = "grant"
    /\ AddMemory(call[r].tenant, call[r].draft)
    /\ call' = [call EXCEPT ![r].draft = AudienceFact]
    /\ Goto(r, "context")
    /\ UNCHANGED <<tries, view, response, objects>>

RecordAudience(r) ==
    /\ pc[r] = "context"
    /\ AddMemory(call[r].tenant, call[r].draft)
    /\ Goto(r, "done")
    /\ UNCHANGED <<call, tries, view, response, objects>>

-----------------------------------------------------------------------------
(* Requests of a client with a session *)

\* A client may replace any memory it knows of, in its own session or another.
ReceiveAdd(r) ==
    \E t \in Issued, token \in Issued, d \in ClientDraft, id \in KnownMemories \cup {None} :
        LET from == HostNow + d.delay
        IN  Arrive(r,
                [op |-> "add", tenant |-> t, token |-> token, query |-> None,
                 draft |-> [effect |-> d.effect, topic |-> d.topic, from |-> from,
                            until |-> IF d.length = None THEN None ELSE from + d.length,
                            supersedes |-> id]], "authorize")

ReceiveState(r) ==
    \E t \in Issued, token \in Issued :
        Arrive(r, [op |-> "state", tenant |-> t, token |-> token,
                   query |-> None, draft |-> None], "authorize")

ReceiveEvaluate(r) ==
    \E t \in Issued, token \in Issued, q \in Query :
        Arrive(r, [op |-> "evaluate", tenant |-> t, token |-> token,
                   query |-> q, draft |-> None], "authorize")

AfterAuthorize(op) ==
    CASE op = "add" -> "record" [] op = "state" -> "list" [] op = "evaluate" -> "recall"

Authorize(r) ==
    /\ pc[r] = "authorize"
    /\ AuthorizeSession(call[r].tenant, call[r].token, TRUE)
    /\ Goto(r, AfterAuthorize(call[r].op))
    /\ UNCHANGED <<call, tries, view, response, objects>>

AuthorizeRefused(r) ==
    /\ pc[r] = "authorize"
    /\ ~ Authorized(call[r].tenant, call[r].token, TRUE)
    /\ Fail(r)
    /\ UNCHANGED <<storeVars, objects>>

Record(r) ==
    /\ pc[r] = "record"
    /\ AddMemory(call[r].tenant, call[r].draft)
    /\ Goto(r, "done")
    /\ UNCHANGED <<call, tries, view, response, objects>>

\* Mutant: a refusal of a memory of a new session is not noticed.
RecordRefusedQuietly(r) ==
    /\ pc[r] \in {"grant", "context", "record"}
    /\ ~ AddAccepted(call[r].tenant, call[r].draft)
    /\ IF call[r].op = "create"
       THEN Goto(r, "done") /\ UNCHANGED <<call, tries, view, response>>
       ELSE Fail(r)
    /\ UNCHANGED <<storeVars, objects>>

\* SessionError, or ValueError for a memory that cannot be replaced.
RecordRefused(r) ==
    /\ pc[r] \in {"grant", "context", "record"}
    /\ ~ AddAccepted(call[r].tenant, call[r].draft)
    /\ Fail(r)
    /\ UNCHANGED <<storeVars, objects>>

\* The memory is committed and the answer is lost: the request ends with an error
\* and keeps what it has done.  For a call that is not a request's last this is
\* the call's step followed by Abort.
RecordAnswerLost(r) ==
    /\ pc[r] \in {"grant", "context", "record"}
    /\ AddMemory(call[r].tenant, call[r].draft)
    /\ Fail(r)
    /\ UNCHANGED objects

\* The state is read, in two calls, and nothing is changed by them.
ListState(r) ==
    /\ pc[r] = "list"
    /\ Goto(r, "done")
    /\ UNCHANGED <<storeVars, call, tries, view, response, objects>>

-----------------------------------------------------------------------------
(* evaluate_action *)

Recall(r) ==
    /\ pc[r] = "recall"
    /\ Exists(call[r].tenant)
    /\ view' = [view EXCEPT ![r] = RecallActive(call[r].tenant, call[r].query)]
    /\ Goto(r, "save")
    /\ UNCHANGED <<storeVars, call, tries, response, objects>>

RecallRefused(r) ==
    /\ pc[r] = "recall"
    /\ ~ Exists(call[r].tenant)
    /\ Fail(r)
    /\ UNCHANGED <<storeVars, objects>>

\* A receipt has a new identifier, and digest, at every try.
BuildReceipt(r) ==
    [id       |-> <<r, tries[r] + 1>>,
     tenant   |-> call[r].tenant,
     query    |-> call[r].query,
     decision |-> view[r].decision,
     evidence |-> view[r].evidence,
     created  |-> view[r].at,
     archived |-> FALSE]

\* Mutant: a saved receipt is treated as a refused one and the loop goes on.
SaveAndRepeat(r) ==
    /\ pc[r] = "save"
    /\ tries[r] + 1 < MaxTries
    /\ SaveReceipt(BuildReceipt(r), view[r].version, view[r].before)
    /\ tries' = [tries EXCEPT ![r] = @ + 1]
    /\ Goto(r, "recall")
    /\ UNCHANGED <<call, view, response, objects>>

Save(r) ==
    /\ pc[r] = "save"
    /\ SaveReceipt(BuildReceipt(r), view[r].version, view[r].before)
    /\ response' = [response EXCEPT ![r] = BuildReceipt(r)]
    /\ view' = [view EXCEPT ![r] = None]
    /\ Goto(r, "put")
    /\ UNCHANGED <<call, tries, objects>>

Refused(r) ==
    /\ pc[r] = "save"
    /\ ~ SaveAccepted(call[r].tenant, view[r].version, view[r].before)

\* Mutant: tries are not counted.
RetryForever(r) ==
    /\ Refused(r)
    /\ Goto(r, "recall")
    /\ UNCHANGED <<storeVars, call, tries, view, response, objects>>

\* Mutant: the loop runs once more than it may.
RetryOnceMore(r) ==
    /\ Refused(r)
    /\ tries[r] < MaxTries + 1
    /\ tries' = [tries EXCEPT ![r] = @ + 1]
    /\ view' = [view EXCEPT ![r] = None]
    /\ Goto(r, "recall")
    /\ UNCHANGED <<storeVars, call, response, objects>>

\* Mutant: a refused receipt is archived and answered all the same.
ArchiveRefused(r) ==
    /\ Refused(r)
    /\ response' = [response EXCEPT ![r] = BuildReceipt(r)]
    /\ Goto(r, "put")
    /\ UNCHANGED <<storeVars, call, tries, view, objects>>

SaveRefused(r) ==
    /\ Refused(r)
    /\ tries[r] + 1 < MaxTries
    /\ tries' = [tries EXCEPT ![r] = @ + 1]
    /\ view' = [view EXCEPT ![r] = None]
    /\ Goto(r, "recall")
    /\ UNCHANGED <<storeVars, call, response, objects>>

GiveUp(r) ==
    /\ Refused(r)
    /\ tries[r] + 1 = MaxTries
    /\ Fail(r)
    /\ UNCHANGED <<storeVars, objects>>

\* The object is written under the digest of its content, and the answer arrives.
PutObject(r) ==
    /\ pc[r] = "put"
    /\ Archive
    /\ objects' = objects \cup {Canonical(response[r])}
    /\ Goto(r, "attach")
    /\ UNCHANGED <<storeVars, call, tries, view, response>>

\* The object is written and the answer is lost: the SDK's own retry of the
\* conditional put is refused, and the exception ends the request.
PutAnswerLost(r) ==
    /\ pc[r] = "put"
    /\ Archive
    /\ objects' = objects \cup {Canonical(response[r])}
    /\ Fail(r)
    /\ UNCHANGED storeVars

NoArchive(r) ==
    /\ pc[r] = "put"
    /\ ~ Archive
    /\ Goto(r, "done")
    /\ UNCHANGED <<storeVars, call, tries, view, response, objects>>

Attach(r) ==
    /\ pc[r] = "attach"
    /\ AttachReceiptArchive(response[r].id)
    /\ response' = [response EXCEPT ![r].archived = TRUE]
    /\ Goto(r, "done")
    /\ UNCHANGED <<call, tries, view, objects>>

\* The archive key is committed and the answer is lost.
AttachAnswerLost(r) ==
    /\ pc[r] = "attach"
    /\ AttachReceiptArchive(response[r].id)
    /\ Fail(r)
    /\ UNCHANGED objects

-----------------------------------------------------------------------------
\* A call raises, or the process serving the request dies between two calls.
Abort(r) ==
    /\ pc[r] \in Underway
    /\ Fail(r)
    /\ UNCHANGED <<storeVars, objects>>

Environment ==
    /\ Tick \/ \E t \in Tenant : Reap(t)
    /\ UNCHANGED serviceVars

Receive(r) == ReceiveCreate(r) \/ ReceiveAdd(r) \/ ReceiveState(r) \/ ReceiveEvaluate(r)

Step(r) ==
    \/ OpenSession(r) \/ OpenRefused(r) \/ RecordPermission(r) \/ RecordAudience(r)
    \/ Authorize(r) \/ AuthorizeRefused(r)
    \/ Record(r) \/ RecordRefused(r) \/ RecordAnswerLost(r) \/ ListState(r)
    \/ Recall(r) \/ RecallRefused(r)
    \/ Save(r) \/ SaveRefused(r) \/ GiveUp(r)
    \/ PutObject(r) \/ PutAnswerLost(r) \/ NoArchive(r)
    \/ Attach(r) \/ AttachAnswerLost(r)

\* The bounded clock has stopped and no request is waiting for anything.
Rest ==
    /\ \A r \in Request : pc[r] \notin Underway
    /\ now = MaxTime
    /\ UNCHANGED vars

Next ==
    \/ \E r \in Request : Receive(r) \/ Step(r) \/ Abort(r)
    \/ Environment
    \/ Rest

Spec == Init /\ [][Next]_vars

\* A request being served goes on: each call returns or raises.
Fairness == \A r \in Request : WF_vars(Step(r))

FairSpec == Spec /\ Fairness

-----------------------------------------------------------------------------
(* The inductive invariant *)

\* What the call a request makes next relies on.
ArgumentsOK(r) ==
    /\ pc[r] = "idle" <=> call[r] = None
    /\ pc[r] = "idle" => tries[r] = 0
    /\ pc[r] \in {"open", "grant", "context", "record"} => call[r].draft \in MemoryCreate
    /\ pc[r] = "open" => call[r].draft.until # None
    /\ pc[r] = "authorize" =>
        /\ tries[r] = 0
        /\ call[r].op \in {"add", "state", "evaluate"}
        /\ call[r].op = "add" => call[r].draft \in MemoryCreate
        /\ call[r].op = "evaluate" => call[r].query \in Query
    /\ pc[r] \in {"recall", "save"} =>
        call[r].query \in Query /\ tries[r] < MaxTries
    /\ pc[r] = "save" => view[r] # None
    /\ pc[r] \in {"put", "attach"} => response[r] # None

\* No request knows of a tenant whose session is still to be opened.
TenantsFresh ==
    /\ \A r, s \in Request :
        pc[r] = "open" /\ s # r /\ call[s] # None => call[s].tenant # call[r].tenant
    /\ \A s \in Request : call[s] # None =>
        \E c \in Request :
            call[c] # None /\ call[c].op = "create" /\ call[c].tenant = call[s].tenant

\* A retrieval about to be recorded is of an older version, or still what the
\* ledger says of the time it was made.
ViewSound(r) ==
    LET t == call[r].tenant
        v == view[r]
    IN  /\ v.at <= now
        /\ v.version <= sessions[t].version
        /\ v.version = sessions[t].version =>
            /\ v.evidence = Evidence(memories[t], call[r].query, v.at)
            /\ v.decision = Decide(memories[t], v.evidence)
            /\ v.before = NextTransition(memories[t], v.at)

ViewsSound ==
    \A r \in Request : pc[r] = "save" /\ Exists(call[r].tenant) => ViewSound(r)

\* Every view that is about to be saved is sound: a request that could pass the
\* version guard has the evidence the ledger still holds, whatever the other
\* requests did since it was retrieved (evaluate_action).
Inv ==
    /\ TypeOK
    /\ \A r \in Request : ArgumentsOK(r)
    /\ TenantsFresh
    /\ ViewsSound

-----------------------------------------------------------------------------
(* Properties *)

Commits(t) == Len(receipts'[t]) > Len(receipts[t])

Committed(t) == receipts'[t][Len(receipts'[t])]

\* A receipt is recorded only while it is true.  Although retrieval and the
\* guarded insert are separate calls, and memories, replacements, validity
\* boundaries and the clock come between them, the evidence and the decision
\* recorded are those a retrieval would give at the instant of the commit
\* (evaluate_action, save_receipt).
CommittedAreCurrent ==
    \A t \in Tenant : Commits(t) =>
        LET row == Committed(t)
        IN  /\ row.evidence = Evidence(memories[t], row.query, now)
            /\ row.decision = Decide(memories[t], row.evidence)

CommitIsCurrent == [][CommittedAreCurrent]_vars

\* An active, currently valid denial that is relevant to the action blocks it:
\* no other decision is recorded while it is in force, however it ranks among
\* the tenant's memories (evaluate_action, _decide).
RelevantDenials(t, q) ==
    {i \in InForce(memories[t], now) :
        memories[t][i].effect = "deny" /\ IsRelevant(memories[t][i], q)}

CommittedDenyIfDenied ==
    \A t \in Tenant : Commits(t) =>
        (RelevantDenials(t, Committed(t).query) # {} => Committed(t).decision = "deny")

AnyRelevantDenialWins == [][CommittedDenyIfDenied]_vars

\* A recall is limited, so the most that holds whatever the limit and the budget: a
\* denial that is relevant and in force when another decision is recorded has at
\* least as many memories in force above it as one recall returns, and the session
\* has spent at least as many uses.  So any relevant denial wins in a session with
\* a smaller budget, and in each until that many uses are spent, though denials
\* are added, and begin and cease to be in force, between recall and insert
\* (evaluate_action's limit of 8).
Nearer(t, q, i) == {j \in InForce(memories[t], now) : RanksAbove(memories[t], q, j, i)}

CommittedOverFartherDenials ==
    \A t \in Tenant : Commits(t) /\ Committed(t).decision # "deny" =>
        \A i \in RelevantDenials(t, Committed(t).query) :
            /\ Cardinality(Nearer(t, Committed(t).query, i)) >= RecallLimit
            /\ UseLimit - sessions[t].uses >= RecallLimit

DenialYieldsOnlyToNearer == [][CommittedOverFartherDenials]_vars

\* Requests that got past authorization each spent one use: served concurrently
\* or one after another, they and the uses left never exceed the budget
\* (authorize_session).
Admitted(t) ==
    {r \in Request :
        /\ call[r] # None
        /\ call[r].op # "create"
        /\ call[r].tenant = t
        /\ pc[r] \in {"record", "list", "recall", "save", "put", "attach", "done"}}

BudgetNeverOverspent ==
    \A t \in Tenant : Exists(t) =>
        Cardinality(Admitted(t)) + sessions[t].uses <= UseLimit

\* A tenant's session, memories and receipts change only by a request for that
\* tenant that carries its token, or by the expiry of its rows: a memory of
\* another tenant can be named, and is refused (authorize_session, add_memory).
TenantRows(t) == <<sessions[t], memories[t], receipts[t]>>

ChangedByOwner ==
    \A t \in Tenant :
        \/ TenantRows(t)' = TenantRows(t)
        \/ sessions'[t] = None
        \/ \E r \in Request :
              /\ pc'[r] # pc[r]
              /\ call[r].tenant = t
              /\ call[r].token = t

TenantIsolation == [][ChangedByOwner]_vars

\* A session is made by three calls, each of which may fail before or after it has
\* taken effect.  One that a client was answered with has its permission, which
\* lapses with it, and its context fact; one whose creation failed, even at the last
\* answer, has no more than these and is nobody's: none of its uses is ever
\* spent and nothing is decided under it (create_demo_session).
MadeInOrder(t) ==
    LET ms == memories[t]
    IN  /\ Len(ms) >= 1 => ms[1].effect = "allow" /\ ms[1].until = sessions[t].expires
        /\ Len(ms) >= 2 => ms[2].effect = "context"

AnsweredIsWhole ==
    \A r \in Request : call[r] # None /\ call[r].op = "create" /\ Exists(call[r].tenant) =>
        LET t == call[r].tenant
        IN  /\ MadeInOrder(t)
            /\ pc[r] = "done" => Len(memories[t]) >= 2
            /\ pc[r] = "failed" =>
                /\ Len(memories[t]) <= 2
                /\ receipts[t] = <<>>
                /\ sessions[t].uses = UseLimit

\* The database row, the archived object and the answer agree although they are
\* written by three separate calls that may fail in between: an object is the
\* content of a committed row, a row that has an archive key has its object, and
\* an answered receipt is the row itself (evaluate_action).
Rows(t) == {receipts[t][i] : i \in DOMAIN receipts[t]}

ArchiveAgreement ==
    /\ \A o \in objects :
          Exists(o.tenant) => \E row \in Rows(o.tenant) : Canonical(row) = o
    /\ \A t \in Tenant : \A row \in Rows(t) : row.archived => Canonical(row) \in objects
    /\ \A r \in Request :
          pc[r] = "done" /\ call[r].op = "evaluate" =>
            /\ response[r].archived = Archive
            /\ Exists(call[r].tenant) => response[r] \in Rows(call[r].tenant)

\* However often a request retries, and wherever it fails, it leaves at most one
\* receipt, and it never retries once it has left one (evaluate_action).
ReceiptsOf(r) == {row \in UNION {Rows(t) : t \in Tenant} : row.id[1] = r}

AtMostOneReceipt ==
    \A r \in Request :
        /\ \A t \in Tenant :
              Cardinality({i \in DOMAIN receipts[t] : receipts[t][i].id[1] = r}) <= 1
        /\ pc[r] \in {"recall", "save"} => ReceiptsOf(r) = {}

\* Every request ends: it is not retried for ever, and no two requests wait for
\* each other (evaluate_action's bounded loop).
EveryRequestEnds ==
    \A r \in Request : pc[r] \in Underway ~> pc[r] \in Ended

\* The service behaves like a ledger that pronounces each decision in one
\* indivisible step.
LeaseOf(t)   == IF Exists(t) THEN sessions[t].expires ELSE None
VerdictOf(row) == [query |-> row.query, evidence |-> row.evidence, decision |-> row.decision]

Ledger == INSTANCE AtomicLedger WITH
    clock    <- now,
    lease    <- [t \in Tenant |-> LeaseOf(t)],
    ledger   <- memories,
    verdicts <- [t \in Tenant |-> [i \in DOMAIN receipts[t] |-> VerdictOf(receipts[t][i])]]

\* A decision is pronounced in one step from the memories in force at that
\* instant, though the service takes several calls over it (evaluate_action).
ImplementsLedger == Ledger!Spec

=============================================================================

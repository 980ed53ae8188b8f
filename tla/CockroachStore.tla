--------------------------- MODULE CockroachStore ---------------------------
(***************************************************************************)
(* CockroachStore of recalllease/store.py: every call is a transaction     *)
(* over a connection of a small pool.  The transaction's clock, now(), is  *)
(* the time it began; its statements take effect together when it commits. *)
(* That transactions are serializable is the database's promise, taken     *)
(* here as given: a commit is one step on the rows as they then are, and a *)
(* transaction that cannot be ordered so fails with a serialization error. *)
(* The answer to a commit is a step of its own, and may be lost: then the  *)
(* call has had its effect and ends with another error.                    *)
(*                                                                         *)
(* The rows are the variables of LeaseStore.  Callers make any call at any *)
(* time, but save only what they recalled.                                 *)
(***************************************************************************)
EXTENDS LeaseStore

CONSTANTS
    Caller,       \* threads that call the store
    PoolSize,     \* connections in the pool
    Attempts,     \* times a serializable operation is tried
    Draft,        \* memories that callers submit
    Budget,       \* uses of a new session
    MaxMemories   \* bound: memories per tenant

ASSUME CockroachAssumption ==
    /\ HourlyLimit # 0
    /\ {PoolSize, Attempts} \subseteq Nat \ {0}
    /\ Draft \subseteq MemoryCreate
    /\ {Budget, MaxMemories} \subseteq Nat

VARIABLES
    pc,      \* per caller: "idle", waiting for a connection, in a transaction, or committed
    job,     \* per caller: the call it is making, or None
    began,   \* per caller: now() of its transaction, or None
    tries,   \* per caller: serialization failures of this call so far
    effects, \* per caller: commits of this call so far (history)
    view,    \* per caller: what its latest retrieval returned, or None
    drawn    \* identifiers of tenants and receipts drawn so far

callVars == <<pc, job, began, tries, effects, view>>
vars == <<now, sessions, memories, receipts, hourly,
          pc, job, began, tries, effects, view, drawn>>

-----------------------------------------------------------------------------
\* The columns of demo_sessions.
SessionRow ==
    [token : Token, expires : Time, uses : Nat, version : Nat, created : Time]

Recollection ==
    [tenant   : Tenant,
     query    : Query,
     evidence : SUBSET (Nat \ {0}),
     decision : Decision,
     version  : Nat,
     before   : Time \cup {None},
     at       : Time]

Job ==
    [op : {"create"}, tenant : Tenant, expires : Time]
    \cup [op : {"authorize"}, tenant : Tenant, token : Token, consume : BOOLEAN]
    \cup [op : {"add"}, tenant : Tenant, draft : Draft]
    \cup [op : {"recall"}, tenant : Tenant, query : Query]
    \cup [op : {"save"}, receipt : ActionReceipt, version : Nat, before : Time \cup {None}]
    \cup [op : {"attach"}, id : ReceiptId]

ASSUME CockroachAbsence == None \notin SessionRow \cup Recollection \cup Job

CockroachTypeOK ==
    /\ now \in 0 .. MaxTime
    /\ sessions \in [Tenant -> SessionRow \cup {None}]
    /\ memories \in [Tenant -> Seq(Memory)]
    /\ receipts \in [Tenant -> Seq(ActionReceipt)]
    /\ hourly \in [Windows -> Nat]
    /\ pc \in [Caller -> {"idle", "wait", "open", "committed"}]
    /\ job \in [Caller -> Job \cup {None}]
    /\ began \in [Caller -> (0 .. MaxTime) \cup {None}]
    /\ tries \in [Caller -> 0 .. Attempts - 1]
    /\ effects \in [Caller -> Nat]
    /\ view \in [Caller -> Recollection \cup {None}]
    /\ drawn \subseteq Tenant \cup ReceiptId

Init ==
    /\ StoreInit
    /\ pc = [c \in Caller |-> "idle"]
    /\ job = [c \in Caller |-> None]
    /\ began = [c \in Caller |-> None]
    /\ tries = [c \in Caller |-> 0]
    /\ effects = [c \in Caller |-> 0]
    /\ view = [c \in Caller |-> None]
    /\ drawn = {}

-----------------------------------------------------------------------------
(* Calls *)

Asks(c, what) ==
    /\ pc[c] = "idle"
    /\ pc' = [pc EXCEPT ![c] = "wait"]
    /\ job' = [job EXCEPT ![c] = what]
    /\ UNCHANGED <<storeVars, began, tries, effects>>

AskCreate(c) ==
    \E t \in Tenant \ drawn, expires \in 1 .. MaxTime + 1 :
        /\ Asks(c, [op |-> "create", tenant |-> t, expires |-> expires])
        /\ drawn' = drawn \cup {t}
        /\ UNCHANGED view

AskAuthorize(c) ==
    \E t \in Tenant, token \in Token, consume \in BOOLEAN :
        /\ Asks(c, [op |-> "authorize", tenant |-> t, token |-> token, consume |-> consume])
        /\ UNCHANGED <<view, drawn>>

\* The caller has still to do what it asked for.
Calling(c, op) == pc[c] \in {"wait", "open"} /\ job[c].op = op

PendingAdds(t) == {c \in Caller : Calling(c, "add") /\ job[c].tenant = t}

AskAdd(c) ==
    \E t \in Tenant, d \in Draft :
        /\ Len(memories[t]) + Cardinality(PendingAdds(t)) < MaxMemories
        /\ Asks(c, [op |-> "add", tenant |-> t, draft |-> d])
        /\ UNCHANGED <<view, drawn>>

AskRecall(c) ==
    \E t \in Tenant, q \in Query :
        /\ Asks(c, [op |-> "recall", tenant |-> t, query |-> q])
        /\ UNCHANGED <<view, drawn>>

AskSave(c) ==
    \E id \in ReceiptId \ drawn :
        /\ view[c] # None
        /\ Asks(c, [op      |-> "save",
                    receipt |-> [id       |-> id,
                                 tenant   |-> view[c].tenant,
                                 query    |-> view[c].query,
                                 decision |-> view[c].decision,
                                 evidence |-> view[c].evidence,
                                 created  |-> view[c].at,
                                 archived |-> FALSE],
                    version |-> view[c].version,
                    before  |-> view[c].before])
        /\ view' = [view EXCEPT ![c] = None]
        /\ drawn' = drawn \cup {id}

AskAttach(c) ==
    \E id \in ReceiptId \cap drawn :
        /\ Asks(c, [op |-> "attach", id |-> id])
        /\ UNCHANGED <<view, drawn>>

-----------------------------------------------------------------------------
(* The pool and the transaction *)

InUse == {c \in Caller : pc[c] \in {"open", "committed"}}

\* A connection is taken and the transaction begins: its clock is now.
Connect(c) ==
    /\ pc[c] = "wait"
    /\ Cardinality(InUse) < PoolSize
    /\ pc' = [pc EXCEPT ![c] = "open"]
    /\ began' = [began EXCEPT ![c] = now]
    /\ UNCHANGED <<storeVars, job, tries, effects, view, drawn>>

\* The call is over and its connection, if it has one, is back in the pool.
Over(c) ==
    /\ pc' = [pc EXCEPT ![c] = "idle"]
    /\ job' = [job EXCEPT ![c] = None]
    /\ began' = [began EXCEPT ![c] = None]
    /\ tries' = [tries EXCEPT ![c] = 0]
    /\ effects' = [effects EXCEPT ![c] = 0]
    /\ UNCHANGED drawn

\* No connection within five seconds: they are all in use, or one that has to be
\* opened is not answered.
PoolTimeout(c) ==
    /\ pc[c] = "wait"
    /\ Over(c)
    /\ UNCHANGED <<storeVars, view>>

\* The operations that run under _run_serializable; the others are not retried.
Serializable == {"create", "add", "recall"}

MayRetry(c) == job[c].op \in Serializable /\ tries[c] + 1 < Attempts

\* Mutant: serialization failures are not counted.
RetryUncounted(c) ==
    /\ pc[c] = "open"
    /\ job[c].op \in Serializable
    /\ pc' = [pc EXCEPT ![c] = "wait"]
    /\ began' = [began EXCEPT ![c] = None]
    /\ UNCHANGED <<storeVars, job, tries, effects, view, drawn>>

\* Rolled back, and tried again over a connection taken anew after a delay.
Retry(c) ==
    /\ pc[c] = "open"
    /\ MayRetry(c)
    /\ pc' = [pc EXCEPT ![c] = "wait"]
    /\ began' = [began EXCEPT ![c] = None]
    /\ tries' = [tries EXCEPT ![c] = @ + 1]
    /\ UNCHANGED <<storeVars, job, effects, view, drawn>>

\* A serialization failure that is not retried.
Conflict(c) ==
    /\ pc[c] = "open"
    /\ ~ MayRetry(c)
    /\ Over(c)
    /\ UNCHANGED <<storeVars, view>>

\* The transaction is committed: its rows stand, and its answer is on the way.
Commit(c) ==
    /\ pc' = [pc EXCEPT ![c] = "committed"]
    /\ began' = [began EXCEPT ![c] = None]
    /\ effects' = [effects EXCEPT ![c] = @ + 1]
    /\ UNCHANGED <<job, tries, view, drawn>>

Answered(c) ==
    /\ pc[c] = "committed"
    /\ Over(c)
    /\ UNCHANGED <<storeVars, view>>

\* Mutant: any error of the connection is tried again.
BreakAndRetry(c) ==
    /\ pc[c] \in {"open", "committed"}
    /\ MayRetry(c)
    /\ pc' = [pc EXCEPT ![c] = "wait"]
    /\ began' = [began EXCEPT ![c] = None]
    /\ tries' = [tries EXCEPT ![c] = @ + 1]
    /\ UNCHANGED <<storeVars, job, effects, view, drawn>>

\* Any other error, before the commit or, its answer being lost, after it: the
\* connection breaks, or the process dies.  It is no serialization failure, and the
\* call is not tried again.
Break(c) ==
    /\ pc[c] \in {"open", "committed"}
    /\ Over(c)
    /\ UNCHANGED <<storeVars, view>>

-----------------------------------------------------------------------------
(* What each transaction commits *)

Running(c, op) == pc[c] = "open" /\ job[c].op = op

ValidFor(t, c) == Exists(t) /\ began[c] < sessions[t].expires

\* Mutant: the attempt is counted in the window of the commit.
RateWindowAtCommit(c) == now \div WindowLen

RateWindow(c) == began[c] \div WindowLen

\* One upsert counts the session and tests the limit.
Create(c) ==
    LET t == job[c].tenant
        w == RateWindow(c)
    IN  /\ Running(c, "create")
        /\ hourly[w] < HourlyLimit
        /\ hourly' = [hourly EXCEPT ![w] = @ + 1]
        /\ sessions' = [sessions EXCEPT ![t] =
                [token   |-> t, expires |-> job[c].expires, uses |-> Budget,
                 version |-> 0, created |-> began[c]]]
        /\ Commit(c)
        /\ UNCHANGED <<now, memories, receipts>>

CreateRefused(c) ==
    /\ Running(c, "create")
    /\ hourly[RateWindow(c)] >= HourlyLimit
    /\ Over(c)
    /\ UNCHANGED <<storeVars, view>>

\* Mutant: the uses left are not part of the condition.
PermitsOverdrawn(c) ==
    LET t == job[c].tenant
    IN  /\ ValidFor(t, c)
        /\ sessions[t].token = job[c].token

Permits(c) ==
    LET t == job[c].tenant
    IN  /\ ValidFor(t, c)
        /\ sessions[t].token = job[c].token
        /\ job[c].consume => sessions[t].uses > 0

Authorize(c) ==
    /\ Running(c, "authorize")
    /\ Permits(c)
    /\ sessions' = IF job[c].consume
                   THEN [sessions EXCEPT ![job[c].tenant].uses = @ - 1] ELSE sessions
    /\ Commit(c)
    /\ UNCHANGED <<now, memories, receipts, hourly>>

AuthorizeRefused(c) ==
    /\ Running(c, "authorize")
    /\ ~ Permits(c)
    /\ Over(c)
    /\ UNCHANGED <<storeVars, view>>

\* The last statement advances the version of an unexpired session only.
Addable(c) ==
    LET t == job[c].tenant
        d == job[c].draft
    IN  /\ ValidFor(t, c)
        /\ d.supersedes # None => Replaceable(t, d.supersedes)

RowOf(c) == [NewMemoryRecord(job[c].draft) EXCEPT !.created = began[c]]

\* Mutant: an addition that replaces a memory does not advance the version.
AddQuietly(c) ==
    LET t == job[c].tenant
    IN  /\ Running(c, "add")
        /\ Addable(c)
        /\ memories' = [memories EXCEPT ![t] =
                Append(WithSuperseded(@, job[c].draft), RowOf(c))]
        /\ sessions' = [sessions EXCEPT ![t].version =
                IF job[c].draft.supersedes = None THEN @ + 1 ELSE @]
        /\ Commit(c)
        /\ UNCHANGED <<now, receipts, hourly>>

Add(c) ==
    LET t == job[c].tenant
    IN  /\ Running(c, "add")
        /\ Addable(c)
        /\ memories' = [memories EXCEPT ![t] =
                Append(WithSuperseded(@, job[c].draft), RowOf(c))]
        /\ sessions' = [sessions EXCEPT ![t].version = @ + 1]
        /\ Commit(c)
        /\ UNCHANGED <<now, receipts, hourly>>

\* An exception inside the transaction rolls its statements back.
AddRefused(c) ==
    /\ Running(c, "add")
    /\ ~ Addable(c)
    /\ Over(c)
    /\ UNCHANGED <<storeVars, view>>

Recall(c) ==
    LET t == job[c].tenant
        q == job[c].query
        evidence == Evidence(memories[t], q, began[c])
    IN  /\ Running(c, "recall")
        /\ Exists(t)
        /\ view' = [view EXCEPT ![c] =
                [tenant   |-> t, query |-> q, evidence |-> evidence,
                 decision |-> Decide(memories[t], evidence),
                 version  |-> sessions[t].version,
                 before   |-> NextTransition(memories[t], began[c]),
                 at       |-> began[c]]]
        /\ Over(c)
        /\ UNCHANGED storeVars

RecallRefused(c) ==
    /\ Running(c, "recall")
    /\ ~ Exists(job[c].tenant)
    /\ Over(c)
    /\ UNCHANGED <<storeVars, view>>

\* Mutant: the validity boundary of the decision is not checked.
StillCurrentPastBoundary(c) ==
    LET t == job[c].receipt.tenant
    IN  /\ ValidFor(t, c)
        /\ sessions[t].version = job[c].version

StillCurrent(c) ==
    LET t == job[c].receipt.tenant
    IN  /\ ValidFor(t, c)
        /\ sessions[t].version = job[c].version
        /\ job[c].before # None => began[c] < job[c].before

Save(c) ==
    /\ Running(c, "save")
    /\ StillCurrent(c)
    /\ receipts' = [receipts EXCEPT ![job[c].receipt.tenant] = Append(@, job[c].receipt)]
    /\ Commit(c)
    /\ UNCHANGED <<now, sessions, memories, hourly>>

SaveRefused(c) ==
    /\ Running(c, "save")
    /\ ~ StillCurrent(c)
    /\ Over(c)
    /\ UNCHANGED <<storeVars, view>>

Attach(c) ==
    /\ Running(c, "attach")
    /\ AttachReceiptArchive(job[c].id)
    /\ Commit(c)

-----------------------------------------------------------------------------
Ask(c) ==
    \/ AskCreate(c) \/ AskAuthorize(c) \/ AskAdd(c)
    \/ AskRecall(c) \/ AskSave(c) \/ AskAttach(c)

Proceed(c) ==
    \/ Connect(c) \/ PoolTimeout(c) \/ Retry(c) \/ Conflict(c) \/ Answered(c)
    \/ Create(c) \/ CreateRefused(c)
    \/ Authorize(c) \/ AuthorizeRefused(c)
    \/ Add(c) \/ AddRefused(c)
    \/ Recall(c) \/ RecallRefused(c)
    \/ Save(c) \/ SaveRefused(c)
    \/ Attach(c)

Environment ==
    /\ Tick \/ \E t \in Tenant : Reap(t)
    /\ UNCHANGED <<callVars, drawn>>

Next ==
    \/ \E c \in Caller : Ask(c) \/ Proceed(c) \/ Break(c)
    \/ Environment

Spec == Init /\ [][Next]_vars

\* A call goes on: the pool and the database answer or time out.
FairSpec == Spec /\ \A c \in Caller : WF_vars(Proceed(c))

-----------------------------------------------------------------------------
(* The state between the transactions of a call, and between calls *)

\* A caller in a transaction has a call and a clock, which is not ahead.
InStep(c) ==
    /\ pc[c] = "idle" <=> job[c] = None
    /\ pc[c] = "open" <=> began[c] # None
    /\ pc[c] = "open" => began[c] <= now

\* Nobody knows of a tenant whose session is still to be created.
CreationFresh(c) ==
    Calling(c, "create") =>
        /\ job[c].tenant \in drawn
        /\ ~ Exists(job[c].tenant)
        /\ \A d \in Caller :
              /\ Calling(d, "create") /\ d # c => job[d].tenant # job[c].tenant
              /\ Calling(d, "save") => job[d].receipt.tenant # job[c].tenant
              /\ view[d] # None => view[d].tenant # job[c].tenant

\* What a retrieval found is of an older version, or still what the memories
\* say of the time it was made.
Sound(found) ==
    LET t == found.tenant
    IN  /\ t \in drawn
        /\ found.at <= now
        /\ Exists(t) => found.version <= sessions[t].version
        /\ Exists(t) /\ found.version = sessions[t].version =>
            /\ found.evidence = Evidence(memories[t], found.query, found.at)
            /\ found.decision = Decide(memories[t], found.evidence)
            /\ found.before = NextTransition(memories[t], found.at)

\* The retrieval that the receipt to be saved was made from.
Submitted(c) ==
    [tenant   |-> job[c].receipt.tenant,
     query    |-> job[c].receipt.query,
     evidence |-> job[c].receipt.evidence,
     decision |-> job[c].receipt.decision,
     version  |-> job[c].version,
     before   |-> job[c].before,
     at       |-> job[c].receipt.created]

CallerSound(c) ==
    /\ view[c] # None => Sound(view[c])
    /\ Calling(c, "save") =>
        /\ Sound(Submitted(c))
        /\ began[c] # None => job[c].receipt.created <= began[c]

\* Whatever a caller has recalled, and is about to save, it is of an older version
\* or still right, though transactions of others commit between its two, and rows
\* expire; the clock of the second is not behind that of the first (save_receipt).
TransactionInv ==
    /\ CockroachTypeOK
    /\ \A t \in Tenant : Exists(t) => t \in drawn
    /\ \A c \in Caller : InStep(c) /\ CreationFresh(c) /\ CallerSound(c)

-----------------------------------------------------------------------------
(* Properties *)

\* A receipt is right as of the clock of the transaction that inserts it.  The
\* retrieval is another transaction with an earlier clock, writes commit between
\* the two and after the second has begun, and the clock of the insert is behind
\* the time of its commit: evidence and decision are those of the memories at
\* the commit, at the time now() of the insert (save_receipt).
SavedAreRight ==
    \A t \in Tenant : Len(receipts'[t]) > Len(receipts[t]) =>
        LET row == receipts'[t][Len(receipts'[t])]
        IN  \E c \in Caller :
              /\ Running(c, "save") /\ job[c].receipt = row
              /\ row.evidence = Evidence(memories[t], row.query, began[c])
              /\ row.decision = Decide(memories[t], row.evidence)
              /\ began[c] < sessions[t].expires

SavedAsOfStart == [][SavedAreRight]_vars

\* However often a call is tried, and wherever it breaks, it changes the rows at
\* most once: what is tried again is a serialization failure, which says that
\* nothing was committed; that an answer is lost after the commit says nothing of
\* the kind, and is the caller's error (_run_serializable).
NoEffectRepeated == \A c \in Caller : effects[c] <= 1

\* The sessions created in one window never exceed the limit, and each was
\* counted in the window of its own created_at, though the creations overlap,
\* fail and are retried across the end of a window (create_session).
SessionsWithinLimit ==
    \A w \in Windows :
        /\ Cardinality({t \in Tenant : Exists(t) /\ sessions[t].created \div WindowLen = w})
             <= hourly[w]
        /\ hourly[w] <= HourlyLimit

\* Every call returns or raises: it does not wait for ever for a connection, and
\* it is not retried for ever (the pool's timeout, _run_serializable's attempts).
EveryCallReturns == \A c \in Caller : pc[c] # "idle" ~> pc[c] = "idle"

\* "This write must not commit after the demo session expires."
\* (tests/test_cockroach_store.py, of add_memory)
NoAdditionAfterExpiry ==
    \A t \in Tenant : Len(memories'[t]) > Len(memories[t]) => Unexpired(t)

NoWriteAfterExpiry == [][NoAdditionAfterExpiry]_vars

=============================================================================

----------------------------- MODULE LeaseStore -----------------------------
(***************************************************************************)
(* The MemoryStore of recalllease/store.py, as InMemoryStore implements    *)
(* it: every operation runs under one lock and is one atomic step here.    *)
(* The row expiry the CockroachDB schema adds to it is the action Reap,    *)
(* present when RowTTL is TRUE.                                            *)
(*                                                                         *)
(* The operations are actions over the store's variables, with the call's  *)
(* arguments as parameters.  StoreClients lets any caller make any call;   *)
(* LeaseService makes the calls the service makes.                         *)
(***************************************************************************)
EXTENDS Retrieval

CONSTANTS
    Tenant,       \* tenant identifiers; a tenant's token is named after it
    ReceiptId,    \* receipt identifiers
    HourlyLimit,  \* sessions that may be created in one window
    WindowLen,    \* length of a rate window, in clock units
    RowTTL,       \* whether the backend deletes the rows of expired sessions
    MaxTime       \* bound: the clock stops here

ASSUME StoreAssumption ==
    /\ HourlyLimit \in Nat
    /\ WindowLen \in Nat \ {0}
    /\ RowTTL \in BOOLEAN
    /\ MaxTime \in Nat

VARIABLES
    now,       \* the store's clock
    sessions,  \* per tenant: its session, or None
    memories,  \* per tenant: its memories, in the order they were recorded
    receipts,  \* per tenant: its receipts, in the order they were saved
    hourly     \* per window: session creations attempted in it

storeVars == <<now, sessions, memories, receipts, hourly>>

-----------------------------------------------------------------------------
Token   == Tenant
Windows == 0 .. (MaxTime \div WindowLen)
Window  == now \div WindowLen

MemoryId == Tenant \X (Nat \ {0})

Session == [token : Token, expires : Time, uses : Nat, version : Nat]

\* What a caller asks to be remembered.
MemoryCreate ==
    [effect     : Effect,
     topic      : Topic,
     from       : Time,
     until      : Time \cup {None},
     supersedes : MemoryId \cup {None}]

ActionReceipt ==
    [id       : ReceiptId,
     tenant   : Tenant,
     query    : Query,
     decision : Decision,
     evidence : SUBSET (Nat \ {0}),
     created  : Time,
     archived : BOOLEAN]

StoreTypeOK ==
    /\ now \in 0 .. MaxTime
    /\ sessions \in [Tenant -> Session \cup {None}]
    /\ memories \in [Tenant -> Seq(Memory)]
    /\ receipts \in [Tenant -> Seq(ActionReceipt)]
    /\ hourly \in [Windows -> Nat]

StoreInit ==
    /\ now = 0
    /\ sessions = [t \in Tenant |-> None]
    /\ memories = [t \in Tenant |-> <<>>]
    /\ receipts = [t \in Tenant |-> <<>>]
    /\ hourly = [w \in Windows |-> 0]

-----------------------------------------------------------------------------
Exists(t) == sessions[t] # None

Unexpired(t) == now < sessions[t].expires

\* The attempt is counted whether or not it is admitted.
CountAttempt == hourly' = [hourly EXCEPT ![Window] = @ + 1]

CreateSession(t, token, expires, uses) ==
    /\ hourly[Window] < HourlyLimit
    /\ CountAttempt
    /\ sessions' = [sessions EXCEPT ![t] =
            [token |-> token, expires |-> expires, uses |-> uses, version |-> 0]]
    /\ memories' = [memories EXCEPT ![t] = <<>>]
    /\ receipts' = [receipts EXCEPT ![t] = <<>>]
    /\ UNCHANGED now

RefuseSession ==
    /\ hourly[Window] >= HourlyLimit
    /\ CountAttempt
    /\ UNCHANGED <<now, sessions, memories, receipts>>

-----------------------------------------------------------------------------
\* Mutant: the budget test admits one request too many.
AuthorizedOffByOne(t, token, consume) ==
    /\ Exists(t)
    /\ sessions[t].token = token
    /\ Unexpired(t)
    /\ consume => sessions[t].uses >= 0

\* Mutant: the presented token is not compared.
AuthorizedAnyToken(t, token, consume) ==
    /\ Exists(t)
    /\ Unexpired(t)
    /\ consume => sessions[t].uses > 0

Authorized(t, token, consume) ==
    /\ Exists(t)
    /\ sessions[t].token = token
    /\ Unexpired(t)
    /\ consume => sessions[t].uses > 0

\* Mutant: the decremented budget is not written back.
AuthorizeUnmetered(t, token, consume) ==
    /\ Authorized(t, token, consume)
    /\ UNCHANGED storeVars

AuthorizeSession(t, token, consume) ==
    /\ Authorized(t, token, consume)
    /\ sessions' = IF consume THEN [sessions EXCEPT ![t].uses = @ - 1] ELSE sessions
    /\ UNCHANGED <<now, memories, receipts, hourly>>

-----------------------------------------------------------------------------
\* Mutant: the memory to replace need not be active.
ReplaceableEvenIfReplaced(t, id) ==
    /\ id[1] = t
    /\ id[2] \in DOMAIN memories[t]

Replaceable(t, id) ==
    /\ id[1] = t
    /\ id[2] \in DOMAIN memories[t]
    /\ IsActive(memories[t][id[2]])

AddAccepted(t, d) ==
    /\ Exists(t)
    /\ Unexpired(t)
    /\ d.supersedes # None => Replaceable(t, d.supersedes)

NewMemoryRecord(d) ==
    [effect     |-> d.effect,
     topic      |-> d.topic,
     from       |-> d.from,
     until      |-> d.until,
     status     |-> "active",
     supersedes |-> IF d.supersedes = None THEN None ELSE d.supersedes[2],
     created    |-> now]

WithSuperseded(ms, d) ==
    IF d.supersedes = None THEN ms
    ELSE [ms EXCEPT ![d.supersedes[2]].status = "superseded"]

\* Mutant: only an unrelated addition advances the memory version.
AddMemoryQuietReplace(t, d) ==
    /\ AddAccepted(t, d)
    /\ memories' = [memories EXCEPT ![t] =
            Append(WithSuperseded(@, d), NewMemoryRecord(d))]
    /\ sessions' = [sessions EXCEPT ![t].version =
            IF d.supersedes = None THEN @ + 1 ELSE @]
    /\ UNCHANGED <<now, receipts, hourly>>

AddMemory(t, d) ==
    /\ AddAccepted(t, d)
    /\ memories' = [memories EXCEPT ![t] =
            Append(WithSuperseded(@, d), NewMemoryRecord(d))]
    /\ sessions' = [sessions EXCEPT ![t].version = @ + 1]
    /\ UNCHANGED <<now, receipts, hourly>>

-----------------------------------------------------------------------------
\* What recall_active returns; it reads an existing session, expired or not.
RecallActive(t, q) ==
    [evidence |-> Evidence(memories[t], q, now),
     decision |-> Decide(memories[t], Evidence(memories[t], q, now)),
     version  |-> sessions[t].version,
     before   |-> NextTransition(memories[t], now),
     at       |-> now]

\* Mutant: the validity boundary of the decision is not checked.
SaveAcceptedPastBoundary(t, version, before) ==
    /\ Exists(t)
    /\ sessions[t].version = version
    /\ Unexpired(t)

SaveAccepted(t, version, before) ==
    /\ Exists(t)
    /\ sessions[t].version = version
    /\ Unexpired(t)
    /\ before # None => now < before

SaveReceipt(receipt, version, before) ==
    /\ SaveAccepted(receipt.tenant, version, before)
    /\ receipts' = [receipts EXCEPT ![receipt.tenant] = Append(@, receipt)]
    /\ UNCHANGED <<now, sessions, memories, hourly>>

AttachReceiptArchive(id) ==
    /\ receipts' = [t \in Tenant |-> [i \in DOMAIN receipts[t] |->
            IF receipts[t][i].id = id
            THEN [receipts[t][i] EXCEPT !.archived = TRUE]
            ELSE receipts[t][i]]]
    /\ UNCHANGED <<now, sessions, memories, hourly>>

-----------------------------------------------------------------------------
Tick ==
    /\ now < MaxTime
    /\ now' = now + 1
    /\ UNCHANGED <<sessions, memories, receipts, hourly>>

\* Mutant: rows are deleted without regard to their expiry.
ReapEarly(t) ==
    /\ RowTTL
    /\ Exists(t)
    /\ sessions' = [sessions EXCEPT ![t] = None]
    /\ memories' = [memories EXCEPT ![t] = <<>>]
    /\ receipts' = [receipts EXCEPT ![t] = <<>>]
    /\ UNCHANGED <<now, hourly>>

\* The row TTL (schema.py:15) deletes an expired session, and the cascades of the other
\* two tables (31, 55) all it owns.
Reap(t) ==
    /\ RowTTL
    /\ Exists(t)
    /\ ~ Unexpired(t)
    /\ sessions' = [sessions EXCEPT ![t] = None]
    /\ memories' = [memories EXCEPT ![t] = <<>>]
    /\ receipts' = [receipts EXCEPT ![t] = <<>>]
    /\ UNCHANGED <<now, hourly>>

-----------------------------------------------------------------------------
(* Properties every caller may rely on. *)

\* The memory version is the number of memories recorded: no addition, and no
\* replacement, leaves it where it was, so an answer computed from an older
\* ledger never carries the current version (InMemoryStore.add_memory).
VersionCountsMemories ==
    \A t \in Tenant : Exists(t) => sessions[t].version = Len(memories[t])

\* A memory is superseded exactly when one later memory of the same tenant
\* replaced it, and no two memories replace the same one, however the
\* replacements interleave (InMemoryStore.add_memory).
SupersededOnce ==
    \A t \in Tenant : \A i \in DOMAIN memories[t] :
        LET successors == {j \in DOMAIN memories[t] : memories[t][j].supersedes = i}
        IN  /\ Cardinality(successors) <= 1
            /\ ~ IsActive(memories[t][i]) <=> successors # {}
            /\ \A j \in successors : i < j

\* What is recorded stays recorded.  While a session has not expired, its
\* memories and receipts only gain rows; a memory's row only ever loses its
\* active status and a receipt's only ever gains its archive key.
RowsPermanent ==
    \A t \in Tenant :
        Exists(t) /\ Unexpired(t) =>
            /\ \A i \in DOMAIN memories[t] :
                  /\ i \in DOMAIN memories'[t]
                  /\ \/ memories'[t][i] = memories[t][i]
                     \/ memories'[t][i] = [memories[t][i] EXCEPT !.status = "superseded"]
            /\ \A i \in DOMAIN receipts[t] :
                  /\ i \in DOMAIN receipts'[t]
                  /\ \/ receipts'[t][i] = receipts[t][i]
                     \/ receipts'[t][i] = [receipts[t][i] EXCEPT !.archived = TRUE]

RecordsPermanent == [][RowsPermanent]_storeVars

=============================================================================

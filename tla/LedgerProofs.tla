---------------------------- MODULE LedgerProofs ----------------------------
(***************************************************************************)
(* The service implements AtomicLedger, for every number of requests,      *)
(* tenants and memories: the initial states are the ledger's, and every    *)
(* step is a step of the ledger or leaves all of it alone.                 *)
(*                                                                         *)
(* That a guarded insert pronounces the verdict of its own instant is      *)
(* SaveIsCurrent.  That opening a session grants a lease where there was   *)
(* nothing needs one more invariant (Rooted): a session is the work of a   *)
(* request that has got past its opening, and without one there are no     *)
(* rows.                                                                   *)
(*                                                                         *)
(* The second part proves that rows, archived objects and answers agree,   *)
(* from what a request holds between its save and its end (AnswersHeld)    *)
(* and whose an object is (ObjectsOwned).                                  *)
(*                                                                         *)
(* The third part is what a session holds.  A relevant active denial       *)
(* yields only to a recall's worth of memories above it, and every memory  *)
(* but the first two costs a use, as does the evaluation.  The invariant   *)
(* (Paid) counts, against the budget, the memories recorded, those a       *)
(* session's creation still owes it, the uses left, and the requests that  *)
(* have spent a use and recorded nothing yet.  And a session that a client *)
(* was answered with is whole: the invariant (Whole) says what each call   *)
(* of its creation finds there, and that no other request acts on a        *)
(* session before its creation is answered.                                *)
(***************************************************************************)
EXTENDS LeaseServiceProofs

Rooted ==
    \A t \in Tenant :
        /\ ~ Exists(t) => memories[t] = <<>> /\ receipts[t] = <<>>
        /\ Exists(t) => \E c \in Request :
              call[c] # None /\ call[c].tenant = t /\ pc[c] \notin {"idle", "open"}

LedgerInv == Inv /\ Rooted

-----------------------------------------------------------------------------
(* Sessions have owners, and rows have sessions *)

LEMMA OpensNew ==
    ASSUME LedgerInv, NEW r \in Request, pc[r] = "open"
    PROVE  /\ call[r].tenant \in Tenant
           /\ ~ Exists(call[r].tenant)
           /\ memories[call[r].tenant] = <<>>
           /\ receipts[call[r].tenant] = <<>>
<1>1. call[r].tenant \in Tenant
  BY CallOf DEF LedgerInv, Inv, TypeInv, Call
<1>2. ~ Exists(call[r].tenant)
  BY <1>1 DEF LedgerInv, Inv, Rooted, TenantsFresh
<1> QED
  BY <1>1, <1>2 DEF LedgerInv, Rooted

LEMMA OwnersStay ==
    ASSUME LedgerInv, [Next]_vars, NEW t \in Tenant, Exists(t)'
    PROVE  \E c \in Request :
              call'[c] # None /\ call'[c].tenant = t /\ pc'[c] \notin {"idle", "open"}
<1>1. TypeInv
  BY DEF LedgerInv, Inv, TypeInv
<1>2. ASSUME NEW c \in Request, pc[c] \notin {"idle", "open"} PROVE pc'[c] \notin {"idle", "open"}
  <2>1. ASSUME NEW r \in Request, Receive(r) PROVE pc'[c] = pc[c]
    BY <1>1, <1>2, <2>1, ArrivalEffect
  <2>2. ASSUME NEW r \in Request, Moves(r) PROVE pc'[c] \notin {"idle", "open"}
    BY <1>2, <2>2 DEF Moves
  <2>3. CASE UNCHANGED serviceVars
    BY <1>2, <2>3 DEF serviceVars
  <2> QED
    BY <1>1, <1>2, <2>1, <2>2, <2>3, WhoMoves
<1>3. CASE Exists(t)
  <2>1. PICK c \in Request :
            call[c] # None /\ call[c].tenant = t /\ pc[c] \notin {"idle", "open"}
    BY <1>3 DEF LedgerInv, Rooted
  <2> QED
    BY <1>1, <1>2, <2>1, CallsStay
<1>4. CASE ~ Exists(t)
  <2>1. PICK r \in Request : OpenSession(r) /\ call[r].tenant = t
    BY <1>1, <1>4, SessionsEffect DEF SessionEffect, Exists
  <2>2. call[r] # None /\ pc[r] = "open"
    BY <1>1, <2>1 DEF OpenSession, TypeInv, ArgumentsOK
  <2>3. pc'[r] \in {"grant", "failed"}
    BY <1>1, <2>1 DEF OpenSession, Fail, Goto, TypeInv, TypeOK
  <2> QED
    BY <1>1, <2>1, <2>2, <2>3, CallsStay
<1> QED
  BY <1>3, <1>4

\* Without a session, before and after a step, there are no rows.
LEMMA NoRowsWithoutSession ==
    ASSUME LedgerInv, [Next]_vars, NEW t \in Tenant, ~ Exists(t)'
    PROVE  memories'[t] = <<>> /\ receipts'[t] = <<>>
<1>1. TypeInv /\ StoreTypeOK
  BY DEF LedgerInv, Inv, TypeInv, TypeOK
<1>2. ~ Exists(t) => memories[t] = <<>> /\ receipts[t] = <<>>
  BY DEF LedgerInv, Rooted
<1>3. CASE UNCHANGED <<sessions, memories, receipts>>
  BY <1>2, <1>3 DEF Exists
<1>4. ASSUME NEW r \in Request, Step(r)
      PROVE  memories'[t] = <<>> /\ receipts'[t] = <<>>
  <2>1. call[r].tenant \in Tenant
    <3>1. pc[r] # "idle"
      BY <1>1, <1>4, StepMoves DEF Moves, Underway
    <3> QED
      BY <1>1, <3>1, CallOf DEF Call
  <2>2. CASE OpenSession(r)
    BY <1>1, <1>2, <2>1, <2>2 DEF OpenSession, CreateSession, StoreTypeOK, Exists
  <2>3. CASE RecordPermission(r) \/ RecordAudience(r) \/ Record(r) \/ RecordAnswerLost(r)
    <3>1. AddMemory(call[r].tenant, call[r].draft)
      BY <2>3 DEF RecordPermission, RecordAudience, Record, RecordAnswerLost
    <3>2. t # call[r].tenant /\ ~ Exists(t)
      BY <1>1, <2>1, <3>1, AdditionKeepsSession DEF AddMemory, AddAccepted, Exists
    <3> QED
      BY <1>1, <1>2, <3>1, <3>2 DEF AddMemory, StoreTypeOK
  <2>4. CASE Authorize(r)
    <3>1. sessions[call[r].tenant] \in Session
      BY <1>1, <2>1, <2>4, SessionIfExists DEF Authorize, AuthorizeSession, Authorized
    <3>2. StoreTypeOK' /\ Exists(call[r].tenant)
      BY <1>1, NextType, <2>4 DEF TypeInv, TypeOK, Authorize, AuthorizeSession, Authorized
    <3>3. sessions'[call[r].tenant] \in Session
      <4>1. sessions'[call[r].tenant] = [sessions[call[r].tenant] EXCEPT !.uses = @ - 1]
        BY <1>1, <2>1, <2>4 DEF Authorize, AuthorizeSession, StoreTypeOK
      <4>2. sessions[call[r].tenant].uses - 1 \in Nat
        BY <2>4, <3>1 DEF Authorize, AuthorizeSession, Authorized, Session
      <4> QED
        BY <3>1, <4>1, <4>2 DEF Session
    <3>4. t # call[r].tenant
      BY <3>3, AbsentAssumption DEF Exists
    <3> QED
      BY <1>1, <1>2, <2>1, <2>4, <3>4 DEF Authorize, AuthorizeSession, StoreTypeOK, Exists
  <2>5. CASE Save(r)
    BY <1>1, <1>2, <2>1, <2>5 DEF Save, SaveReceipt, SaveAccepted, BuildReceipt, StoreTypeOK, Exists
  <2>6. CASE Attach(r) \/ AttachAnswerLost(r)
    <3>1. ~ Exists(t) /\ memories' = memories /\ receipts[t] = <<>>
      BY <1>2, <2>6 DEF Attach, AttachAnswerLost, AttachReceiptArchive, Exists
    <3>2. receipts'[t] \in Seq(ActionReceipt) /\ Len(receipts'[t]) = Len(receipts[t])
      BY <1>1, <2>6, AttachReceiptArchiveType DEF Attach, AttachAnswerLost, StoreTypeOK
    <3>3. receipts'[t] = <<>>
      BY <3>1, <3>2, EmptySeq
    <3> QED
      BY <1>2, <3>1, <3>3
  <2>7. CASE \/ OpenRefused(r) \/ AuthorizeRefused(r) \/ RecordRefused(r) \/ ListState(r)
             \/ Recall(r) \/ RecallRefused(r) \/ SaveRefused(r) \/ GiveUp(r)
             \/ PutObject(r) \/ PutAnswerLost(r) \/ NoArchive(r)
    BY <1>3, <2>7 DEF OpenRefused, RefuseSession, AuthorizeRefused, RecordRefused, ListState,
       Recall, RecallRefused, SaveRefused, GiveUp, PutObject, PutAnswerLost, NoArchive, storeVars
  <2> QED
    BY <1>4, <2>2, <2>3, <2>4, <2>5, <2>6, <2>7 DEF Step
<1>5. ASSUME NEW r \in Request, Receive(r) \/ Abort(r)
      PROVE  memories'[t] = <<>> /\ receipts'[t] = <<>>
  BY <1>1, <1>3, <1>5, ArrivalEffect DEF Abort, storeVars
<1>6. CASE Environment
  BY <1>1, <1>2, <1>6 DEF Environment, Tick, Reap, StoreTypeOK, Exists
<1>7. CASE Rest \/ UNCHANGED vars
  BY <1>3, <1>7 DEF Rest, vars
<1> QED
  BY <1>4, <1>5, <1>6, <1>7 DEF Next

LEMMA InitLedgerInv == Init => LedgerInv
<1> SUFFICES ASSUME Init PROVE LedgerInv
  OBVIOUS
<1>1. Inv
  BY InitType, InitFresh, InitViews DEF Inv, TypeInv
<1>2. Rooted
  BY DEF Init, StoreInit, Rooted, Exists
<1> QED
  BY <1>1, <1>2 DEF LedgerInv

LEMMA NextLedgerInv == LedgerInv /\ [Next]_vars => LedgerInv'
<1> SUFFICES ASSUME LedgerInv, [Next]_vars PROVE LedgerInv'
  OBVIOUS
<1>1. Inv'
  BY NextType, NextFresh, NextViews DEF LedgerInv, Inv, TypeInv
<1>2. Rooted'
  BY OwnersStay, NoRowsWithoutSession DEF Rooted
<1> QED
  BY <1>1, <1>2 DEF LedgerInv

-----------------------------------------------------------------------------
(* The mapping *)

Leases   == [t \in Tenant |-> LeaseOf(t)]
Verdicts == [t \in Tenant |-> [i \in DOMAIN receipts[t] |-> VerdictOf(receipts[t][i])]]

\* Nothing the ledger knows of changes.
Unseen == UNCHANGED <<now, Leases, memories, Verdicts>>

LEMMA LeaseOfSession ==
    ASSUME NEW t \in Tenant
    PROVE  /\ Leases[t] = IF Exists(t) THEN sessions[t].expires ELSE None
           /\ Leases'[t] = IF Exists(t)' THEN sessions'[t].expires ELSE None
BY DEF Leases, LeaseOf

\* The leases are those of before wherever sessions keep their expiry.
LEMMA LeasesKept ==
    ASSUME \A t \in Tenant : /\ Exists(t)' <=> Exists(t)
                             /\ Exists(t) => sessions'[t].expires = sessions[t].expires
    PROVE  Leases' = Leases
BY DEF Leases, LeaseOf

LEMMA StepIsUnseen ==
    ASSUME UNCHANGED <<now, sessions, memories, receipts>>
    PROVE  Unseen
BY DEF Unseen, Leases, LeaseOf, Verdicts, Exists

LEMMA UnseenStutters ==
    ASSUME Unseen
    PROVE  UNCHANGED Ledger!ledgerVars
BY DEF Unseen, Leases, Verdicts, Ledger!ledgerVars

LEMMA OpeningGrants ==
    ASSUME LedgerInv, NEW r \in Request, OpenSession(r)
    PROVE  Ledger!Next
<1>1. TypeInv /\ StoreTypeOK
  BY DEF LedgerInv, Inv, TypeInv, TypeOK
<1> PICK t \in Tenant : t = call[r].tenant
  BY OpensNew DEF OpenSession
<1>2. t \in Tenant /\ ~ Exists(t) /\ memories[t] = <<>> /\ receipts[t] = <<>>
  BY OpensNew DEF OpenSession
<1>3. /\ sessions' = [sessions EXCEPT ![t] = [token |-> call[r].token,
            expires |-> call[r].draft.until, uses |-> UseLimit, version |-> 0]]
      /\ memories' = [memories EXCEPT ![t] = <<>>]
      /\ receipts' = [receipts EXCEPT ![t] = <<>>]
      /\ UNCHANGED now
  BY DEF OpenSession, CreateSession
<1>4. call[r].token \in Token /\ call[r].draft.until \in Time
  BY <1>1, CallOf DEF OpenSession, TypeInv, ArgumentsOK, Call, MemoryCreate
<1>5. sessions'[t] \in Session /\ Exists(t)'
  <2>1. sessions'[t] \in Session
    BY <1>1, <1>2, <1>3, <1>4, ServiceAssumption DEF StoreTypeOK, Session
  <2> QED
    BY <2>1, AbsentAssumption DEF Exists
<1>6. memories' = memories /\ receipts' = receipts
  BY <1>1, <1>2, <1>3 DEF StoreTypeOK
<1>7. Leases[t] = None /\ Leases'[t] \in Time
  BY <1>2, <1>5, LeaseOfSession DEF Session
<1>8. Leases' = [Leases EXCEPT ![t] = Leases'[t]]
  BY <1>1, <1>2, <1>3 DEF Leases, LeaseOf, Exists, StoreTypeOK
<1>9. Verdicts' = Verdicts
  BY <1>6 DEF Verdicts
<1>10. Ledger!Grant(t)
  BY <1>3, <1>6, <1>7, <1>8, <1>9 DEF Ledger!Grant, Leases, Verdicts, Ledger!Time, Time
<1> QED
  BY <1>2, <1>10 DEF Ledger!Next

LEMMA AdditionRecords ==
    ASSUME StoreTypeOK, NEW t \in Tenant, NEW d \in MemoryCreate, AddMemory(t, d)
    PROVE  Ledger!Next
<1> DEFINE ms == memories[t]
           n  == Len(ms)
           m  == NewMemoryRecord(d)
           after == Append(IF m.supersedes = None THEN ms
                           ELSE [ms EXCEPT ![m.supersedes].status = "superseded"], m)
<1>1. /\ n \in Nat /\ DOMAIN ms = 1 .. n
      /\ memories'[t] = after /\ memories'[t][n + 1] = m
      /\ m.supersedes # None => m.supersedes \in DOMAIN ms /\ IsActive(ms[m.supersedes])
  BY RowsAdded
<1>2. Len(memories'[t]) = n + 1
  BY AddedMemories
<1>3. memories' = [memories EXCEPT ![t] = after]
  BY <1>1 DEF AddMemory, StoreTypeOK
<1>4. IsActive(m) /\ m.created = now
  BY DEF NewMemoryRecord, IsActive
<1>5. Exists(t) /\ Unexpired(t)
  BY DEF AddMemory, AddAccepted
<1>6. Leases' = Leases
  <2>1. ASSUME NEW u \in Tenant
        PROVE  /\ Exists(u)' <=> Exists(u)
               /\ Exists(u) => sessions'[u].expires = sessions[u].expires
    <3>1. Exists(u)' <=> Exists(u)
      BY AdditionKeepsSession DEF Exists
    <3>2. sessions[t] \in Session
      BY <1>5, SessionIfExists
    <3>3. sessions'[u] = IF u = t THEN [sessions[t] EXCEPT !.version = @ + 1] ELSE sessions[u]
      BY DEF AddMemory, StoreTypeOK
    <3> QED
      BY <3>1, <3>2, <3>3 DEF Session
  <2> QED
    BY <2>1, LeasesKept
<1>7. receipts' = receipts /\ now' = now
  BY DEF AddMemory
<1>8. Verdicts' = Verdicts
  BY <1>7 DEF Verdicts
<1>9. Leases[t] # None /\ now < Leases[t]
  <2>1. sessions[t].expires # None
    BY <1>5, SessionIfExists, NoneAssumption DEF Session, Time
  <2> QED
    BY <1>5, <2>1, LeaseOfSession DEF Unexpired
<1> HIDE DEF ms, n, m, after
<1>10. Ledger!Held(t)
  BY <1>9 DEF Ledger!Held, Leases
<1>11. after = Ledger!Recorded(ms, m)
  BY DEF Ledger!Recorded, after
<1>12. m.supersedes # None => m.supersedes \in DOMAIN ms /\ Ledger!IsActive(ms[m.supersedes])
  BY <1>1 DEF IsActive, Ledger!IsActive
<1>13. Ledger!IsActive(m)
  BY <1>4 DEF IsActive, Ledger!IsActive
<1>14. Ledger!Record(t)
  BY <1>1, <1>2, <1>3, <1>4, <1>6, <1>7, <1>8, <1>10, <1>11, <1>12, <1>13
  DEF Ledger!Record, Leases, Verdicts, ms, n
<1> QED
  BY <1>14 DEF Ledger!Next

LEMMA AuthorizingIsUnseen ==
    ASSUME StoreTypeOK, NEW u \in Tenant, NEW token, AuthorizeSession(u, token, TRUE)
    PROVE  Unseen
<1>1. sessions[u] \in Session /\ Exists(u)
  BY SessionIfExists DEF AuthorizeSession, Authorized
<1>2. [sessions[u] EXCEPT !.uses = @ - 1] \in Session
  BY <1>1 DEF AuthorizeSession, Authorized, Session
<1>3. sessions' = [sessions EXCEPT ![u] = [sessions[u] EXCEPT !.uses = @ - 1]]
  BY DEF AuthorizeSession
<1>4. \A t \in Tenant : /\ Exists(t)' <=> Exists(t)
                        /\ Exists(t) => sessions'[t].expires = sessions[t].expires
  BY <1>1, <1>2, <1>3, AbsentAssumption DEF Exists, Session, StoreTypeOK
<1>5. Leases' = Leases
  BY <1>4, LeasesKept
<1> QED
  BY <1>5 DEF AuthorizeSession, Unseen, Verdicts

LEMMA AttachingIsUnseen ==
    ASSUME StoreTypeOK, NEW id, AttachReceiptArchive(id)
    PROVE  Unseen
<1>1. ASSUME NEW t \in Tenant
      PROVE  [i \in DOMAIN receipts'[t] |-> VerdictOf(receipts'[t][i])]
               = [i \in DOMAIN receipts[t] |-> VerdictOf(receipts[t][i])]
  <2>1. receipts'[t] = [i \in DOMAIN receipts[t] |->
            IF receipts[t][i].id = id THEN [receipts[t][i] EXCEPT !.archived = TRUE]
            ELSE receipts[t][i]]
    BY DEF AttachReceiptArchive
  <2>2. ASSUME NEW i \in DOMAIN receipts[t]
        PROVE  VerdictOf(receipts'[t][i]) = VerdictOf(receipts[t][i])
    <3>1. receipts[t][i] \in ActionReceipt
      BY ElementOfSeq, LenProperties DEF StoreTypeOK
    <3> QED
      BY <2>1, <2>2, <3>1 DEF ActionReceipt, VerdictOf
  <2> QED
    BY <2>1, <2>2
<1>2. Verdicts' = Verdicts
  BY <1>1 DEF Verdicts
<1>3. Leases' = Leases
  BY DEF AttachReceiptArchive, Leases, LeaseOf, Exists
<1> QED
  BY <1>2, <1>3 DEF Unseen, AttachReceiptArchive

\* The ledger retrieves and decides with the operators the service uses.
LEMMA SameRetrieval ==
    ASSUME NEW ms, NEW q, NEW at
    PROVE  /\ Ledger!Evidence(ms, q, at) = Evidence(ms, q, at)
           /\ \A e : Ledger!Decide(ms, e) = Decide(ms, e)
<1>1. Ledger!InForce(ms, at) = InForce(ms, at)
  BY DEF Ledger!InForce, InForce, Ledger!IsActive, IsActive, Ledger!ValidAt, ValidAt
<1>2. \A i, j : Ledger!RanksAbove(ms, q, i, j) <=> RanksAbove(ms, q, i, j)
  BY DEF Ledger!RanksAbove, RanksAbove
<1>3. \A i : {j \in InForce(ms, at) : Ledger!RanksAbove(ms, q, j, i)}
              = {j \in InForce(ms, at) : RanksAbove(ms, q, j, i)}
  BY <1>2
<1>4. \A S : Ledger!Cardinality(S) = Cardinality(S)
  BY DEF Ledger!Cardinality, Cardinality
<1>5. Ledger!Recalled(ms, q, at) = Recalled(ms, q, at)
  BY <1>1, <1>3, <1>4 DEF Ledger!Recalled, Recalled
<1>6. \A m : Ledger!IsRelevant(m, q) <=> IsRelevant(m, q)
  BY DEF Ledger!IsRelevant, IsRelevant
<1>7. Ledger!Evidence(ms, q, at) = Evidence(ms, q, at)
  BY <1>5, <1>6 DEF Ledger!Evidence, Evidence
<1>8. \A e : Ledger!Decide(ms, e) = Decide(ms, e)
  BY DEF Ledger!Decide, Decide
<1> QED
  BY <1>7, <1>8

LEMMA SavingPronounces ==
    ASSUME LedgerInv, NEW r \in Request, Save(r)
    PROVE  Ledger!Next
<1>1. TypeInv /\ StoreTypeOK /\ Inv
  BY DEF LedgerInv, Inv, TypeInv, TypeOK
<1> PICK t \in Tenant : t = call[r].tenant
  BY <1>1, CallOf DEF Save, Call
<1> PICK q \in Query : q = call[r].query
  BY <1>1 DEF Save, TypeInv, ArgumentsOK
<1> PICK row : row = BuildReceipt(r)
  OBVIOUS
<1> DEFINE rows == receipts[t]
           n    == Len(rows)
           pronounced == [query |-> q, evidence |-> Evidence(memories[t], q, now),
                          decision |-> Decide(memories[t], Evidence(memories[t], q, now))]
<1>2. /\ receipts' = [receipts EXCEPT ![t] = Append(rows, row)]
      /\ UNCHANGED <<now, sessions, memories>>
      /\ Exists(t) /\ Unexpired(t)
  BY DEF Save, SaveReceipt, SaveAccepted, BuildReceipt
<1>3. rows \in Seq(ActionReceipt) /\ n \in Nat /\ DOMAIN rows = 1 .. n
  BY <1>1, LenProperties DEF StoreTypeOK
<1>4. row \in ActionReceipt
  <2>1. StoreTypeOK' /\ receipts'[t] \in Seq(ActionReceipt)
    BY <1>1, NextType DEF TypeInv, TypeOK, StoreTypeOK, Next, Step
  <2>2. receipts'[t] = Append(rows, row)
    BY <1>1, <1>2 DEF StoreTypeOK
  <2>3. DOMAIN Append(rows, row) = 1 .. (n + 1) /\ Append(rows, row)[n + 1] = row
    BY <1>3
  <2> QED
    BY <1>3, <2>1, <2>2, <2>3, ElementOfSeq, LenProperties
<1>5. receipts'[t] = Append(rows, row)
  BY <1>1, <1>2 DEF StoreTypeOK
<1>6. VerdictOf(row) = pronounced
  <2>1. Len(receipts'[t]) = n + 1 /\ receipts'[t][n + 1] = row
    BY <1>3, <1>4, <1>5, AppendProperties
  <2>2. Commits(t) /\ Committed(t) = row
    BY <1>3, <2>1 DEF Commits, Committed
  <2>3. /\ row.evidence = Evidence(memories[t], row.query, now)
        /\ row.decision = Decide(memories[t], row.evidence)
    BY <1>1, <2>2, SaveIsCurrent
  <2>4. row.query = q
    BY DEF BuildReceipt
  <2> QED
    BY <2>3, <2>4 DEF VerdictOf
<1> HIDE DEF pronounced, rows, n
<1>7. [i \in DOMAIN receipts'[t] |-> VerdictOf(receipts'[t][i])]
        = Append([i \in DOMAIN rows |-> VerdictOf(rows[i])], VerdictOf(row))
  <2> DEFINE S == {VerdictOf(x) : x \in ActionReceipt}
             old == [i \in 1 .. n |-> VerdictOf(rows[i])]
  <2>1. \A i \in 1 .. n : rows[i] \in ActionReceipt
    BY <1>3, ElementOfSeq DEF n
  <2>2. old \in Seq(S) /\ Len(old) = n
    BY <1>3, <2>1
  <2>3. VerdictOf(row) \in S
    BY <1>4
  <2>4. /\ DOMAIN receipts'[t] = 1 .. (n + 1)
        /\ \A i \in 1 .. n : receipts'[t][i] = rows[i]
        /\ receipts'[t][n + 1] = row
    BY <1>3, <1>4, <1>5, AppendProperties, LenProperties DEF n
  <2> HIDE DEF S, old
  <2>5. /\ Append(old, VerdictOf(row)) \in Seq(S)
        /\ Len(Append(old, VerdictOf(row))) = n + 1
        /\ \A i \in 1 .. n : Append(old, VerdictOf(row))[i] = old[i]
        /\ Append(old, VerdictOf(row))[n + 1] = VerdictOf(row)
    BY <2>2, <2>3, AppendProperties
  <2>6. [i \in 1 .. (n + 1) |-> VerdictOf(receipts'[t][i])] = Append(old, VerdictOf(row))
    <3>1. DOMAIN Append(old, VerdictOf(row)) = 1 .. (n + 1)
      BY <2>5, LenProperties
    <3>2. /\ \A i \in 1 .. n : Append(old, VerdictOf(row))[i] = VerdictOf(receipts'[t][i])
          /\ Append(old, VerdictOf(row))[n + 1] = VerdictOf(receipts'[t][n + 1])
      BY <2>4, <2>5 DEF old
    <3>3. \A i \in 1 .. (n + 1) : i \in 1 .. n \/ i = n + 1
      BY <1>3
    <3>4. Append(old, VerdictOf(row)) \in [1 .. (n + 1) -> S]
      BY <2>5, LenProperties
    <3> QED
      BY <3>1, <3>2, <3>3, <3>4
  <2> QED
    BY <1>3, <2>4, <2>6 DEF old
<1>8. Verdicts' = [Verdicts EXCEPT ![t] = Append(Verdicts[t], pronounced)]
  <2>1. \A u \in Tenant : u # t => receipts'[u] = receipts[u]
    BY <1>1, <1>2 DEF StoreTypeOK
  <2>2. \A u \in Tenant : u # t => Verdicts'[u] = Verdicts[u]
    BY <2>1 DEF Verdicts
  <2>3. Verdicts[t] = [i \in DOMAIN rows |-> VerdictOf(rows[i])]
    BY DEF Verdicts, rows
  <2>4. Verdicts'[t] = [i \in DOMAIN receipts'[t] |-> VerdictOf(receipts'[t][i])]
    BY DEF Verdicts
  <2>5. Verdicts'[t] = Append(Verdicts[t], pronounced)
    BY <1>6, <1>7, <2>3, <2>4
  <2>6. Verdicts = [u \in Tenant |-> Verdicts[u]] /\ Verdicts' = [u \in Tenant |-> Verdicts'[u]]
    BY DEF Verdicts
  <2> HIDE DEF Verdicts
  <2> QED
    BY <2>2, <2>5, <2>6
<1>9. Leases' = Leases
  BY <1>2 DEF Leases, LeaseOf, Exists
<1>10. Leases[t] # None /\ now < Leases[t]
  <2>1. sessions[t].expires # None
    BY <1>1, <1>2, SessionIfExists, NoneAssumption DEF Session, Time
  <2> QED
    BY <1>2, <2>1, LeaseOfSession DEF Unexpired
<1>11. Ledger!Held(t)
  BY <1>10 DEF Ledger!Held, Leases
<1>12. pronounced = Ledger!VerdictOn(memories[t], q, now)
  BY SameRetrieval DEF pronounced, Ledger!VerdictOn
<1>13. Ledger!Pronounce(t, q)
  BY <1>2, <1>8, <1>9, <1>11, <1>12 DEF Ledger!Pronounce, Leases, Verdicts
<1> QED
  BY <1>13 DEF Ledger!Next

LEMMA ReapingForgets ==
    ASSUME StoreTypeOK, NEW t \in Tenant, Reap(t)
    PROVE  Ledger!Next
<1>1. sessions[t] \in Session
  BY SessionIfExists DEF Reap
<1>2. Leases[t] # None /\ ~ (now < Leases[t])
  BY <1>1, LeaseOfSession, NoneAssumption DEF Reap, Unexpired, Session, Time
<1>3. Leases' = [Leases EXCEPT ![t] = None]
  BY DEF Reap, Leases, LeaseOf, Exists, StoreTypeOK
<1>4. Verdicts' = [Verdicts EXCEPT ![t] = <<>>]
  <2>1. receipts'[t] = <<>> /\ \A u \in Tenant : u # t => receipts'[u] = receipts[u]
    BY DEF Reap, StoreTypeOK
  <2>2. Verdicts'[t] = <<>>
    <3>1. Verdicts'[t] = [i \in DOMAIN receipts'[t] |-> VerdictOf(receipts'[t][i])]
      BY DEF Verdicts
    <3>2. DOMAIN receipts'[t] = {}
      BY <2>1
    <3>3. Verdicts'[t] \in [1 .. 0 -> {}]
      BY <3>1, <3>2
    <3> QED
      BY <3>3
  <2>3. \A u \in Tenant : u # t => Verdicts'[u] = Verdicts[u]
    BY <2>1 DEF Verdicts
  <2>4. Verdicts = [u \in Tenant |-> Verdicts[u]] /\ Verdicts' = [u \in Tenant |-> Verdicts'[u]]
    BY DEF Verdicts
  <2> HIDE DEF Verdicts
  <2> QED
    BY <2>2, <2>3, <2>4
<1>5. Ledger!Forget(t)
  BY <1>2, <1>3, <1>4 DEF Reap, Ledger!Forget, Ledger!Held, Leases, Verdicts
<1> QED
  BY <1>5 DEF Ledger!Next

LEMMA TickAdvances ==
    ASSUME Tick
    PROVE  Ledger!Next
<1>1. Leases' = Leases /\ Verdicts' = Verdicts
  BY DEF Tick, Leases, LeaseOf, Exists, Verdicts
<1>2. Ledger!Advance
  BY <1>1 DEF Tick, Ledger!Advance, Leases, Verdicts
<1> QED
  BY <1>2 DEF Ledger!Next

-----------------------------------------------------------------------------
(* Every step *)

LEMMA StepImplements ==
    ASSUME LedgerInv, NEW r \in Request, Step(r)
    PROVE  Ledger!Next \/ Unseen
<1>1. TypeInv /\ StoreTypeOK
  BY DEF LedgerInv, Inv, TypeInv, TypeOK
<1>2. call[r].tenant \in Tenant
  <2>1. pc[r] # "idle"
    BY <1>1, StepMoves DEF Moves, Underway
  <2> QED
    BY <1>1, <2>1, CallOf DEF Call
<1>3. CASE OpenSession(r)
  BY <1>3, OpeningGrants
<1>4. CASE RecordPermission(r) \/ RecordAudience(r) \/ Record(r) \/ RecordAnswerLost(r)
  <2>1. AddMemory(call[r].tenant, call[r].draft)
    BY <1>4 DEF RecordPermission, RecordAudience, Record, RecordAnswerLost
  <2>2. call[r].draft \in MemoryCreate
    BY <1>1, <1>4
    DEF RecordPermission, RecordAudience, Record, RecordAnswerLost, TypeInv, ArgumentsOK
  <2>3. PICK t \in Tenant, d \in MemoryCreate : AddMemory(t, d)
    BY <1>2, <2>1, <2>2
  <2> QED
    BY <1>1, <2>3, AdditionRecords
<1>5. CASE Authorize(r)
  <2>1. PICK t \in Tenant, token \in {call[r].token} : AuthorizeSession(t, token, TRUE)
    BY <1>2, <1>5 DEF Authorize
  <2> QED
    BY <1>1, <2>1, AuthorizingIsUnseen
<1>6. CASE Save(r)
  BY <1>6, SavingPronounces
<1>7. CASE Attach(r) \/ AttachAnswerLost(r)
  <2>1. PICK id \in {response[r].id} : AttachReceiptArchive(id)
    BY <1>7 DEF Attach, AttachAnswerLost
  <2> QED
    BY <1>1, <2>1, AttachingIsUnseen
<1>8. CASE \/ OpenRefused(r) \/ AuthorizeRefused(r) \/ RecordRefused(r) \/ ListState(r)
           \/ Recall(r) \/ RecallRefused(r) \/ SaveRefused(r) \/ GiveUp(r)
           \/ PutObject(r) \/ PutAnswerLost(r) \/ NoArchive(r)
  BY <1>8, StepIsUnseen DEF OpenRefused, RefuseSession, AuthorizeRefused, RecordRefused,
     ListState, Recall, RecallRefused, SaveRefused, GiveUp, PutObject, PutAnswerLost,
     NoArchive, storeVars
<1> QED
  BY <1>3, <1>4, <1>5, <1>6, <1>7, <1>8 DEF Step

LEMMA NextImplements ==
    ASSUME LedgerInv, [Next]_vars
    PROVE  Ledger!Next \/ Unseen
<1>1. TypeInv /\ StoreTypeOK
  BY DEF LedgerInv, Inv, TypeInv, TypeOK
<1>2. ASSUME NEW r \in Request, Receive(r) \/ Abort(r) PROVE Unseen
  BY <1>1, <1>2, ArrivalEffect, StepIsUnseen DEF Abort, storeVars
<1>3. CASE Environment
  BY <1>1, <1>3, TickAdvances, ReapingForgets DEF Environment
<1>4. CASE Rest \/ UNCHANGED vars
  BY <1>4, StepIsUnseen DEF Rest, vars
<1> QED
  BY <1>2, <1>3, <1>4, StepImplements DEF Next

LEMMA InitImplements == Init => Ledger!Init
BY DEF Init, StoreInit, Ledger!Init, LeaseOf, Exists

\* Whatever requests interleave, fail or retry, whatever expires and however the
\* clock moves, evaluate_action's decisions are pronounced as by a ledger that
\* decides in one indivisible step, and nothing else the ledger knows of changes.
THEOREM LedgerImplemented == Spec => ImplementsLedger
<1>1. LedgerInv /\ [Next]_vars => [Ledger!Next]_(Ledger!ledgerVars)
  BY NextImplements, UnseenStutters
<1>2. Spec => []LedgerInv
  BY InitLedgerInv, NextLedgerInv, PTL DEF Spec
<1> QED
  BY <1>1, <1>2, InitImplements, PTL DEF Spec, ImplementsLedger, Ledger!Spec

-----------------------------------------------------------------------------
(* The archive *)

\* A request that has a receipt to answer with, or has answered with it.
Answering(r) ==
    pc[r] \in {"put", "attach"} \/ (pc[r] = "done" /\ call[r].op = "evaluate")

\* The receipt is of its request and its tenant, and a row wherever rows remain.
AnswerRecorded(r) ==
    /\ response[r] \in ActionReceipt
    /\ response[r].id[1] = r
    /\ response[r].tenant = call[r].tenant
    /\ \A t \in Tenant : t = call[r].tenant /\ Exists(t) => response[r] \in Rows(t)

AnswersHeld ==
    \A r \in Request : Answering(r) =>
        /\ AnswerRecorded(r)
        /\ response[r].archived = (pc[r] = "done" /\ Archive)
        /\ pc[r] = "attach" => Archive /\ Canonical(response[r]) \in objects

ObjectsOwned ==
    \A o \in objects :
        /\ o.id[1] \in Request
        /\ pc[o.id[1]] \in Spent
        /\ call[o.id[1]].tenant = o.tenant

Agreed ==
    /\ LedgerInv
    /\ Owned
    /\ OperationsFit
    /\ AnswersHeld
    /\ ObjectsOwned
    /\ ArchiveAgreement

Keyed(row) == [row EXCEPT !.archived = TRUE]

\* The row of the request's receipt gets its key, whether or not the answer arrives.
Keys(r) == Attach(r) \/ AttachAnswerLost(r)

\* What a step does to the rows of a tenant's receipts.
LEMMA RowsStep ==
    ASSUME LedgerInv, [Next]_vars, NEW t \in Tenant
    PROVE  \/ receipts'[t] = receipts[t]
           \/ ~ Exists(t)' /\ receipts'[t] = <<>>
           \/ \E r \in Request : /\ Save(r) /\ call[r].tenant = t
                                 /\ receipts'[t] = Append(receipts[t], BuildReceipt(r))
           \/ \E r \in Request : /\ Keys(r)
                                 /\ receipts'[t] = [i \in DOMAIN receipts[t] |->
                                        IF receipts[t][i].id = response[r].id
                                        THEN Keyed(receipts[t][i]) ELSE receipts[t][i]]
<1>1. TypeInv /\ StoreTypeOK
  BY DEF LedgerInv, Inv, TypeInv, TypeOK
<1>2. ASSUME NEW r \in Request, Receive(r) PROVE receipts' = receipts
  BY <1>1, <1>2, ArrivalEffect DEF storeVars
<1>3. ASSUME NEW r \in Request, OpenSession(r) PROVE receipts'[t] = receipts[t]
  BY <1>1, <1>3, OpensNew DEF OpenSession, CreateSession, StoreTypeOK
<1>4. ASSUME NEW r \in Request, Save(r)
      PROVE  \/ receipts'[t] = receipts[t]
             \/ call[r].tenant = t /\ receipts'[t] = Append(receipts[t], BuildReceipt(r))
  BY <1>1, <1>4 DEF Save, SaveReceipt, BuildReceipt, StoreTypeOK
<1>5. ASSUME NEW r \in Request, Keys(r)
      PROVE  receipts'[t] = [i \in DOMAIN receipts[t] |->
                                IF receipts[t][i].id = response[r].id
                                THEN Keyed(receipts[t][i]) ELSE receipts[t][i]]
  BY <1>5 DEF Keys, Attach, AttachAnswerLost, AttachReceiptArchive, Keyed
<1>6. ASSUME NEW r \in Request,
             \/ OpenRefused(r) \/ RecordPermission(r) \/ RecordAudience(r)
             \/ Authorize(r) \/ Record(r) \/ RecordAnswerLost(r)
      PROVE  receipts' = receipts
  BY <1>6 DEF OpenRefused, RecordPermission, RecordAudience, Authorize, Record,
     RecordAnswerLost, RefuseSession, AuthorizeSession, AddMemory
<1>7. ASSUME NEW r \in Request,
             \/ AuthorizeRefused(r) \/ RecordRefused(r) \/ ListState(r) \/ Recall(r)
             \/ RecallRefused(r) \/ SaveRefused(r) \/ GiveUp(r) \/ PutObject(r)
             \/ PutAnswerLost(r) \/ NoArchive(r) \/ Abort(r)
      PROVE  receipts' = receipts
  BY <1>7 DEF AuthorizeRefused, RecordRefused, ListState, Recall, RecallRefused,
     SaveRefused, GiveUp, PutObject, PutAnswerLost, NoArchive, Abort, storeVars
<1>8. ASSUME NEW r \in Request, Step(r), ~ Save(r), ~ Keys(r)
      PROVE  receipts'[t] = receipts[t]
  BY <1>3, <1>6, <1>7, <1>8 DEF Step, Keys
<1>9. CASE Environment
  BY <1>1, <1>9 DEF Environment, Tick, Reap, StoreTypeOK, Exists
<1>10. CASE UNCHANGED vars
  BY <1>10 DEF vars
<1> QED
  BY <1>1, <1>2, <1>4, <1>5, <1>7, <1>8, <1>9, <1>10, WhoMoves

\* A row stays as it is, but for the key that its author's request attaches.
LEMMA RowsStay ==
    ASSUME LedgerInv, [Next]_vars, NEW t \in Tenant, NEW row \in Rows(t), Exists(t)'
    PROVE  \/ row \in Rows(t)'
           \/ \E r \in Request : Keys(r) /\ row.id = response[r].id /\ Keyed(row) \in Rows(t)'
<1>1. receipts[t] \in Seq(ActionReceipt)
  BY DEF LedgerInv, Inv, TypeOK, StoreTypeOK
<1>2. PICK i \in DOMAIN receipts[t] : row = receipts[t][i]
  BY DEF Rows
<1>3. ASSUME NEW made, receipts'[t] = Append(receipts[t], made)
      PROVE  i \in DOMAIN receipts'[t] /\ receipts'[t][i] = row
  BY <1>1, <1>2, <1>3
<1>4. ASSUME NEW r \in Request,
             receipts'[t] = [k \in DOMAIN receipts[t] |->
                                IF receipts[t][k].id = response[r].id
                                THEN Keyed(receipts[t][k]) ELSE receipts[t][k]]
      PROVE  /\ i \in DOMAIN receipts'[t]
             /\ receipts'[t][i] = IF row.id = response[r].id THEN Keyed(row) ELSE row
  BY <1>2, <1>4
<1>5. CASE receipts'[t] = receipts[t]
  BY <1>2, <1>5 DEF Rows
<1>6. ASSUME NEW made, receipts'[t] = Append(receipts[t], made)
      PROVE  row \in Rows(t)'
  BY <1>3, <1>6 DEF Rows
<1>7. ASSUME NEW r \in Request, Keys(r),
             receipts'[t] = [k \in DOMAIN receipts[t] |->
                                IF receipts[t][k].id = response[r].id
                                THEN Keyed(receipts[t][k]) ELSE receipts[t][k]]
      PROVE  row \in Rows(t)' \/ (row.id = response[r].id /\ Keyed(row) \in Rows(t)')
  <2>1. /\ i \in DOMAIN receipts'[t]
        /\ receipts'[t][i] = IF row.id = response[r].id THEN Keyed(row) ELSE row
    BY <1>4, <1>7
  <2>2. receipts'[t][i] \in Rows(t)'
    BY <2>1 DEF Rows
  <2> QED
    BY <2>1, <2>2
<1> QED
  BY <1>5, <1>6, <1>7, RowsStep DEF Exists

\* Where a row comes from.
LEMMA RowsCome ==
    ASSUME LedgerInv, [Next]_vars, NEW t \in Tenant, NEW row \in Rows(t)'
    PROVE  \/ row \in Rows(t)
           \/ \E r \in Request : Save(r) /\ row = BuildReceipt(r)
           \/ \E r \in Request : Keys(r) /\ \E old \in Rows(t) :
                                    old.id = response[r].id /\ row = Keyed(old)
<1>1. receipts[t] \in Seq(ActionReceipt)
  BY DEF LedgerInv, Inv, TypeOK, StoreTypeOK
<1>2. PICK i \in DOMAIN receipts'[t] : row = receipts'[t][i]
  BY DEF Rows
<1>3. ASSUME NEW made, receipts'[t] = Append(receipts[t], made)
      PROVE  row = made \/ (i \in DOMAIN receipts[t] /\ row = receipts[t][i])
  BY <1>1, <1>2, <1>3
<1>4. ASSUME NEW r \in Request,
             receipts'[t] = [k \in DOMAIN receipts[t] |->
                                IF receipts[t][k].id = response[r].id
                                THEN Keyed(receipts[t][k]) ELSE receipts[t][k]]
      PROVE  /\ i \in DOMAIN receipts[t]
             /\ row = IF receipts[t][i].id = response[r].id
                      THEN Keyed(receipts[t][i]) ELSE receipts[t][i]
  BY <1>2, <1>4
<1>5. receipts'[t] # <<>>
  BY <1>2
<1>6. CASE receipts'[t] = receipts[t]
  BY <1>2, <1>6 DEF Rows
<1>7. ASSUME NEW made, receipts'[t] = Append(receipts[t], made)
      PROVE  row = made \/ row \in Rows(t)
  BY <1>3, <1>7 DEF Rows
<1>8. ASSUME NEW r \in Request, Keys(r),
             receipts'[t] = [k \in DOMAIN receipts[t] |->
                                IF receipts[t][k].id = response[r].id
                                THEN Keyed(receipts[t][k]) ELSE receipts[t][k]]
      PROVE  \/ row \in Rows(t)
             \/ \E old \in Rows(t) : old.id = response[r].id /\ row = Keyed(old)
  <2>1. /\ i \in DOMAIN receipts[t]
        /\ row = IF receipts[t][i].id = response[r].id
                 THEN Keyed(receipts[t][i]) ELSE receipts[t][i]
    BY <1>4, <1>8
  <2>2. receipts[t][i] \in Rows(t)
    BY <2>1 DEF Rows
  <2> QED
    BY <2>1, <2>2
<1> QED
  BY <1>5, <1>6, <1>7, <1>8, RowsStep

\* A session that a request knows of is not opened under it.
LEMMA KnownSessionsStay ==
    ASSUME LedgerInv, [Next]_vars, NEW s \in Request, call[s] # None, pc[s] # "open",
           NEW t \in Tenant, call[s].tenant = t, Exists(t)'
    PROVE  Exists(t)
<1>1. TypeInv
  BY DEF LedgerInv, Inv, TypeInv
<1>2. ASSUME NEW r \in Request, OpenSession(r), call[r].tenant = t PROVE FALSE
  BY <1>2 DEF OpenSession, LedgerInv, Inv, TenantsFresh
<1> QED
  BY <1>1, <1>2, SessionsEffect DEF SessionEffect, Exists

\* An object appears by the put of a request that has a receipt to answer with.
LEMMA ObjectsEffect ==
    ASSUME TypeInv, [Next]_vars
    PROVE  \/ objects' = objects
           \/ \E r \in Request : /\ pc[r] = "put"
                                 /\ UNCHANGED storeVars
                                 /\ objects' = objects \cup {Canonical(response[r])}
<1>1. ASSUME NEW r \in Request, Receive(r) PROVE objects' = objects
  BY <1>1 DEF Receive, ReceiveCreate, ReceiveAdd, ReceiveState, ReceiveEvaluate, Arrive
<1>2. ASSUME NEW r \in Request, PutObject(r) \/ PutAnswerLost(r)
      PROVE  pc[r] = "put" /\ UNCHANGED storeVars /\ objects' = objects \cup {Canonical(response[r])}
  BY <1>2 DEF PutObject, PutAnswerLost
<1>3. ASSUME NEW r \in Request, Step(r), ~ PutObject(r), ~ PutAnswerLost(r)
      PROVE  objects' = objects
  BY <1>3 DEF Step, OpenSession, OpenRefused, RecordPermission, RecordAudience, Authorize,
     AuthorizeRefused, Record, RecordRefused, RecordAnswerLost, ListState, Recall,
     RecallRefused, Save, SaveRefused, GiveUp, NoArchive, Attach, AttachAnswerLost
<1>4. ASSUME NEW r \in Request, Abort(r) PROVE objects' = objects
  BY <1>4 DEF Abort
<1>5. CASE UNCHANGED serviceVars
  BY <1>5 DEF serviceVars
<1> QED
  BY <1>1, <1>2, <1>3, <1>4, <1>5, WhoMoves

LEMMA ObjectsStayOwned ==
    ASSUME Agreed, [Next]_vars
    PROVE  ObjectsOwned'
<1>1. TypeInv
  BY DEF Agreed, Owned
<1>2. \A s \in Request : pc[s] \in Spent => pc'[s] \in Spent /\ call'[s].tenant = call[s].tenant
  <2>1. \A s \in Request : pc[s] \in Spent => call[s] # None
    BY <1>1 DEF TypeInv, ArgumentsOK, Spent
  <2> QED
    BY <1>1, <2>1, SpentStay, CallsStay
<1>3. ASSUME NEW o \in objects
      PROVE  o.id[1] \in Request /\ pc'[o.id[1]] \in Spent /\ call'[o.id[1]].tenant = o.tenant
  BY <1>2 DEF Agreed, ObjectsOwned
<1>4. ASSUME NEW r \in Request, pc[r] = "put", NEW o, o = Canonical(response[r])
      PROVE  o.id[1] \in Request /\ pc'[o.id[1]] \in Spent /\ call'[o.id[1]].tenant = o.tenant
  <2>1. /\ response[r] \in ActionReceipt /\ response[r].id[1] = r
        /\ response[r].tenant = call[r].tenant
    BY <1>4 DEF Agreed, AnswersHeld, AnswerRecorded, Answering
  <2>2. o.id[1] = r /\ o.tenant = call[r].tenant
    BY <1>4, <2>1 DEF Canonical, ActionReceipt
  <2> QED
    BY <1>2, <1>4, <2>2 DEF Spent
<1> QED
  BY <1>1, <1>3, <1>4, ObjectsEffect DEF ObjectsOwned

-----------------------------------------------------------------------------
(* Answers *)

\* A receipt a request answers with stays recorded until the request attaches its key.
LEMMA AnswerStays ==
    ASSUME Agreed, [Next]_vars, NEW s \in Request, Answering(s),
           response'[s] = response[s], ~ Keys(s)
    PROVE  AnswerRecorded(s)'
<1>1. TypeInv /\ LedgerInv /\ AnswerRecorded(s)
  BY DEF Agreed, Owned, AnswersHeld
<1>2. call[s] # None /\ pc[s] # "open"
  BY <1>1 DEF Answering, TypeInv, ArgumentsOK
<1>3. call'[s].tenant = call[s].tenant
  BY <1>1, <1>2, CallsStay
<1>4. ASSUME NEW t \in Tenant, t = call[s].tenant, Exists(t)'
      PROVE  response[s] \in Rows(t)'
  <2>1. Exists(t)
    BY <1>1, <1>2, <1>4, KnownSessionsStay
  <2>2. response[s] \in Rows(t)
    BY <1>1, <1>4, <2>1 DEF AnswerRecorded
  <2>3. ASSUME NEW r \in Request, Keys(r) PROVE response[s].id # response[r].id
    <3>1. response[r].id[1] = r
      BY <2>3 DEF Keys, Attach, AttachAnswerLost, Agreed, Owned, ResponsesOwned
    <3> QED
      BY <1>1, <2>3, <3>1 DEF AnswerRecorded
  <2> QED
    BY <1>1, <1>4, <2>2, <2>3, RowsStay DEF Exists
<1> QED
  BY <1>1, <1>3, <1>4 DEF AnswerRecorded, Exists

\* The row a request saves is the receipt it answers with.
LEMMA AnswerSaved ==
    ASSUME Agreed, [Next]_vars, NEW r \in Request, Save(r)
    PROVE  /\ AnswerRecorded(r)'
           /\ response'[r].archived = FALSE
<1>1. TypeInv /\ TypeOK /\ StoreTypeOK
  BY DEF Agreed, Owned, TypeInv, TypeOK
<1>2. TypeOK' /\ StoreTypeOK'
  BY <1>1, NextType DEF TypeInv, TypeOK
<1> PICK t \in Tenant : t = call[r].tenant
  BY <1>1, CallOf DEF Save, Call
<1> PICK row : row = BuildReceipt(r)
  OBVIOUS
<1>3. receipts'[t] = Append(receipts[t], row)
  BY <1>1 DEF Save, SaveReceipt, BuildReceipt, StoreTypeOK
<1>4. PICK i \in DOMAIN receipts'[t] : receipts'[t][i] = row
  <2> DEFINE n == Len(receipts[t]) + 1
  <2>1. receipts[t] \in Seq(ActionReceipt)
    BY <1>1 DEF StoreTypeOK
  <2>2. n \in DOMAIN receipts'[t] /\ receipts'[t][n] = row
    BY <1>3, <2>1
  <2> QED
    BY <2>2
<1>5. row \in ActionReceipt
  BY <1>2, <1>4, ElementOfSeq, LenProperties DEF StoreTypeOK
<1>6. row \in Rows(t)'
  BY <1>4 DEF Rows
<1>7. response'[r] = row /\ call' = call
  BY <1>1 DEF Save, TypeOK
<1>8. row.id[1] = r /\ row.tenant = t /\ row.archived = FALSE
  BY DEF BuildReceipt
<1> QED
  BY <1>5, <1>6, <1>7, <1>8 DEF AnswerRecorded

\* The key is attached to the row and to the answer alike.
LEMMA AnswerAttached ==
    ASSUME Agreed, [Next]_vars, NEW r \in Request, Attach(r)
    PROVE  /\ AnswerRecorded(r)'
           /\ response'[r].archived = TRUE
<1>1. TypeInv /\ TypeOK /\ AnswerRecorded(r)
  BY DEF Agreed, Owned, TypeInv, Attach, AnswersHeld, Answering
<1>2. /\ response'[r] = Keyed(response[r])
      /\ UNCHANGED <<call, sessions>>
      /\ receipts' = [t \in Tenant |-> [i \in DOMAIN receipts[t] |->
            IF receipts[t][i].id = response[r].id THEN Keyed(receipts[t][i])
            ELSE receipts[t][i]]]
  BY <1>1 DEF Attach, AttachReceiptArchive, TypeOK, Keyed
<1>3. /\ Keyed(response[r]) \in ActionReceipt
      /\ Keyed(response[r]).id = response[r].id
      /\ Keyed(response[r]).tenant = response[r].tenant
      /\ Keyed(response[r]).archived = TRUE
  BY <1>1 DEF AnswerRecorded, Keyed, ActionReceipt
<1>4. ASSUME NEW t \in Tenant, t = call[r].tenant, Exists(t)
      PROVE  Keyed(response[r]) \in Rows(t)'
  <2>1. PICK i \in DOMAIN receipts[t] : receipts[t][i] = response[r]
    BY <1>1, <1>4 DEF AnswerRecorded, Rows
  <2>2. i \in DOMAIN receipts'[t] /\ receipts'[t][i] = Keyed(response[r])
    BY <1>2, <2>1
  <2> QED
    BY <2>2 DEF Rows
<1> QED
  BY <1>1, <1>2, <1>3, <1>4 DEF AnswerRecorded, Exists

\* Whose answer a step may touch, and how a request gets one.
LEMMA AnswersEffect ==
    ASSUME Agreed, NEW r \in Request, Step(r) \/ Abort(r), Moves(r)
    PROVE  /\ \A s \in Request : s # r => response'[s] = response[s]
           /\ \/ ~ Answering(r)'
              \/ Save(r) /\ pc'[r] = "put"
              \/ PutObject(r) /\ pc'[r] = "attach" /\ response'[r] = response[r]
              \/ NoArchive(r) /\ pc'[r] = "done" /\ response'[r] = response[r]
              \/ Attach(r) /\ pc'[r] = "done"
<1>1. TypeInv /\ TypeOK
  BY DEF Agreed, Owned, TypeInv
<1>2. \A s \in Request : s # r => response'[s] = response[s]
  BY <1>1 DEF TypeOK, Step, Abort, OpenSession, OpenRefused, RecordPermission,
     RecordAudience, Authorize, AuthorizeRefused, Record, RecordRefused, RecordAnswerLost,
     ListState, Recall, RecallRefused, Save, SaveRefused, GiveUp, PutObject, PutAnswerLost,
     NoArchive, Attach, AttachAnswerLost, Fail
<1>3. CASE Save(r) \/ PutObject(r) \/ NoArchive(r) \/ Attach(r)
  BY <1>1, <1>2, <1>3 DEF Save, PutObject, NoArchive, Attach, Goto, TypeOK
<1>4. CASE RecordAudience(r) \/ Record(r) \/ ListState(r)
  <2>1. call[r].op # "evaluate" /\ call' = call
    BY <1>4 DEF RecordAudience, Record, ListState, Agreed, Owned, CreatorsCreate, OperationsFit
  <2>2. pc'[r] = "done"
    BY <1>1, <1>4 DEF RecordAudience, Record, ListState, Goto, TypeOK
  <2> QED
    BY <1>2, <2>1, <2>2 DEF Answering
<1>5. CASE \/ OpenSession(r) \/ OpenRefused(r) \/ RecordPermission(r)
           \/ AuthorizeRefused(r) \/ RecordRefused(r) \/ Recall(r) \/ RecallRefused(r)
           \/ SaveRefused(r) \/ GiveUp(r) \/ PutAnswerLost(r) \/ Abort(r)
           \/ RecordAnswerLost(r) \/ AttachAnswerLost(r)
  <2>1. pc'[r] \in {"grant", "context", "failed", "save", "recall"}
    BY <1>1, <1>5 DEF OpenSession, OpenRefused, RecordPermission, AuthorizeRefused,
       RecordRefused, RecordAnswerLost, Recall, RecallRefused, SaveRefused, GiveUp,
       PutAnswerLost, AttachAnswerLost, Abort, Fail, Goto, TypeOK
  <2> QED
    BY <1>2, <2>1 DEF Answering
<1>6. CASE Authorize(r)
  <2>1. pc'[r] \in {"record", "list", "recall"}
    BY <1>1, <1>6 DEF Authorize, Goto, TypeInv, TypeOK, ArgumentsOK, AfterAuthorize
  <2> QED
    BY <1>2, <2>1 DEF Answering
<1> QED
  BY <1>3, <1>4, <1>5, <1>6 DEF Step

LEMMA AnswersStayHeld ==
    ASSUME Agreed, [Next]_vars
    PROVE  AnswersHeld'
<1>1. TypeInv /\ TypeOK /\ LedgerInv
  BY DEF Agreed, Owned, TypeInv
<1>2. objects \subseteq objects'
  BY <1>1, ObjectsEffect
<1> DEFINE Fits(s) ==
        /\ AnswerRecorded(s)'
        /\ response'[s].archived = (pc'[s] = "done" /\ Archive)
        /\ pc'[s] = "attach" => Archive /\ Canonical(response'[s]) \in objects'
<1>3. ASSUME NEW s \in Request, Answering(s)', pc'[s] = pc[s], response'[s] = response[s]
      PROVE  Fits(s)
  <2>1. pc[s] # "idle" /\ call[s] # None
    BY <1>1, <1>3 DEF Answering, TypeInv, ArgumentsOK
  <2>2. call'[s].op = call[s].op
    BY <1>1, <2>1, CallsStay
  <2>3. Answering(s)
    BY <1>3, <2>2 DEF Answering
  <2>4. ~ Keys(s)
    BY <1>1, <1>3 DEF Keys, Attach, AttachAnswerLost, Fail, Goto, TypeOK
  <2>5. AnswerRecorded(s)'
    BY <1>3, <2>3, <2>4, AnswerStays
  <2> QED
    BY <1>2, <1>3, <2>3, <2>5 DEF Agreed, AnswersHeld
<1>4. ASSUME NEW r \in Request, Receive(r), NEW s \in Request, Answering(s)' PROVE Fits(s)
  <2>1. s # r /\ pc'[s] = pc[s] /\ response'[s] = response[s]
    BY <1>1, <1>4, ArrivalEffect DEF Answering
  <2> QED
    BY <1>3, <1>4, <2>1
<1>5. ASSUME NEW r \in Request, Moves(r), Step(r) \/ Abort(r),
             NEW s \in Request, Answering(s)'
      PROVE  Fits(s)
  <2>1. CASE s # r
    <3>1. pc'[s] = pc[s] /\ response'[s] = response[s]
      BY <1>5, <2>1, AnswersEffect DEF Moves
    <3> QED
      BY <1>3, <1>5, <3>1
  <2>2. CASE s = r /\ Save(r) /\ pc'[r] = "put"
    BY <2>2, AnswerSaved
  <2>3. CASE s = r /\ PutObject(r) /\ pc'[r] = "attach" /\ response'[r] = response[r]
    <3>1. pc[r] = "put" /\ Archive /\ objects' = objects \cup {Canonical(response[r])}
      BY <2>3 DEF PutObject
    <3>2. AnswerRecorded(r)'
      BY <2>3, <3>1, AnswerStays DEF Answering, Keys, Attach, AttachAnswerLost
    <3>3. response[r].archived = FALSE
      BY <3>1 DEF Agreed, AnswersHeld, Answering
    <3> QED
      BY <2>3, <3>1, <3>2, <3>3
  <2>4. CASE s = r /\ NoArchive(r) /\ pc'[r] = "done" /\ response'[r] = response[r]
    <3>1. pc[r] = "put" /\ ~ Archive
      BY <2>4 DEF NoArchive
    <3>2. AnswerRecorded(r)'
      BY <2>4, <3>1, AnswerStays DEF Answering, Keys, Attach, AttachAnswerLost
    <3>3. response[r].archived = FALSE
      BY <3>1 DEF Agreed, AnswersHeld, Answering
    <3> QED
      BY <2>4, <3>1, <3>2, <3>3
  <2>5. CASE s = r /\ Attach(r) /\ pc'[r] = "done"
    <3>1. Archive
      BY <2>5 DEF Attach, Agreed, AnswersHeld, Answering
    <3> QED
      BY <2>5, <3>1, AnswerAttached
  <2> QED
    BY <1>5, <2>1, <2>2, <2>3, <2>4, <2>5, AnswersEffect
<1>6. ASSUME UNCHANGED serviceVars, NEW s \in Request, Answering(s)' PROVE Fits(s)
  BY <1>3, <1>6 DEF serviceVars
<1>7. \A s \in Request : Answering(s)' => Fits(s)
  BY <1>1, <1>4, <1>5, <1>6, WhoMoves
<1> QED
  BY <1>7 DEF AnswersHeld

-----------------------------------------------------------------------------
(* Agreement *)

LEMMA RowIsReceipt ==
    ASSUME StoreTypeOK, NEW t \in Tenant, NEW row \in Rows(t)
    PROVE  row \in ActionReceipt /\ Canonical(Keyed(row)) = Canonical(row)
<1>1. row \in ActionReceipt
  BY ElementOfSeq, LenProperties DEF StoreTypeOK, Rows
<1> QED
  BY <1>1 DEF Canonical, Keyed, ActionReceipt

\* An object is the content of a row for as long as its session has rows.
LEMMA ObjectsRecorded ==
    ASSUME Agreed, [Next]_vars, NEW o \in objects', NEW t \in Tenant, t = o.tenant, Exists(t)'
    PROVE  \E row \in Rows(t)' : Canonical(row) = o
<1>1. TypeInv /\ StoreTypeOK /\ LedgerInv
  BY DEF Agreed, Owned, TypeInv, TypeOK
<1>2. CASE o \in objects
  <2>1. /\ o.id[1] \in Request
        /\ pc[o.id[1]] \in Spent
        /\ call[o.id[1]].tenant = t
    BY <1>2 DEF Agreed, ObjectsOwned
  <2>2. call[o.id[1]] # None /\ pc[o.id[1]] # "open"
    BY <1>1, <2>1 DEF TypeInv, ArgumentsOK, Spent
  <2>3. Exists(t)
    BY <1>1, <2>1, <2>2, KnownSessionsStay
  <2>4. PICK row \in Rows(t) : Canonical(row) = o
    BY <1>2, <2>3 DEF Agreed, ArchiveAgreement
  <2>5. row \in Rows(t)' \/ Keyed(row) \in Rows(t)'
    BY <1>1, RowsStay
  <2> QED
    BY <1>1, <2>4, <2>5, RowIsReceipt
<1>3. ASSUME NEW r \in Request, pc[r] = "put", UNCHANGED storeVars, o = Canonical(response[r])
      PROVE  \E row \in Rows(t)' : Canonical(row) = o
  <2>1. AnswerRecorded(r)
    BY <1>3 DEF Agreed, AnswersHeld, Answering
  <2>2. o.tenant = call[r].tenant
    BY <1>3, <2>1 DEF AnswerRecorded, Canonical, ActionReceipt
  <2>3. Exists(t) /\ Rows(t)' = Rows(t)
    BY <1>3 DEF storeVars, Exists, Rows
  <2> QED
    BY <1>3, <2>1, <2>2, <2>3 DEF AnswerRecorded
<1> QED
  BY <1>1, <1>2, <1>3, ObjectsEffect

\* A row has an archive key only if the object is there.
LEMMA KeyedRowsHaveObjects ==
    ASSUME Agreed, [Next]_vars, NEW t \in Tenant, NEW row \in Rows(t)', row.archived
    PROVE  Canonical(row) \in objects'
<1>1. TypeInv /\ StoreTypeOK /\ LedgerInv
  BY DEF Agreed, Owned, TypeInv, TypeOK
<1>2. objects \subseteq objects'
  BY <1>1, ObjectsEffect
<1>3. CASE row \in Rows(t)
  BY <1>2, <1>3 DEF Agreed, ArchiveAgreement
<1>4. ASSUME NEW r \in Request, row = BuildReceipt(r) PROVE FALSE
  BY <1>4 DEF BuildReceipt
<1>5. ASSUME NEW r \in Request, Keys(r),
             NEW old \in Rows(t), old.id = response[r].id, row = Keyed(old)
      PROVE  Canonical(row) \in objects'
  <2>1. AnswerRecorded(r) /\ Canonical(response[r]) \in objects
    BY <1>5 DEF Keys, Attach, AttachAnswerLost, Agreed, AnswersHeld, Answering
  <2>2. PICK i \in DOMAIN receipts[t] : receipts[t][i] = old
    BY DEF Rows
  <2>3. Author(t, i) = r /\ call[r].tenant = t
    BY <1>5, <2>1, <2>2 DEF AnswerRecorded, Author, Agreed, Owned, ReceiptsOwned
  <2>4. Exists(t)
    BY <1>1, <2>2 DEF LedgerInv, Rooted
  <2>5. PICK j \in DOMAIN receipts[t] : receipts[t][j] = response[r]
    BY <2>1, <2>3, <2>4 DEF AnswerRecorded, Rows
  <2>6. i = j
    BY <2>1, <2>3, <2>5 DEF AnswerRecorded, Author, Agreed, Owned, ReceiptsOwned
  <2>7. Canonical(row) = Canonical(response[r])
    BY <1>1, <1>5, <2>2, <2>5, <2>6, RowIsReceipt
  <2> QED
    BY <1>2, <2>1, <2>7
<1> QED
  BY <1>1, <1>3, <1>4, <1>5, RowsCome

LEMMA AgreementStays ==
    ASSUME Agreed, [Next]_vars
    PROVE  ArchiveAgreement'
<1>1. TypeInv' /\ AnswersHeld'
  BY NextType, AnswersStayHeld DEF Agreed, Owned
<1>2. \A o \in objects' : o.tenant \in Tenant
  BY <1>1 DEF TypeInv, TypeOK, ActionReceipt
<1>3. \A o \in objects' : Exists(o.tenant)' => \E row \in Rows(o.tenant)' : Canonical(row) = o
  BY <1>2, ObjectsRecorded DEF Exists, Rows
<1>4. \A t \in Tenant : \A row \in Rows(t)' : row.archived => Canonical(row) \in objects'
  BY KeyedRowsHaveObjects
<1>5. ASSUME NEW r \in Request, pc'[r] = "done", call'[r].op = "evaluate"
      PROVE  /\ response'[r].archived = Archive
             /\ sessions'[call'[r].tenant] # None =>
                    response'[r] \in {receipts'[call'[r].tenant][i] :
                                        i \in DOMAIN receipts'[call'[r].tenant]}
  <2>1. /\ AnswerRecorded(r)'
        /\ response'[r].archived = (pc'[r] = "done" /\ Archive)
    BY <1>1, <1>5 DEF AnswersHeld, Answering
  <2>2. call'[r].tenant \in Tenant
    BY <1>1, <1>5 DEF TypeInv, TypeOK, ArgumentsOK, Call
  <2> QED
    BY <1>5, <2>1, <2>2, ServiceAssumption DEF AnswerRecorded, Exists, Rows
<1> QED
  BY <1>3, <1>4, <1>5 DEF ArchiveAgreement, Exists, Rows

LEMMA InitAgreed == Init => Agreed
<1> SUFFICES ASSUME Init PROVE Agreed
  OBVIOUS
<1>1. OperationsFit /\ AnswersHeld /\ ObjectsOwned
  BY DEF Init, OperationsFit, AnswersHeld, Answering, ObjectsOwned
<1>2. ArchiveAgreement
  BY DEF Init, StoreInit, ArchiveAgreement, Rows
<1> QED
  BY <1>1, <1>2, InitLedgerInv, InitOwned DEF Agreed

\* The row, the archived object and the answer agree at every step, though three
\* separate calls write them and a request may fail between any two: an object is
\* the content of a committed row, a row with an archive key has its object, and
\* an answered receipt is the row itself (evaluate_action).
THEOREM AgreementCorrect == Spec => []ArchiveAgreement
<1>1. Agreed /\ [Next]_vars => Agreed'
  <2> SUFFICES ASSUME Agreed, [Next]_vars PROVE Agreed'
    OBVIOUS
  <2>1. LedgerInv' /\ Owned'
    BY NextLedgerInv, NextOwned DEF Agreed
  <2>2. OperationsFit'
    BY OperationsStayFit DEF Agreed, Owned
  <2> QED
    BY <2>1, <2>2, AnswersStayHeld, ObjectsStayOwned, AgreementStays DEF Agreed
<1>2. Agreed => ArchiveAgreement
  BY DEF Agreed
<1> QED
  BY <1>1, <1>2, InitAgreed, PTL DEF Spec

-----------------------------------------------------------------------------
(* What a session holds *)

\* Requests that have spent a use of t's session and no memory shows it (yet).
Waiting(t) ==
    {r \in Admitted(t) : call[r].op = "evaluate" \/ pc[r] = "record"}

Creating(r, t) == call[r] # None /\ call[r].op = "create" /\ call[r].tenant = t

\* Memories that the creation of t's session has still to record.
Owed(t) ==
    IF \E r \in Request : Creating(r, t) /\ pc[r] = "grant" THEN 2
    ELSE IF \E r \in Request : Creating(r, t) /\ pc[r] = "context" THEN 1
    ELSE 0

CreatorUnique ==
    \A t \in Tenant : \A r, s \in Request : Creating(r, t) /\ Creating(s, t) => r = s

MemoriesPaid ==
    \A t \in Tenant : Exists(t) =>
        Len(memories[t]) + Owed(t) + sessions[t].uses + Cardinality(Waiting(t)) <= UseLimit + 2

Paid ==
    /\ Inv
    /\ Owned
    /\ CreatorUnique
    /\ OperationsFit
    /\ MemoriesPaid

-----------------------------------------------------------------------------
(* Requests *)

LEMMA CreatorsStayUnique ==
    ASSUME TypeInv, CreatorUnique, [Next]_vars
    PROVE  CreatorUnique'
<1>1. TypeInv
  OBVIOUS
<1>2. ASSUME NEW s \in Request, NEW t \in Tenant, Creating(s, t)'
      PROVE  Creating(s, t) \/ (ReceiveCreate(s) /\ Fresh(t))
  <2>1. CASE call[s] # None
    BY <1>1, <1>2, <2>1, CallsStay DEF Creating
  <2>2. CASE call[s] = None
    <3>1. ASSUME NEW r \in Request, Moves(r), Step(r) \/ Abort(r) PROVE FALSE
      <4>1. CallsKept
        BY <1>1, <3>1, StepKeepsCalls
      <4> QED
        BY <1>2, <2>2, <4>1 DEF CallsKept, Creating
    <3>2. ~ UNCHANGED serviceVars
      BY <1>2, <2>2 DEF serviceVars, Creating
    <3>3. PICK r \in Request : Receive(r)
      BY <1>1, <3>1, <3>2, WhoMoves
    <3>4. r = s
      BY <1>1, <1>2, <2>2, <3>3, ArrivalEffect DEF Creating
    <3>5. CASE ReceiveCreate(s)
      <4>1. PICK u \in Tenant :
              /\ Fresh(u)
              /\ Arrive(s, [op |-> "create", tenant |-> u, token |-> u, query |-> None,
                            draft |-> InitialPermission(HostNow + TTL)], "open")
        BY <3>5 DEF ReceiveCreate
      <4>2. call'[s].tenant = u
        BY <1>1, <4>1 DEF Arrive, TypeInv, TypeOK
      <4> QED
        BY <1>2, <3>5, <4>1, <4>2 DEF Creating
    <3>6. CASE ReceiveAdd(s) \/ ReceiveState(s) \/ ReceiveEvaluate(s)
      BY <1>1, <1>2, <3>6 DEF ReceiveAdd, ReceiveState, ReceiveEvaluate, Arrive, Creating,
         TypeInv, TypeOK
    <3> QED
      BY <3>3, <3>4, <3>5, <3>6 DEF Receive
  <2> QED
    BY <2>1, <2>2
<1>3. ASSUME NEW s \in Request, ReceiveCreate(s), NEW r \in Request, r # s
      PROVE  ~ ReceiveCreate(r)
  <2>1. Receive(s) /\ pc[r] = pc'[r]
    BY <1>1, <1>3, ArrivalEffect DEF Receive
  <2>2. ReceiveCreate(r) => pc[r] = "idle" /\ pc'[r] = "open"
    BY <1>1 DEF ReceiveCreate, Arrive, HasRoom, Goto, TypeInv, TypeOK
  <2> QED
    BY <2>1, <2>2
<1>4. \A t \in Tenant : Fresh(t) => \A r \in Request : ~ Creating(r, t)
  BY DEF Fresh, Creating
<1> QED
  BY <1>2, <1>3, <1>4 DEF CreatorUnique

\* Nobody starts to wait but by the authorization that takes a use.
LEMMA NewlyWaiting ==
    ASSUME Paid, [Next]_vars, NEW t \in Tenant, NEW s \in Request, s \in Waiting(t)'
    PROVE  s \in Waiting(t) \/ (Authorize(s) /\ call[s].tenant = t)
<1>1. TypeInv /\ Owned
  BY DEF Paid, Owned
<1>2. s \in Admitted(t)' /\ (call'[s].op = "evaluate" \/ pc'[s] = "record")
  BY DEF Waiting
<1>3. SUFFICES ASSUME s \in Admitted(t), ~ Authorize(s) PROVE s \in Waiting(t)
  BY <1>1, <1>2, NewlyAdmitted DEF Admitted, Authorize
<1>4. call[s] # None /\ call'[s].op = call[s].op
  BY <1>1, <1>3, CallsStay DEF Admitted
<1>5. ASSUME pc'[s] = "record" PROVE pc[s] = "record"
  <2>1. ASSUME NEW r \in Request, Receive(r) PROVE pc[s] = "record"
    BY <1>1, <1>5, <2>1, ArrivalEffect
  <2>2. ASSUME NEW r \in Request, Moves(r) PROVE pc[s] = "record"
    BY <1>3, <1>5, <2>2 DEF Moves
  <2>3. CASE UNCHANGED serviceVars
    BY <1>5, <2>3 DEF serviceVars
  <2> QED
    BY <1>1, <2>1, <2>2, <2>3, WhoMoves
<1> QED
  BY <1>2, <1>3, <1>4, <1>5 DEF Waiting

\* A session's creation owes it less and less, once it is open.
LEMMA OwedShrinks ==
    ASSUME Paid, [Next]_vars, NEW t \in Tenant
    PROVE  /\ Owed(t) \in 0 .. 2 /\ Owed(t)' \in 0 .. 2
           /\ \/ Owed(t)' <= Owed(t)
              \/ \E r \in Request : OpenSession(r) /\ call[r].tenant = t
<1>1. TypeInv
  BY DEF Paid, Owned
<1>2. ASSUME NEW s \in Request, Creating(s, t)', pc'[s] \in {"grant", "context"}
      PROVE  /\ Creating(s, t)
             /\ \/ pc[s] = pc'[s]
                \/ pc[s] = "grant" /\ pc'[s] = "context"
                \/ OpenSession(s)
  <2>1. ASSUME NEW r \in Request, Receive(r) PROVE pc[s] = pc'[s] /\ call'[s] = call[s]
    BY <1>1, <1>2, <2>1, ArrivalEffect
  <2>2. ASSUME NEW r \in Request, Moves(r), Step(r) \/ Abort(r)
        PROVE  \/ pc[s] = pc'[s]
               \/ pc[s] = "grant" /\ pc'[s] = "context"
               \/ OpenSession(s)
    <3>1. pc[r] = "open" /\ pc'[r] = "grant" => OpenSession(r)
      BY <1>1, <2>2 DEF Step, Abort, OpenSession, OpenRefused, RecordPermission, RecordAudience,
         Authorize, AuthorizeRefused, Record, RecordRefused, RecordAnswerLost, ListState,
         Recall, RecallRefused, Save, SaveRefused, GiveUp, Refused, PutObject, PutAnswerLost,
         NoArchive, Attach, AttachAnswerLost, Fail, Goto, TypeInv, TypeOK
    <3> QED
      BY <1>2, <2>2, <3>1 DEF Moves
  <2>3. CASE UNCHANGED serviceVars
    BY <1>2, <2>3 DEF Creating, serviceVars
  <2>4. \/ pc[s] = pc'[s]
        \/ pc[s] = "grant" /\ pc'[s] = "context"
        \/ OpenSession(s)
    BY <1>1, <2>1, <2>2, <2>3, WhoMoves DEF serviceVars
  <2>5. call[s] # None
    BY <1>1, <1>2, <2>4 DEF OpenSession, TypeInv, ArgumentsOK
  <2> QED
    BY <1>1, <1>2, <2>4, <2>5, CallsStay DEF Creating
<1>3. Owed(t) \in 0 .. 2 /\ Owed(t)' \in 0 .. 2
  BY DEF Owed
<1>4. CASE \E s \in Request : Creating(s, t) /\ OpenSession(s)
  BY <1>3, <1>4 DEF Creating
<1>5. CASE ~ \E s \in Request : Creating(s, t) /\ OpenSession(s)
  <2>1. Owed(t)' = 2 => Owed(t) = 2
    BY <1>2, <1>5 DEF Owed
  <2>2. Owed(t)' = 1 => Owed(t) \in {1, 2}
    BY <1>2, <1>5 DEF Owed
  <2> QED
    BY <1>3, <2>1, <2>2
<1> QED
  BY <1>4, <1>5

-----------------------------------------------------------------------------
(* What a step does to the count *)

\* A memory is recorded for r, whether or not the answer arrives.
Records(r) == RecordPermission(r) \/ RecordAudience(r) \/ Record(r) \/ RecordAnswerLost(r)

\* Steps that record no memory: the memories of t stay, or go.
LEMMA OnlyAdditionsGrow ==
    ASSUME TypeInv, [Next]_vars, NEW t \in Tenant,
           \A r \in Request : ~ (Records(r) /\ call[r].tenant = t)
    PROVE  memories'[t] = memories[t] \/ memories'[t] = <<>>
<1>1. StoreTypeOK
  BY DEF TypeInv, TypeOK
<1>2. ASSUME NEW r \in Request, Receive(r) \/ Abort(r) PROVE memories' = memories
  BY <1>1, <1>2, ArrivalEffect DEF Abort, storeVars
<1>3. ASSUME NEW r \in Request, Step(r) PROVE memories'[t] = memories[t] \/ memories'[t] = <<>>
  <2>1. CASE OpenSession(r)
    BY <1>1, <2>1 DEF OpenSession, CreateSession, StoreTypeOK
  <2>2. CASE Records(r)
    BY <1>1, <2>2
    DEF Records, RecordPermission, RecordAudience, Record, RecordAnswerLost, AddMemory, StoreTypeOK
  <2>3. CASE \/ OpenRefused(r) \/ Authorize(r) \/ AuthorizeRefused(r) \/ RecordRefused(r)
             \/ ListState(r) \/ Recall(r) \/ RecallRefused(r) \/ Save(r) \/ SaveRefused(r)
             \/ GiveUp(r) \/ PutObject(r) \/ PutAnswerLost(r) \/ NoArchive(r) \/ Attach(r)
             \/ AttachAnswerLost(r)
    BY <2>3 DEF OpenRefused, RefuseSession, Authorize, AuthorizeSession, AuthorizeRefused,
       RecordRefused, ListState, Recall, RecallRefused, Save, SaveReceipt, SaveRefused, GiveUp,
       PutObject, PutAnswerLost, NoArchive, Attach, AttachAnswerLost, AttachReceiptArchive,
       storeVars
  <2> QED
    BY <1>3, <2>1, <2>2, <2>3 DEF Step, Records
<1>4. CASE Environment
  BY <1>1, <1>4 DEF Environment, Tick, Reap, StoreTypeOK
<1>5. CASE Rest \/ UNCHANGED vars
  BY <1>5 DEF Rest, vars
<1> QED
  BY <1>2, <1>3, <1>4, <1>5 DEF Next

\* A memory that is recorded was owed by the session's creation, or waited for.
LEMMA AdditionIsPaid ==
    ASSUME Paid, [Next]_vars, NEW r \in Request, NEW t \in Tenant, call[r].tenant = t, Records(r)
    PROVE  /\ Exists(t)
           /\ Len(memories'[t]) = Len(memories[t]) + 1
           /\ sessions'[t].uses = sessions[t].uses
           /\ Waiting(t)' \subseteq Waiting(t)
           /\ \/ Owed(t)' < Owed(t)
              \/ r \in Waiting(t) /\ r \notin Waiting(t)'
<1>1. TypeInv /\ StoreTypeOK /\ Owned
  BY DEF Paid, Owned, TypeInv, TypeOK
<1>2. AddMemory(t, call[r].draft) /\ call[r].draft \in MemoryCreate
  BY <1>1 DEF Records, RecordPermission, RecordAudience, Record, RecordAnswerLost,
     TypeInv, ArgumentsOK
<1>3. Exists(t) /\ Len(memories'[t]) = Len(memories[t]) + 1
  <2>1. PICK d \in MemoryCreate : AddMemory(t, d)
    BY <1>2
  <2> QED
    BY <1>1, <2>1, AddedMemories DEF AddMemory, AddAccepted
<1>4. sessions'[t].uses = sessions[t].uses
  <2>1. PICK d \in {call[r].draft} : AddMemory(t, d)
    BY <1>2
  <2> QED
    BY <1>1, <1>3, <2>1, AdditionKeepsSession
<1>5. pc \in [Request -> {"idle"} \cup Underway \cup Ended]
  BY <1>1 DEF TypeInv, TypeOK
<1>6. \A s \in Request : ~ Authorize(s)
  <2>1. ASSUME NEW s \in Request, Authorize(s) PROVE FALSE
    <3>1. memories' = memories
      BY <2>1 DEF Authorize, AuthorizeSession
    <3>2. Len(memories[t]) \in Nat
      BY <1>1, LenProperties DEF StoreTypeOK
    <3> QED
      BY <1>3, <3>1, <3>2
  <2> QED
    BY <2>1
<1>7. Waiting(t)' \subseteq Waiting(t)
  <2>1. Waiting(t)' \subseteq Request
    BY DEF Waiting, Admitted
  <2> QED
    BY <1>6, <2>1, NewlyWaiting
<1>8. call[r] # None /\ call'[r].op = call[r].op /\ call'[r].tenant = t
  BY <1>1, CallsStay DEF Records, RecordPermission, RecordAudience, Record, RecordAnswerLost,
     TypeInv, ArgumentsOK
<1>9. \A s \in Request : s # r => pc'[s] = pc[s]
  BY <1>5 DEF Records, RecordPermission, RecordAudience, Record, RecordAnswerLost, Fail, Goto
<1>10. CASE pc[r] = "record"
  <2>1. pc'[r] \in {"done", "failed"}
    BY <1>5, <1>10
    DEF Records, RecordPermission, RecordAudience, Record, RecordAnswerLost, Fail, Goto
  <2>2. call[r].op = "add"
    BY <1>10 DEF Paid, OperationsFit
  <2> QED
    BY <1>3, <1>4, <1>7, <1>8, <1>10, <2>1, <2>2 DEF Waiting, Admitted
<1>11. CASE pc[r] \in {"grant", "context"}
  <2>1. Creating(r, t)
    BY <1>1, <1>8, <1>11 DEF Owned, CreatorsCreate, Creating
  <2>2. \A s \in Request : Creating(s, t) => s = r
    BY <2>1 DEF Paid, CreatorUnique
  <2>3. \A s \in Request : Creating(s, t)' => s = r
    <3>1. Creating(r, t)'
      BY <1>8, <2>1, <1>1, CallsStay DEF Creating
    <3> QED
      BY <1>1, <3>1, CreatorsStayUnique DEF Paid, CreatorUnique
  <2>4. \/ pc[r] = "grant" /\ pc'[r] \in {"context", "failed"}
        \/ pc[r] = "context" /\ pc'[r] \in {"done", "failed"}
    BY <1>5, <1>11
    DEF Records, RecordPermission, RecordAudience, Record, RecordAnswerLost, Fail, Goto
  <2>5. Owed(t)' < Owed(t)
    BY <2>1, <2>2, <2>3, <2>4 DEF Owed
  <2> QED
    BY <1>3, <1>4, <1>7, <2>5
<1> QED
  BY <1>10, <1>11 DEF Records, RecordPermission, RecordAudience, Record, RecordAnswerLost

\* A use that is taken is waited for by one request at most.
LEMMA UseMoves ==
    ASSUME NEW held \in Int, NEW owed \in Int, NEW left \in Int, NEW waiting \in Int,
           NEW held2 \in Int, NEW owed2 \in Int, NEW left2 \in Int, NEW waiting2 \in Int,
           NEW limit \in Int,
           held + owed + left + waiting <= limit,
           held2 <= held, owed2 <= owed, left2 + waiting2 <= left + waiting
    PROVE  held2 + owed2 + left2 + waiting2 <= limit
OBVIOUS

\* The count keeps within what the budget and the creation pay for.
LEMMA MemoriesStayPaid ==
    ASSUME Paid, [Next]_vars
    PROVE  MemoriesPaid'
<1>1. TypeInv /\ StoreTypeOK /\ Owned /\ StoreTypeOK'
  BY NextType DEF Paid, Owned, TypeInv, TypeOK
<1>2. SUFFICES ASSUME NEW t \in Tenant, Exists(t)'
               PROVE  Len(memories'[t]) + Owed(t)' + sessions'[t].uses + Cardinality(Waiting(t)')
                        <= UseLimit + 2
  BY DEF MemoriesPaid
<1> DEFINE old == Waiting(t)
           new == Waiting(t)'
           len == Len(memories[t])
           uses == sessions[t].uses
<1>3. UseLimit \in Nat /\ len \in Nat
  BY <1>1, ServiceAssumption, LenProperties DEF StoreTypeOK
<1>4. IsFiniteSet(old) /\ Cardinality(old) \in Nat
  <2>1. old \in SUBSET Admitted(t) /\ IsFiniteSet(Admitted(t))
    BY DEF Waiting, Paid, Owned, BudgetKept
  <2> HIDE DEF old
  <2>2. IsFiniteSet(old)
    BY <2>1, FS_Subset
  <2> QED
    BY <2>2, FS_CardinalityType
<1>5. Exists(t) => uses \in Nat /\ len + Owed(t) + uses + Cardinality(old) <= UseLimit + 2
  BY <1>1, SessionIfExists DEF Session, Paid, MemoriesPaid
<1>6. Owed(t) \in 0 .. 2 /\ Owed(t)' \in 0 .. 2
  BY OwedShrinks
<1>7. new \subseteq Request
  BY DEF Waiting, Admitted
<1>8. ASSUME new \subseteq old
      PROVE  IsFiniteSet(new) /\ Cardinality(new) \in Nat /\ Cardinality(new) <= Cardinality(old)
  <2> HIDE DEF old, new
  <2>1. new \in SUBSET old
    BY <1>8
  <2>2. IsFiniteSet(new) /\ Cardinality(new) <= Cardinality(old)
    BY <1>4, <2>1, FS_Subset
  <2> QED
    BY <2>2, FS_CardinalityType
<1>9. CASE \E r \in Request : OpenSession(r) /\ call[r].tenant = t
  <2>1. PICK r \in Request : OpenSession(r) /\ call[r].tenant = t
    BY <1>9
  <2>2. \A s \in Request : ~ Authorize(s)
    <3>1. memories' = [memories EXCEPT ![t] = <<>>] /\ hourly' # hourly
      BY <1>1, <2>1 DEF OpenSession, CreateSession, CountAttempt, StoreTypeOK, Window, Windows
    <3> QED
      BY <3>1 DEF Authorize, AuthorizeSession
  <2>3. old = {}
    <3>1. ASSUME NEW s \in old PROVE FALSE
      <4>1. s \in Request /\ call[s] # None /\ call[s].tenant = t /\ pc[s] # "open"
        BY <3>1 DEF Waiting, Admitted
      <4> QED
        BY <2>1, <4>1 DEF OpenSession, Owned, Paid, TenantsFresh
    <3> QED
      BY <3>1
  <2>4. new = {}
    BY <1>7, <2>2, <2>3, NewlyWaiting
  <2>5. memories'[t] = <<>> /\ sessions'[t].uses = UseLimit
    BY <1>1, <2>1 DEF OpenSession, CreateSession, StoreTypeOK
  <2>6. Len(memories'[t]) = 0
    BY <2>5
  <2> HIDE DEF old, new
  <2>7. Cardinality(new) = 0
    <3>1. Cardinality({}) = 0
      BY FS_EmptySet
    <3> QED
      BY <2>4, <3>1
  <2>8. Len(memories'[t]) + Owed(t)' + sessions'[t].uses + Cardinality(new) <= UseLimit + 2
    BY <1>3, <1>6, <2>5, <2>6, <2>7
  <2> QED
    BY <2>8 DEF new
<1>10. CASE /\ ~ \E r \in Request : OpenSession(r) /\ call[r].tenant = t
            /\ \E r \in Request : Records(r) /\ call[r].tenant = t
  <2>1. PICK r \in Request : Records(r) /\ call[r].tenant = t
    BY <1>10
  <2>2. /\ Exists(t)
        /\ Len(memories'[t]) = len + 1
        /\ sessions'[t].uses = uses
        /\ new \subseteq old
        /\ Owed(t)' < Owed(t) \/ (r \in old /\ r \notin new)
    BY <2>1, AdditionIsPaid
  <2>3. Owed(t)' <= Owed(t)
    BY <1>10, OwedShrinks
  <2> HIDE DEF old, new, len, uses
  <2>4. ASSUME r \in old, r \notin new PROVE Cardinality(new) <= Cardinality(old) - 1
    <3>1. new \in SUBSET (old \ {r})
      BY <2>2, <2>4
    <3>2. IsFiniteSet(old \ {r}) /\ Cardinality(old \ {r}) = Cardinality(old) - 1
      BY <1>4, <2>4, FS_RemoveElement
    <3> QED
      BY <3>1, <3>2, FS_Subset
  <2>5. Len(memories'[t]) + Owed(t)' + sessions'[t].uses + Cardinality(new) <= UseLimit + 2
    BY <1>3, <1>4, <1>5, <1>6, <1>8, <2>2, <2>3, <2>4
  <2> QED
    BY <2>5 DEF new
<1>11. CASE /\ ~ \E r \in Request : OpenSession(r) /\ call[r].tenant = t
            /\ ~ \E r \in Request : Records(r) /\ call[r].tenant = t
  <2>1. Len(memories'[t]) \in Nat /\ Len(memories'[t]) <= len
    <3>1. memories'[t] = memories[t] \/ memories'[t] = <<>>
      BY <1>1, <1>11, OnlyAdditionsGrow
    <3> QED
      BY <1>3, <3>1
  <2>2. Owed(t)' <= Owed(t)
    BY <1>11, OwedShrinks
  <2>3. CASE \E r \in Request : Authorize(r) /\ call[r].tenant = t
    <3>1. PICK r \in Request : Authorize(r) /\ call[r].tenant = t
      BY <2>3
    <3>2. new \subseteq old \cup {r}
      BY <1>1, <1>7, <3>1, NewlyWaiting, OneAuthorization
    <3>3. Exists(t) /\ sessions'[t].uses = uses - 1
      <4>1. Exists(t) /\ sessions' = [sessions EXCEPT ![t].uses = @ - 1]
        BY <3>1 DEF Authorize, AuthorizeSession, Authorized
      <4>2. sessions[t] \in Session
        BY <1>1, <4>1, SessionIfExists
      <4> QED
        BY <1>1, <4>1, <4>2 DEF StoreTypeOK, Session
    <3> HIDE DEF old, new, len, uses
    <3>4. Cardinality(new) \in Nat /\ Cardinality(new) <= Cardinality(old) + 1
      <4>1. /\ IsFiniteSet(old \cup {r})
            /\ Cardinality(old \cup {r}) = IF r \in old THEN Cardinality(old) ELSE Cardinality(old) + 1
        BY <1>4, FS_AddElement
      <4>2. new \in SUBSET (old \cup {r})
        BY <3>2
      <4>3. IsFiniteSet(new) /\ Cardinality(new) <= Cardinality(old \cup {r})
        BY <4>1, <4>2, FS_Subset
      <4>4. Cardinality(new) \in Nat
        BY <4>3, FS_CardinalityType
      <4> QED
        BY <1>4, <4>1, <4>3, <4>4
    <3>5. uses \in Nat /\ len + Owed(t) + uses + Cardinality(old) <= UseLimit + 2
      BY <1>5, <3>3
    <3>6. sessions'[t].uses \in Int /\ sessions'[t].uses + Cardinality(new) <= uses + Cardinality(old)
      BY <1>4, <3>3, <3>4, <3>5
    <3>7. /\ len \in Int /\ Owed(t) \in Int /\ uses \in Int /\ Cardinality(old) \in Int
          /\ Len(memories'[t]) \in Int /\ Owed(t)' \in Int /\ Cardinality(new) \in Int
          /\ UseLimit + 2 \in Int
      BY <1>3, <1>4, <1>6, <2>1, <3>4, <3>5
    <3>8. Len(memories'[t]) + Owed(t)' + sessions'[t].uses + Cardinality(new) <= UseLimit + 2
      BY <2>1, <2>2, <3>5, <3>6, <3>7, UseMoves
    <3> QED
      BY <3>8 DEF new
  <2>4. CASE ~ \E r \in Request : Authorize(r) /\ call[r].tenant = t
    <3>1. new \subseteq old
      BY <1>7, <2>4, NewlyWaiting
    <3>2. Exists(t) /\ sessions'[t].uses = uses
      BY <1>1, <1>2, <1>11, <2>4, SessionsEffect DEF SessionEffect, Exists
    <3> HIDE DEF old, new, len, uses
    <3>3. /\ uses \in Nat /\ len + Owed(t) + uses + Cardinality(old) <= UseLimit + 2
          /\ Cardinality(new) \in Nat /\ Cardinality(new) <= Cardinality(old)
      BY <1>5, <1>8, <3>1, <3>2
    <3>4. sessions'[t].uses \in Int /\ sessions'[t].uses + Cardinality(new) <= uses + Cardinality(old)
      BY <1>4, <3>2, <3>3
    <3>5. /\ len \in Int /\ Owed(t) \in Int /\ uses \in Int /\ Cardinality(old) \in Int
          /\ Len(memories'[t]) \in Int /\ Owed(t)' \in Int /\ Cardinality(new) \in Int
          /\ UseLimit + 2 \in Int
      BY <1>3, <1>4, <1>6, <2>1, <3>3
    <3>6. Len(memories'[t]) + Owed(t)' + sessions'[t].uses + Cardinality(new) <= UseLimit + 2
      BY <2>1, <2>2, <3>3, <3>4, <3>5, UseMoves
    <3> QED
      BY <3>6 DEF new
  <2> QED
    BY <2>3, <2>4
<1> QED
  BY <1>9, <1>10, <1>11

-----------------------------------------------------------------------------
(* The invariant *)

LEMMA InitPaid == Init => Paid
<1> SUFFICES ASSUME Init PROVE Paid
  OBVIOUS
<1>1. Inv /\ Owned
  BY InitType, InitFresh, InitViews, InitOwned DEF Inv, TypeInv
<1>2. CreatorUnique /\ OperationsFit /\ MemoriesPaid
  BY DEF Init, StoreInit, CreatorUnique, Creating, OperationsFit, MemoriesPaid, Exists
<1> QED
  BY <1>1, <1>2 DEF Paid

\* What a session holds is what its creation and its budget have paid for.
THEOREM PaidCorrect == Spec => []Paid
<1>1. Paid /\ [Next]_vars => Paid'
  <2> SUFFICES ASSUME Paid, [Next]_vars PROVE Paid'
    OBVIOUS
  <2>1. Inv'
    BY NextType, NextFresh, NextViews DEF Paid, Inv, TypeInv
  <2>2. Owned' /\ CreatorUnique'
    BY NextOwned, CreatorsStayUnique DEF Paid, Owned
  <2>3. OperationsFit'
    BY OperationsStayFit DEF Paid, Owned
  <2> QED
    BY <2>1, <2>2, <2>3, MemoriesStayPaid DEF Paid
<1> QED
  BY <1>1, InitPaid, PTL DEF Spec

-----------------------------------------------------------------------------
(* Denials *)

\* Above a memory in force there are at most all the others.
LEMMA OthersAbove ==
    ASSUME NEW ms \in Seq(Memory), NEW q \in Query, NEW at, NEW i \in InForce(ms, at),
           NEW above, above = {j \in InForce(ms, at) : RanksAbove(ms, q, j, i)}
    PROVE  Cardinality(above) \in Nat /\ Cardinality(above) <= Len(ms) - 1
<1> DEFINE all == 1 .. Len(ms)
<1>1. i \in all /\ Len(ms) \in Nat
  BY LenProperties DEF InForce
<1>2. ms[i] \in Memory
  BY <1>1, ElementOfSeq
<1>3. ~ RanksAbove(ms, q, i, i)
  BY <1>1, <1>2, ScoreAssumption DEF RanksAbove, Memory, Time
<1>4. above \in SUBSET (all \ {i})
  BY <1>3, LenProperties DEF InForce
<1>5. IsFiniteSet(all) /\ Cardinality(all) = Len(ms)
  <2>1. 1 \in Int /\ Len(ms) \in Int
    BY <1>1
  <2>2. /\ IsFiniteSet(1 .. Len(ms))
        /\ Cardinality(1 .. Len(ms)) = IF 1 > Len(ms) THEN 0 ELSE Len(ms) - 1 + 1
    BY <2>1, FS_Interval
  <2> QED
    BY <1>1, <2>2
<1> HIDE DEF all
<1>6. IsFiniteSet(all \ {i}) /\ Cardinality(all \ {i}) = Len(ms) - 1
  BY <1>1, <1>5, FS_RemoveElement
<1>7. IsFiniteSet(above) /\ Cardinality(above) <= Len(ms) - 1
  BY <1>4, <1>6, FS_Subset
<1> QED
  BY <1>7, FS_CardinalityType

\* When a receipt is saved, the session's uses have paid for its memories: all but
\* the first two, and the evaluation itself.
LEMMA SavedLedgerFits ==
    ASSUME Paid, NEW r \in Request, Save(r)
    PROVE  /\ call[r].tenant \in Tenant /\ call[r].query \in Query
           /\ sessions[call[r].tenant].uses \in Nat
           /\ Len(memories[call[r].tenant]) + sessions[call[r].tenant].uses <= UseLimit + 1
<1> DEFINE t == call[r].tenant
           n == Cardinality(Waiting(t))
<1>1. TypeInv /\ StoreTypeOK /\ pc[r] = "save"
  BY DEF Paid, Owned, TypeInv, TypeOK, Save
<1>2. call[r] \in Call /\ call[r].query \in Query /\ call[r] # None
  BY <1>1, CallOf, AbsentAssumption DEF TypeInv, ArgumentsOK
<1>3. t \in Tenant /\ Exists(t)
  BY <1>2 DEF Call, Save, SaveReceipt, SaveAccepted, BuildReceipt
<1>4. r \in Waiting(t)
  BY <1>1, <1>2 DEF Waiting, Admitted, Paid, OperationsFit
<1>5. n \in Nat /\ n >= 1
  <2>1. Waiting(t) \in SUBSET Admitted(t) /\ IsFiniteSet(Admitted(t))
    BY <1>3 DEF Waiting, Paid, Owned, BudgetKept
  <2>2. IsFiniteSet(Waiting(t))
    BY <2>1, FS_Subset
  <2>3. n \in Nat
    BY <2>2, FS_CardinalityType
  <2>4. n # 0
    BY <1>4, <2>2, FS_EmptySet
  <2> QED
    BY <2>3, <2>4
<1>6. Owed(t) \in 0 .. 2
  BY DEF Owed
<1>7. sessions[t].uses \in Nat /\ Len(memories[t]) \in Nat
  BY <1>1, <1>3, SessionIfExists, LenProperties DEF StoreTypeOK, Session
<1>8. Len(memories[t]) + Owed(t) + sessions[t].uses + n <= UseLimit + 2
  BY <1>3 DEF Paid, MemoriesPaid
<1>9. Len(memories[t]) + sessions[t].uses <= UseLimit + 1
  <2>1. UseLimit \in Nat
    BY ServiceAssumption
  <2> HIDE DEF n, t
  <2> QED
    BY <1>5, <1>6, <1>7, <1>8, <2>1
<1> QED
  BY <1>2, <1>3, <1>7, <1>9

\* The receipt a step adds is the one the request that saves has built.
LEMMA SavedIsOwn ==
    ASSUME TypeInv, NEW r \in Request, Save(r), NEW t \in Tenant, Commits(t)
    PROVE  t = call[r].tenant /\ Committed(t).query = call[r].query
<1> DEFINE u == call[r].tenant
           made == BuildReceipt(r)
<1>1. StoreTypeOK
  BY DEF TypeInv, TypeOK
<1>2. made.query = call[r].query
  BY DEF BuildReceipt
<1>3. receipts' = [receipts EXCEPT ![u] = Append(receipts[u], made)]
  BY DEF Save, SaveReceipt, BuildReceipt
<1> HIDE DEF made
<1>4. receipts[t] \in Seq(ActionReceipt) /\ Len(receipts[t]) \in Nat
  BY <1>1, LenProperties DEF StoreTypeOK
<1>5. t = u
  <2>1. t # u => receipts'[t] = receipts[t]
    BY <1>1, <1>3 DEF StoreTypeOK
  <2> QED
    BY <1>4, <2>1 DEF Commits
<1>6. receipts'[t] = Append(receipts[t], made)
  BY <1>1, <1>3, <1>5 DEF StoreTypeOK
<1>7. Committed(t) = made
  BY <1>4, <1>6 DEF Committed
<1> QED
  BY <1>2, <1>5, <1>7

\* What is saved over a denial: the denial was left out of the recall by memories
\* that are closer, and uses have been spent on recording them.
LEMMA SavedOverFarther ==
    ASSUME Paid, Next
    PROVE  CommittedOverFartherDenials
<1> SUFFICES ASSUME NEW t \in Tenant, Commits(t), Committed(t).decision # "deny",
                    NEW i \in RelevantDenials(t, Committed(t).query)
             PROVE  /\ Cardinality(Nearer(t, Committed(t).query, i)) >= RecallLimit
                    /\ UseLimit - sessions[t].uses >= RecallLimit
  BY DEF CommittedOverFartherDenials
<1> DEFINE q == Committed(t).query
           above == Nearer(t, q, i)
<1>1. TypeInv /\ StoreTypeOK /\ Inv
  BY DEF Paid, Owned, TypeInv, TypeOK
<1>2. PICK r \in Request : Save(r)
  BY <1>1, OnlySaveCommits
<1>3. /\ Committed(t).evidence = Evidence(memories[t], q, now)
      /\ Committed(t).decision = Decide(memories[t], Committed(t).evidence)
  BY <1>1, <1>2, SaveIsCurrent
<1>4. t = call[r].tenant /\ q = call[r].query
  BY <1>1, <1>2, SavedIsOwn
<1>5. /\ q \in Query
      /\ sessions[t].uses \in Nat
      /\ Len(memories[t]) + sessions[t].uses <= UseLimit + 1
  BY <1>2, <1>4, SavedLedgerFits
<1>6. memories[t] \in Seq(Memory) /\ Len(memories[t]) \in Nat
  BY <1>1, LenProperties DEF StoreTypeOK
<1>7. /\ i \in InForce(memories[t], now)
      /\ memories[t][i].effect = "deny" /\ IsRelevant(memories[t][i], q)
  BY DEF RelevantDenials
<1>8. above = {j \in InForce(memories[t], now) : RanksAbove(memories[t], q, j, i)}
  BY DEF Nearer
<1> HIDE DEF q, above
<1>9. i \notin Recalled(memories[t], q, now)
  BY <1>3, <1>7 DEF Evidence, Decide
<1>10. ~ (Cardinality(above) < RecallLimit)
  BY <1>7, <1>8, <1>9 DEF Recalled
<1>11. Cardinality(above) \in Nat /\ Cardinality(above) <= Len(memories[t]) - 1
  BY <1>5, <1>6, <1>7, <1>8, OthersAbove
<1>12. Cardinality(above) >= RecallLimit /\ UseLimit - sessions[t].uses >= RecallLimit
  BY <1>5, <1>6, <1>10, <1>11, ServiceAssumption, LimitAssumption
<1> QED
  BY <1>12 DEF above, q

\* A denial that is relevant and in force when another decision is recorded has at
\* least RecallLimit memories in force above it, and the session has spent at least
\* that many uses: with eight memories to a recall any relevant denial wins in a
\* session until eight of its uses are spent, whatever its budget, its memories and
\* the requests that interleave (evaluate_action's limit of 8, _decide).
THEOREM DenialWins == Spec => DenialYieldsOnlyToNearer
<1>1. Paid /\ [Next]_vars => [CommittedOverFartherDenials]_vars
  BY SavedOverFarther
<1> QED
  BY <1>1, PaidCorrect, PTL DEF Spec, DenialYieldsOnlyToNearer

-----------------------------------------------------------------------------
(* Whole sessions *)

CreatorsAt ==
    \A c \in Request : call[c] # None /\ call[c].op = "create" =>
        pc[c] \in {"open", "grant", "context", "done", "failed"}

\* A client that asks for a tenant was answered with its session.
ClientsServed ==
    \A r \in Request : call[r] # None /\ call[r].op # "create" =>
        \E c \in Request : Creating(c, call[r].tenant) /\ pc[c] = "done"

\* What t's session holds at each call of the request c that makes it.
MadeSoFar(c, t) ==
    /\ MadeInOrder(t)
    /\ pc[c] = "grant" =>
        /\ Len(memories[t]) = 0
        /\ call[c].draft.effect = "allow" /\ call[c].draft.until = sessions[t].expires
    /\ pc[c] = "context" => Len(memories[t]) = 1 /\ call[c].draft.effect = "context"
    /\ pc[c] = "failed" => Len(memories[t]) <= 2
    /\ pc[c] = "done" => Len(memories[t]) >= 2
    /\ pc[c] # "done" => receipts[t] = <<>> /\ sessions[t].uses = UseLimit

SessionsMade ==
    \A t \in Tenant : \A c \in Request : Creating(c, t) /\ Exists(t) => MadeSoFar(c, t)

Whole ==
    /\ LedgerInv
    /\ Owned
    /\ CreatorUnique
    /\ CreatorsAt
    /\ ClientsServed
    /\ SessionsMade

LEMMA CreatorsStayAt ==
    ASSUME Whole, [Next]_vars
    PROVE  CreatorsAt'
<1>1. TypeInv /\ TypeInv'
  BY NextType DEF Whole, Owned
<1>2. \A s \in Request : call[s] # None => call'[s].op = call[s].op
  BY <1>1, CallsStay
<1>3. ASSUME NEW r \in Request, Receive(r) PROVE CreatorsAt'
  <2>1. pc'[r] = "open" \/ (pc'[r] = "authorize" /\ call'[r].op # "create")
    BY <1>1, <1>3, ArrivalEffect DEF TypeInv, ArgumentsOK
  <2>2. \A s \in Request : s # r => pc'[s] = pc[s] /\ call'[s] = call[s]
    BY <1>1, <1>3, ArrivalEffect
  <2> QED
    BY <2>1, <2>2 DEF Whole, CreatorsAt
<1>4. ASSUME NEW r \in Request, Moves(r), Step(r) \/ Abort(r) PROVE CreatorsAt'
  <2>1. CallsKept
    BY <1>1, <1>4, StepKeepsCalls
  <2>2. pc[r] # "authorize" /\ pc[r] # "save" =>
            (pc[r] \in {"open", "grant", "context", "done", "failed"} =>
                pc'[r] \in {"open", "grant", "context", "done", "failed"})
    BY <1>4 DEF Moves, Authorize, Save
  <2> QED
    BY <1>4, <2>1, <2>2 DEF Moves, CallsKept, Whole, CreatorsAt
<1>5. CASE UNCHANGED serviceVars
  BY <1>5 DEF serviceVars, Whole, CreatorsAt
<1> QED
  BY <1>1, <1>3, <1>4, <1>5, WhoMoves

\* A request that is done stays done.
LEMMA DoneStays ==
    ASSUME TypeInv, [Next]_vars, NEW c \in Request, pc[c] = "done"
    PROVE  pc'[c] = "done"
<1>1. ASSUME NEW r \in Request, Receive(r) PROVE pc'[c] = "done"
  BY <1>1, ArrivalEffect
<1>2. ASSUME NEW r \in Request, Moves(r) PROVE pc'[c] = "done"
  BY <1>2 DEF Moves, Underway
<1>3. CASE UNCHANGED serviceVars
  BY <1>3 DEF serviceVars
<1> QED
  BY <1>1, <1>2, <1>3, WhoMoves

LEMMA ClientsStayServed ==
    ASSUME Whole, [Next]_vars
    PROVE  ClientsServed'
<1>1. TypeInv
  BY DEF Whole, Owned
<1>2. ASSUME NEW c \in Request, NEW t \in Tenant, Creating(c, t), pc[c] = "done"
      PROVE  Creating(c, t)' /\ pc'[c] = "done"
  BY <1>1, <1>2, DoneStays, CallsStay DEF Creating
<1>3. ASSUME NEW s \in Request, call'[s] # None, call'[s].op # "create"
      PROVE  \E c \in Request : \E t \in Tenant :
                t = call'[s].tenant /\ Creating(c, t) /\ pc[c] = "done"
  <2>1. CASE call[s] # None
    <3>1. call'[s].op = call[s].op /\ call'[s].tenant = call[s].tenant
      BY <1>1, <2>1, CallsStay
    <3>2. call[s].tenant \in Tenant
      BY <1>1, <2>1 DEF TypeInv, TypeOK, Call
    <3> QED
      BY <1>3, <2>1, <3>1, <3>2 DEF Whole, ClientsServed
  <2>2. CASE call[s] = None
    <3>1. ASSUME NEW r \in Request, Moves(r), Step(r) \/ Abort(r) PROVE FALSE
      <4>1. CallsKept
        BY <1>1, <3>1, StepKeepsCalls
      <4> QED
        BY <1>3, <2>2, <4>1 DEF CallsKept
    <3>2. ~ UNCHANGED serviceVars
      BY <1>3, <2>2 DEF serviceVars
    <3>3. PICK r \in Request : Receive(r)
      BY <1>1, <3>1, <3>2, WhoMoves
    <3>4. r = s
      BY <1>1, <1>3, <2>2, <3>3, ArrivalEffect
    <3>5. ~ ReceiveCreate(s)
      BY <1>1, <1>3 DEF ReceiveCreate, Arrive, TypeInv, TypeOK
    <3>6. call'[s].tenant \in Issued
      BY <1>1, <3>3, <3>4, <3>5
      DEF Receive, ReceiveAdd, ReceiveState, ReceiveEvaluate, Arrive, TypeInv, TypeOK
    <3>7. PICK c \in Request :
              pc[c] = "done" /\ call[c].op = "create" /\ call[c].tenant = call'[s].tenant
      BY <3>6 DEF Issued
    <3>8. call[c] # None
      BY <1>1, <3>7 DEF TypeInv, ArgumentsOK
    <3> QED
      BY <3>6, <3>7, <3>8 DEF Issued, Creating
  <2> QED
    BY <2>1, <2>2
<1>4. ASSUME NEW s \in Request, call'[s] # None, call'[s].op # "create"
      PROVE  \E c \in Request : /\ call'[c] # None /\ call'[c].op = "create"
                                /\ call'[c].tenant = call'[s].tenant /\ pc'[c] = "done"
  BY <1>2, <1>3, <1>4 DEF Creating
<1> QED
  BY <1>4 DEF ClientsServed, Creating

-----------------------------------------------------------------------------
(* What a session gains *)

\* A step leaves a lasting session its expiry and what its memories say, but for
\* their status.
LEMMA LedgerStep ==
    ASSUME LedgerInv, [Next]_vars, NEW t \in Tenant, Exists(t), Exists(t)'
    PROVE  /\ sessions'[t].expires = sessions[t].expires
           /\ Len(memories[t]) \in Nat /\ Len(memories'[t]) \in Nat
           /\ Len(memories[t]) <= Len(memories'[t])
           /\ \A i \in 1 .. Len(memories[t]) :
                 /\ memories'[t][i].effect = memories[t][i].effect
                 /\ memories'[t][i].until = memories[t][i].until
<1> DEFINE Lasts ==
        /\ sessions'[t].expires = sessions[t].expires
        /\ Len(memories[t]) \in Nat /\ Len(memories'[t]) \in Nat
        /\ Len(memories[t]) <= Len(memories'[t])
        /\ \A i \in 1 .. Len(memories[t]) :
              /\ memories'[t][i].effect = memories[t][i].effect
              /\ memories'[t][i].until = memories[t][i].until
<1>1. TypeInv /\ StoreTypeOK
  BY DEF LedgerInv, Inv, TypeInv, TypeOK
<1>2. Len(memories[t]) \in Nat
  BY <1>1, LenProperties DEF StoreTypeOK
<1>3. ASSUME sessions'[t].expires = sessions[t].expires, memories'[t] = memories[t] PROVE Lasts
  BY <1>2, <1>3
<1>4. ASSUME NEW r \in Request, Receive(r) \/ Abort(r) PROVE Lasts
  BY <1>1, <1>3, <1>4, ArrivalEffect DEF Abort, storeVars
<1>5. ASSUME NEW r \in Request, Step(r) PROVE Lasts
  <2>1. CASE OpenSession(r)
    <3>1. t # call[r].tenant
      BY <2>1, OpensNew DEF OpenSession
    <3> QED
      BY <1>1, <1>3, <2>1, <3>1 DEF OpenSession, CreateSession, StoreTypeOK
  <2>2. CASE Records(r)
    <3>1. /\ AddMemory(call[r].tenant, call[r].draft) /\ call[r].draft \in MemoryCreate
          /\ call[r].tenant \in Tenant
      BY <1>1, <2>2, CallOf DEF Records, RecordPermission, RecordAudience, Record,
         RecordAnswerLost, TypeInv, ArgumentsOK, Call
    <3>2. PICK u \in Tenant, d \in MemoryCreate : AddMemory(u, d)
      BY <3>1
    <3>3. CASE u # t
      BY <1>1, <1>3, <3>2, <3>3 DEF AddMemory, StoreTypeOK
    <3>4. CASE u = t
      <4>1. sessions[t] \in Session
        BY <1>1, SessionIfExists
      <4>2. sessions'[t].expires = sessions[t].expires
        BY <1>1, <3>2, <3>4, <4>1 DEF AddMemory, StoreTypeOK, Session
      <4>3. /\ Len(memories'[t]) = Len(memories[t]) + 1
            /\ \A i \in 1 .. Len(memories[t]) :
                  \/ memories'[t][i] = memories[t][i]
                  \/ memories'[t][i] = [memories[t][i] EXCEPT !.status = "superseded"]
        BY <1>1, <3>2, <3>4, AddedMemories, RowsAdded
      <4>4. \A i \in 1 .. Len(memories[t]) : memories[t][i] \in Memory
        BY <1>1, ElementOfSeq DEF StoreTypeOK
      <4>5. \A i \in 1 .. Len(memories[t]) :
                /\ memories'[t][i].effect = memories[t][i].effect
                /\ memories'[t][i].until = memories[t][i].until
        BY <4>3, <4>4 DEF Memory
      <4> QED
        BY <1>2, <4>2, <4>3, <4>5
    <3> QED
      BY <3>3, <3>4
  <2>3. CASE Authorize(r)
    <3>1. /\ sessions' = [sessions EXCEPT ![call[r].tenant].uses = @ - 1]
          /\ memories' = memories
      BY <2>3 DEF Authorize, AuthorizeSession
    <3>2. sessions[t] \in Session
      BY <1>1, SessionIfExists
    <3>3. sessions'[t].expires = sessions[t].expires
      BY <1>1, <3>1, <3>2 DEF StoreTypeOK, Session
    <3> QED
      BY <1>3, <3>1, <3>3
  <2>4. CASE \/ OpenRefused(r) \/ AuthorizeRefused(r) \/ RecordRefused(r) \/ ListState(r)
             \/ Recall(r) \/ RecallRefused(r) \/ Save(r) \/ SaveRefused(r) \/ GiveUp(r)
             \/ PutObject(r) \/ PutAnswerLost(r) \/ NoArchive(r) \/ Attach(r)
             \/ AttachAnswerLost(r)
    BY <1>3, <2>4 DEF OpenRefused, RefuseSession, AuthorizeRefused, RecordRefused, ListState,
       Recall, RecallRefused, Save, SaveReceipt, SaveRefused, GiveUp, PutObject, PutAnswerLost,
       NoArchive, Attach, AttachAnswerLost, AttachReceiptArchive, storeVars
  <2> QED
    BY <1>5, <2>1, <2>2, <2>3, <2>4 DEF Step, Records
<1>6. CASE Environment
  BY <1>1, <1>3, <1>6 DEF Environment, Tick, Reap, StoreTypeOK, Exists
<1>7. CASE Rest \/ UNCHANGED vars
  BY <1>3, <1>7 DEF Rest, vars
<1> QED
  BY <1>4, <1>5, <1>6, <1>7 DEF Next

\* Until a session's creation is answered nobody else acts on it.
LEMMA NobodyElseActs ==
    ASSUME Whole, [Next]_vars, NEW t \in Tenant, NEW c \in Request, Creating(c, t),
           pc[c] # "done", ~ Step(c), Exists(t)'
    PROVE  UNCHANGED TenantRows(t)
<1>1. TypeInv /\ StoreTypeOK /\ Owned
  BY DEF Whole, Owned, TypeInv, TypeOK
<1>2. ASSUME UNCHANGED storeVars PROVE UNCHANGED TenantRows(t)
  BY <1>2 DEF storeVars, TenantRows
<1>3. ASSUME NEW r \in Request, Receive(r) \/ Abort(r) PROVE UNCHANGED storeVars
  BY <1>1, <1>3, ArrivalEffect DEF Abort
<1>4. ASSUME NEW r \in Request, Step(r) PROVE UNCHANGED TenantRows(t)
  <2>1. call[r] # None
    BY <1>1, <1>4, StepMoves DEF Moves, TypeInv, ArgumentsOK, Underway
  <2>2. call[r].tenant # t
    <3>1. CASE call[r].op = "create"
      BY <1>4, <2>1, <3>1 DEF Whole, CreatorUnique, Creating
    <3>2. CASE call[r].op # "create"
      BY <2>1, <3>2 DEF Whole, ClientsServed, CreatorUnique
    <3> QED
      BY <3>1, <3>2
  <2> QED
    BY <1>1, <1>4, <2>2, StepsAreLocal
<1>5. CASE Environment
  BY <1>1, <1>5 DEF Environment, Tick, Reap, StoreTypeOK, TenantRows, Exists
<1>6. CASE Rest \/ UNCHANGED vars
  BY <1>2, <1>6 DEF Rest, vars, storeVars
<1> QED
  BY <1>2, <1>3, <1>4, <1>5, <1>6 DEF Next

LEMMA FewRows == \A n : n = 0 \/ n = 1 => n <= 2
OBVIOUS

\* A session is made as its creation goes on, call by call.
LEMMA CreationGoesOn ==
    ASSUME Whole, [Next]_vars, NEW t \in Tenant, NEW c \in Request, Creating(c, t),
           pc[c] # "done", Step(c), Exists(t)'
    PROVE  MadeSoFar(c, t)'
<1>1. TypeInv /\ TypeOK /\ StoreTypeOK /\ Owned /\ LedgerInv
  BY DEF Whole, Owned, TypeInv, TypeOK
<1>2. call[c].tenant = t /\ call[c].op = "create"
  BY DEF Creating
<1>3. call[c] \in Call
  BY <1>1 DEF Creating, TypeOK
<1>4. pc[c] \in {"open", "grant", "context", "failed"}
  BY DEF Whole, CreatorsAt, Creating
<1>5. Exists(t) => MadeSoFar(c, t)
  BY DEF Whole, SessionsMade
<1>6. CASE OpenSession(c)
  <2>1. /\ memories'[t] = <<>> /\ receipts'[t] = <<>>
        /\ sessions'[t] = [token |-> call[c].token, expires |-> call[c].draft.until,
                           uses |-> UseLimit, version |-> 0]
    BY <1>1, <1>2, <1>6 DEF OpenSession, CreateSession, StoreTypeOK
  <2>2. \/ /\ pc'[c] = "grant"
           /\ call'[c].draft = InitialPermission(call[c].draft.until)
        \/ pc'[c] = "failed"
    BY <1>1, <1>3, <1>6 DEF OpenSession, Goto, Fail, TypeOK, Call
  <2>3. Len(memories'[t]) = 0
    BY <2>1
  <2> QED
    BY <2>1, <2>2, <2>3 DEF MadeSoFar, MadeInOrder, InitialPermission
<1>7. CASE RecordPermission(c) \/ RecordAudience(c) \/ RecordAnswerLost(c)
  <2>1. PICK d \in MemoryCreate : d = call[c].draft
    BY <1>1, <1>7 DEF RecordPermission, RecordAudience, RecordAnswerLost, TypeInv, ArgumentsOK
  <2>2. AddMemory(t, d)
    BY <1>2, <1>7, <2>1 DEF RecordPermission, RecordAudience, RecordAnswerLost
  <2>3. Exists(t) /\ MadeSoFar(c, t)
    BY <1>5, <2>2 DEF AddMemory, AddAccepted
  <2> DEFINE n == Len(memories[t])
  <2>4. /\ n \in Nat /\ Len(memories'[t]) = n + 1
        /\ memories'[t][n + 1] = NewMemoryRecord(d)
    BY <1>1, <2>2, AddedMemories, RowsAdded
  <2>5. /\ sessions'[t].expires = sessions[t].expires
        /\ \A i \in 1 .. n : /\ memories'[t][i].effect = memories[t][i].effect
                             /\ memories'[t][i].until = memories[t][i].until
    BY <1>1, <2>3, LedgerStep
  <2>6. receipts'[t] = receipts[t] /\ sessions'[t].uses = sessions[t].uses
    BY <1>1, <2>2, <2>3, AdditionKeepsSession DEF AddMemory
  <2>7. NewMemoryRecord(d).effect = d.effect /\ NewMemoryRecord(d).until = d.until
    BY DEF NewMemoryRecord
  <2> HIDE DEF n
  <2>8. CASE pc[c] = "grant"
    <3>1. n = 0 /\ d.effect = "allow" /\ d.until = sessions[t].expires
      BY <2>1, <2>3, <2>8 DEF MadeSoFar, n
    <3>2. memories'[t][1] = NewMemoryRecord(d) /\ Len(memories'[t]) = 1
      BY <2>4, <3>1
    <3>3. MadeInOrder(t)'
      BY <2>5, <2>7, <3>1, <3>2 DEF MadeInOrder
    <3>4. \/ pc'[c] = "context" /\ call'[c].draft = AudienceFact
          \/ pc'[c] = "failed"
      BY <1>1, <1>3, <1>7, <2>8
      DEF RecordPermission, RecordAudience, RecordAnswerLost, Fail, Goto, TypeOK, Call
    <3> QED
      BY <2>3, <2>6, <2>8, <3>2, <3>3, <3>4, FewRows DEF MadeSoFar, AudienceFact
  <2>9. CASE pc[c] = "context"
    <3>1. n = 1 /\ d.effect = "context"
      BY <2>1, <2>3, <2>9 DEF MadeSoFar, n
    <3>2. memories'[t][2] = NewMemoryRecord(d) /\ Len(memories'[t]) = 2
      BY <2>4, <3>1
    <3>3. /\ memories'[t][1].effect = memories[t][1].effect
          /\ memories'[t][1].until = memories[t][1].until
      BY <2>5, <3>1
    <3>4. memories[t][1].effect = "allow" /\ memories[t][1].until = sessions[t].expires
      BY <2>3, <3>1 DEF MadeSoFar, MadeInOrder, n
    <3>5. MadeInOrder(t)'
      BY <2>5, <2>7, <3>1, <3>2, <3>3, <3>4 DEF MadeInOrder
    <3>6. pc'[c] \in {"done", "failed"}
      BY <1>1, <1>7, <2>9
      DEF RecordPermission, RecordAudience, RecordAnswerLost, Fail, Goto, TypeOK
    <3> QED
      BY <2>3, <2>6, <2>9, <3>2, <3>5, <3>6 DEF MadeSoFar
  <2> QED
    BY <1>4, <1>7, <2>8, <2>9 DEF RecordPermission, RecordAudience, RecordAnswerLost
<1>8. CASE OpenRefused(c) \/ RecordRefused(c)
  <2>1. UNCHANGED <<sessions, memories, receipts>> /\ pc'[c] = "failed"
    BY <1>1, <1>8 DEF OpenRefused, RefuseSession, RecordRefused, Fail, Goto, storeVars, TypeOK
  <2>2. Exists(t) /\ MadeSoFar(c, t)
    BY <1>5, <2>1 DEF Exists
  <2>3. pc[c] # "open"
    BY <1>1, <1>2, <2>2, OpensNew
  <2>4. Len(memories[t]) <= 2 /\ receipts[t] = <<>> /\ sessions[t].uses = UseLimit
    BY <1>4, <2>2, <2>3, FewRows DEF MadeSoFar
  <2> QED
    BY <2>1, <2>2, <2>4 DEF MadeSoFar, MadeInOrder
<1> QED
  BY <1>4, <1>6, <1>7, <1>8 DEF Step, Authorize, AuthorizeRefused, Record, ListState, Recall,
     RecallRefused, Save, SaveRefused, GiveUp, Refused, PutObject, PutAnswerLost, NoArchive,
     Attach, AttachAnswerLost

\* While others are served, or when it fails, a creation leaves what it has made.
LEMMA CreationWaits ==
    ASSUME Whole, [Next]_vars, NEW t \in Tenant, NEW c \in Request, Creating(c, t),
           pc[c] # "done", ~ Step(c), Exists(t)'
    PROVE  MadeSoFar(c, t)'
<1>1. TypeInv /\ TypeOK /\ LedgerInv
  BY DEF Whole, Owned, TypeInv
<1>2. call[c].tenant = t /\ call[c] # None
  BY DEF Creating
<1>3. UNCHANGED <<sessions[t], memories[t], receipts[t]>>
  BY NobodyElseActs DEF TenantRows
<1>4. Exists(t)
  BY <1>3 DEF Exists
<1>5. MadeSoFar(c, t) /\ pc[c] \in {"grant", "context", "failed"}
  BY <1>1, <1>2, <1>4, OpensNew DEF Whole, SessionsMade, CreatorsAt, Creating
<1>6. (pc'[c] = pc[c] /\ call'[c] = call[c]) \/ pc'[c] = "failed"
  <2>1. ASSUME NEW r \in Request, Receive(r) PROVE pc'[c] = pc[c] /\ call'[c] = call[c]
    BY <1>1, <1>2, <2>1, ArrivalEffect
  <2>2. ASSUME NEW r \in Request, Abort(r)
        PROVE  (pc'[c] = pc[c] /\ call'[c] = call[c]) \/ pc'[c] = "failed"
    BY <1>1, <2>2 DEF Abort, Fail, Goto, TypeOK
  <2>3. ASSUME NEW r \in Request, Step(r) PROVE pc'[c] = pc[c] /\ call'[c] = call[c]
    <3>1. r # c
      BY <2>3
    <3>2. pc'[c] = pc[c]
      BY <1>1, <2>3, <3>1, StepMoves DEF Moves
    <3>3. call' = call \/ \E d : call' = [call EXCEPT ![r].draft = d]
      BY <2>3 DEF Step, OpenSession, OpenRefused, RecordPermission, RecordAudience, Authorize,
         AuthorizeRefused, Record, RecordRefused, RecordAnswerLost, ListState, Recall,
         RecallRefused, Save, SaveRefused, GiveUp, PutObject, PutAnswerLost, NoArchive, Attach,
         AttachAnswerLost, Fail
    <3> QED
      BY <1>1, <3>1, <3>2, <3>3 DEF TypeOK
  <2>4. CASE UNCHANGED serviceVars
    BY <2>4 DEF serviceVars
  <2> QED
    BY <1>1, <2>1, <2>2, <2>3, <2>4, WhoMoves
<1>7. receipts[t] = <<>> /\ sessions[t].uses = UseLimit
  BY <1>5 DEF MadeSoFar
<1>8. CASE pc'[c] = pc[c] /\ call'[c] = call[c]
  BY <1>3, <1>5, <1>7, <1>8 DEF MadeSoFar, MadeInOrder
<1>9. CASE pc'[c] = "failed"
  <2>1. Len(memories[t]) <= 2
    BY <1>5, FewRows DEF MadeSoFar
  <2> QED
    BY <1>3, <1>5, <1>7, <1>9, <2>1 DEF MadeSoFar, MadeInOrder
<1> QED
  BY <1>6, <1>8, <1>9

LEMMA SessionsStayMade ==
    ASSUME Whole, [Next]_vars
    PROVE  SessionsMade'
<1>1. TypeInv /\ LedgerInv /\ CreatorUnique
  BY DEF Whole, Owned
<1>2. ASSUME NEW t \in Tenant, NEW c \in Request, Creating(c, t), Exists(t)'
      PROVE  MadeSoFar(c, t)'
  <2>1. CASE pc[c] = "done"
    <3>1. pc'[c] = "done"
      BY <1>1, <2>1, DoneStays
    <3>2. Exists(t)
      BY <1>1, <1>2, <2>1, KnownSessionsStay DEF Creating
    <3>3. Len(memories[t]) >= 2 /\ MadeInOrder(t)
      BY <1>2, <2>1, <3>2 DEF Whole, SessionsMade, MadeSoFar
    <3>4. /\ sessions'[t].expires = sessions[t].expires
          /\ Len(memories[t]) \in Nat /\ Len(memories'[t]) \in Nat
          /\ Len(memories[t]) <= Len(memories'[t])
          /\ \A i \in 1 .. Len(memories[t]) :
                /\ memories'[t][i].effect = memories[t][i].effect
                /\ memories'[t][i].until = memories[t][i].until
      BY <1>1, <1>2, <3>2, LedgerStep
    <3>5. Len(memories'[t]) >= 2 /\ 1 \in 1 .. Len(memories[t]) /\ 2 \in 1 .. Len(memories[t])
      BY <3>3, <3>4
    <3> QED
      BY <3>1, <3>3, <3>4, <3>5 DEF MadeSoFar, MadeInOrder
  <2> QED
    BY <1>2, <2>1, CreationGoesOn, CreationWaits
<1>3. ASSUME NEW t \in Tenant, NEW c \in Request, Creating(c, t)', ~ Creating(c, t), Exists(t)'
      PROVE  FALSE
  <2>1. CASE call[c] # None
    BY <1>1, <1>3, <2>1, CallsStay DEF Creating
  <2>2. CASE call[c] = None
    <3>1. \A s \in Request : call[s] # None => s # c
      BY <2>2
    <3>2. UNCHANGED storeVars /\ Creating(c, t)'
      <4>1. ASSUME NEW r \in Request, Moves(r), Step(r) \/ Abort(r) PROVE FALSE
        <5>1. CallsKept
          BY <1>1, <4>1, StepKeepsCalls
        <5> QED
          BY <1>3, <2>2, <5>1 DEF CallsKept, Creating
      <4>2. ~ UNCHANGED serviceVars
        BY <1>3, <2>2 DEF serviceVars, Creating
      <4> QED
        BY <1>1, <1>3, <4>1, <4>2, WhoMoves, ArrivalEffect
    <3>3. Exists(t)
      BY <1>3, <3>2 DEF storeVars, Exists
    <3>4. PICK s \in Request : call[s] # None /\ call[s].tenant = t
      BY <1>1, <3>3 DEF LedgerInv, Rooted
    <3>5. PICK b \in Request : Creating(b, t)
      BY <1>1, <3>4 DEF LedgerInv, Inv, TenantsFresh, Creating
    <3>6. Creating(b, t)' /\ b # c
      BY <1>1, <3>5, <2>2, CallsStay DEF Creating
    <3> QED
      BY <1>1, <1>3, <3>6, CreatorsStayUnique DEF CreatorUnique
  <2> QED
    BY <2>1, <2>2
<1>4. ASSUME NEW t \in Tenant, NEW c \in Request, Creating(c, t)', Exists(t)'
      PROVE  MadeSoFar(c, t)'
  BY <1>2, <1>3, <1>4
<1> QED
  BY <1>4 DEF SessionsMade

LEMMA InitWhole == Init => Whole
<1> SUFFICES ASSUME Init PROVE Whole
  OBVIOUS
<1>1. CreatorUnique /\ CreatorsAt /\ ClientsServed /\ SessionsMade
  BY DEF Init, StoreInit, CreatorUnique, CreatorsAt, ClientsServed, SessionsMade, Creating, Exists
<1> QED
  BY <1>1, InitLedgerInv, InitOwned DEF Whole

\* Three calls make a session, and each may fail before or after it has taken
\* effect: one that a client was answered with has its permission, which lapses
\* with it, and its context fact; one whose creation failed, even at the last
\* answer, has no more than these, in this order, and is nobody's: no use of it is
\* ever spent and nothing is decided under it (create_demo_session).
THEOREM AnsweredCorrect == Spec => []AnsweredIsWhole
<1>1. Whole /\ [Next]_vars => Whole'
  <2> SUFFICES ASSUME Whole, [Next]_vars PROVE Whole'
    OBVIOUS
  <2>1. LedgerInv' /\ Owned' /\ CreatorUnique'
    BY NextLedgerInv, NextOwned, CreatorsStayUnique DEF Whole, Owned
  <2> QED
    BY <2>1, CreatorsStayAt, ClientsStayServed, SessionsStayMade DEF Whole
<1>2. Whole => AnsweredIsWhole
  <2> SUFFICES ASSUME Whole, NEW r \in Request, call[r] # None, call[r].op = "create",
                      Exists(call[r].tenant)
               PROVE  LET t == call[r].tenant
                      IN  /\ MadeInOrder(t)
                          /\ pc[r] = "done" => Len(memories[t]) >= 2
                          /\ pc[r] = "failed" =>
                              /\ Len(memories[t]) <= 2
                              /\ receipts[t] = <<>>
                              /\ sessions[t].uses = UseLimit
    BY DEF AnsweredIsWhole
  <2>1. PICK t \in Tenant : t = call[r].tenant
    BY DEF Whole, Owned, TypeInv, TypeOK, Call
  <2>2. MadeSoFar(r, t)
    BY <2>1 DEF Whole, SessionsMade, Creating
  <2> QED
    BY <2>1, <2>2 DEF MadeSoFar, MadeInOrder
<1> QED
  BY <1>1, <1>2, InitWhole, PTL DEF Spec

=============================================================================

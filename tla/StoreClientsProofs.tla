------------------------- MODULE StoreClientsProofs -------------------------
(***************************************************************************)
(* Theorems of StoreClients: what the store promises any caller, for every *)
(* number of tenants, memories and calls.  The promises are inductive once *)
(* it is added that a memory replaces an earlier one of its tenant, and    *)
(* that a replaced memory is known by its status (ReplacementsInOrder).    *)
(* Only an addition touches any of this; every other call either leaves    *)
(* the memories and the version of a tenant alone, or starts it afresh.    *)
(***************************************************************************)
EXTENDS StoreClients, LeaseStoreProofs, FiniteSetTheorems

\* SupersededOnce without cardinalities, with the order in which memories
\* replace one another made explicit.
InOrder(ms) ==
    /\ \A j \in DOMAIN ms : ms[j].supersedes # None =>
          /\ ms[j].supersedes \in DOMAIN ms
          /\ ms[j].supersedes < j
          /\ ~ IsActive(ms[ms[j].supersedes])
    /\ \A i \in DOMAIN ms : ~ IsActive(ms[i]) =>
          \E j \in DOMAIN ms : ms[j].supersedes = i
    /\ \A j, k \in DOMAIN ms : ms[j].supersedes = ms[k].supersedes =>
          j = k \/ ms[j].supersedes = None

ReplacementsInOrder == \A t \in Tenant : InOrder(memories[t])

StoreInv ==
    /\ StoreTypeOK
    /\ VersionCountsMemories
    /\ ReplacementsInOrder

-----------------------------------------------------------------------------
\* A call that records nothing leaves each tenant's memories and version, or
\* leaves the tenant without memories and, if it has a session, at version 0.
KeepsLedgers ==
    \A t \in Tenant :
        \/ /\ memories'[t] = memories[t]
           /\ Exists(t)' => Exists(t) /\ sessions'[t].version = sessions[t].version
        \/ /\ memories'[t] = <<>>
           /\ Exists(t)' => sessions'[t].version = 0

LEMMA KeptInv ==
    ASSUME StoreInv, StoreTypeOK', KeepsLedgers
    PROVE  StoreInv'
<1>1. VersionCountsMemories'
  BY DEF VersionCountsMemories, KeepsLedgers, Exists, StoreInv
<1>2. InOrder(<<>>)
  BY DEF InOrder
<1>3. ReplacementsInOrder'
  BY <1>2 DEF ReplacementsInOrder, KeepsLedgers, StoreInv
<1> QED
  BY <1>1, <1>3 DEF StoreInv

-----------------------------------------------------------------------------
LEMMA AddedInv ==
    ASSUME StoreInv, NEW t \in Tenant, NEW d \in MemoryCreate, AddMemory(t, d)
    PROVE  StoreInv'
<1> DEFINE ms == memories[t]
           n  == Len(ms)
           s  == NewMemoryRecord(d).supersedes
           new == memories'[t]
<1>1. StoreTypeOK /\ StoreTypeOK'
  BY AddMemoryType DEF StoreInv
<1>2. /\ n \in Nat /\ DOMAIN ms = 1 .. n /\ DOMAIN new = 1 .. (n + 1)
      /\ new[n + 1] = NewMemoryRecord(d)
      /\ s # None => s \in 1 .. n /\ IsActive(ms[s])
      /\ \A i \in 1 .. n :
            new[i] = IF i = s THEN [ms[i] EXCEPT !.status = "superseded"] ELSE ms[i]
  BY <1>1, RowsAdded
<1>3. \A u \in Tenant : u # t => memories'[u] = memories[u] /\ sessions'[u] = sessions[u]
  BY <1>1 DEF AddMemory, StoreTypeOK
<1>4. VersionCountsMemories'
  <2>1. Len(new) = n + 1
    BY <1>1, AddedMemories
  <2>2. sessions'[t].version = sessions[t].version + 1 /\ Exists(t)
    <3>1. sessions[t] \in Session /\ Exists(t)
      BY <1>1, SessionIfExists DEF AddMemory, AddAccepted
    <3> QED
      BY <1>1, <3>1 DEF AddMemory, StoreTypeOK, Session
  <2>3. sessions'[t].version = Len(new)
    BY <2>1, <2>2 DEF StoreInv, VersionCountsMemories
  <2> QED
    BY <1>3, <2>3 DEF StoreInv, VersionCountsMemories, Exists
<1>5. \A i \in 1 .. n :
        /\ ms[i] \in Memory
        /\ new[i].supersedes = ms[i].supersedes
        /\ IsActive(new[i]) <=> IsActive(ms[i]) /\ i # s
  <2>1. TAKE i \in 1 .. n
  <2>2. ms[i] \in Memory
    BY <1>1, <1>2, MemoryAt
  <2> QED
    BY <1>2, <2>2 DEF IsActive, Memory
<1>6. IsActive(new[n + 1]) /\ new[n + 1].supersedes = s
  BY <1>2 DEF IsActive, NewMemoryRecord
<1>7. /\ \A j \in 1 .. n : ms[j].supersedes # None =>
            ms[j].supersedes \in 1 .. n /\ ms[j].supersedes < j /\ ~ IsActive(ms[ms[j].supersedes])
      /\ \A i \in 1 .. n : ~ IsActive(ms[i]) => \E j \in 1 .. n : ms[j].supersedes = i
      /\ \A j, k \in 1 .. n : ms[j].supersedes = ms[k].supersedes =>
            j = k \/ ms[j].supersedes = None
  BY <1>2 DEF StoreInv, ReplacementsInOrder, InOrder
<1> HIDE DEF ms, n, s, new
<1>8. \A j \in 1 .. (n + 1) : new[j].supersedes # None =>
        /\ new[j].supersedes \in 1 .. (n + 1)
        /\ new[j].supersedes < j
        /\ ~ IsActive(new[new[j].supersedes])
  <2>1. ASSUME NEW j \in 1 .. n, new[j].supersedes # None
        PROVE  /\ new[j].supersedes \in 1 .. (n + 1)
               /\ new[j].supersedes < j
               /\ ~ IsActive(new[new[j].supersedes])
    BY <1>2, <1>5, <1>7, <2>1
  <2>2. s # None => s \in 1 .. (n + 1) /\ s < n + 1 /\ ~ IsActive(new[s])
    BY <1>2, <1>5
  <2> QED
    BY <1>2, <1>6, <2>1, <2>2
<1>9. \A i \in 1 .. (n + 1) : ~ IsActive(new[i]) =>
        \E j \in 1 .. (n + 1) : new[j].supersedes = i
  <2>1. ASSUME NEW i \in 1 .. n, ~ IsActive(new[i])
        PROVE  \E j \in 1 .. (n + 1) : new[j].supersedes = i
    <3>1. CASE i = s
      <4>1. n + 1 \in 1 .. (n + 1)
        BY <1>2
      <4> QED
        BY <1>6, <3>1, <4>1
    <3>2. CASE i # s
      <4>1. PICK j \in 1 .. n : ms[j].supersedes = i
        BY <1>5, <1>7, <2>1, <3>2
      <4> QED
        BY <1>2, <1>5, <4>1
    <3> QED
      BY <3>1, <3>2
  <2> QED
    BY <1>2, <1>6, <2>1
<1>10. \A j, k \in 1 .. (n + 1) : new[j].supersedes = new[k].supersedes =>
         j = k \/ new[j].supersedes = None
  <2>1. ASSUME NEW j \in 1 .. n, new[j].supersedes = s PROVE s = None
    <3>1. SUFFICES ASSUME s # None PROVE FALSE
      OBVIOUS
    <3>2. ~ IsActive(ms[s])
      BY <1>5, <1>7, <2>1, <3>1
    <3> QED
      BY <1>2, <3>1, <3>2
  <2>2. \A j, k \in 1 .. n : new[j].supersedes = new[k].supersedes =>
          j = k \/ new[j].supersedes = None
    BY <1>5, <1>7
  <2>3. \A j \in 1 .. (n + 1) : j \in 1 .. n \/ j = n + 1
    BY <1>2
  <2> QED
    BY <1>6, <2>1, <2>2, <2>3
<1>11. InOrder(new)
  BY <1>2, <1>8, <1>9, <1>10 DEF InOrder
<1>12. ReplacementsInOrder'
  BY <1>3, <1>11 DEF StoreInv, ReplacementsInOrder, new
<1> QED
  BY <1>1, <1>4, <1>12 DEF StoreInv

-----------------------------------------------------------------------------
\* Every call keeps the invariant.
LEMMA StoreStep ==
    ASSUME StoreInv, [StoreNext]_storeVars
    PROVE  StoreInv'
<1>1. StoreTypeOK
  BY DEF StoreInv
<1>2. CASE CallCreate
  <2>1. CASE RefuseSession
    BY <1>1, <2>1, RefuseSessionType, KeptInv DEF RefuseSession, KeepsLedgers, Exists
  <2>2. ASSUME NEW t \in Tenant, NEW expires \in 0 .. MaxTime, NEW uses \in 0 .. MaxUses,
               CreateSession(t, t, expires, uses)
        PROVE  StoreInv'
    <3>1. StoreTypeOK'
      BY <1>1, <2>2, CreateSessionType, ClientAssumption, StoreAssumption DEF Token, Time
    <3>2. KeepsLedgers
      BY <1>1, <2>2 DEF CreateSession, KeepsLedgers, StoreTypeOK, Exists
    <3> QED
      BY <3>1, <3>2, KeptInv
  <2> QED
    BY <1>2, <2>1, <2>2 DEF CallCreate
<1>3. CASE CallAuthorize
  <2>1. PICK t \in Tenant, token \in Token, consume \in BOOLEAN :
            AuthorizeSession(t, token, consume)
    BY <1>3 DEF CallAuthorize
  <2>2. StoreTypeOK'
    BY <1>1, <2>1, AuthorizeSessionType
  <2>3. KeepsLedgers
    <3>1. sessions[t] \in Session
      BY <1>1, <2>1, SessionIfExists DEF AuthorizeSession, Authorized
    <3> QED
      BY <1>1, <2>1, <3>1
      DEF AuthorizeSession, Authorized, KeepsLedgers, StoreTypeOK, Exists, Session
  <2> QED
    BY <2>2, <2>3, KeptInv
<1>4. CASE CallAdd
  BY <1>4, AddedInv, ClientAssumption DEF CallAdd
<1>5. CASE CallSave
  <2>1. PICK receipt \in ActionReceipt, version \in 0 .. MaxMemories,
             before \in (0 .. MaxTime) \cup {None} : SaveReceipt(receipt, version, before)
    <3>1. PICK t \in Tenant, id \in ReceiptId \ SavedIds, q \in Query,
               version \in 0 .. MaxMemories, before \in (0 .. MaxTime) \cup {None} :
            SaveReceipt([id |-> id, tenant |-> t, query |-> q, decision |-> "needs_review",
                         evidence |-> {}, created |-> now, archived |-> FALSE], version, before)
      BY <1>5 DEF CallSave
    <3>2. [id |-> id, tenant |-> t, query |-> q, decision |-> "needs_review",
           evidence |-> {}, created |-> now, archived |-> FALSE] \in ActionReceipt
      BY <1>1 DEF ActionReceipt, Decision, StoreTypeOK, Time
    <3> QED
      BY <3>1, <3>2
  <2>2. KeepsLedgers
    BY <2>1 DEF SaveReceipt, KeepsLedgers, Exists
  <2> QED
    BY <1>1, <2>1, <2>2, SaveReceiptType, KeptInv
<1>6. CASE CallAttach
  <2>1. PICK id \in ReceiptId : AttachReceiptArchive(id)
    BY <1>6 DEF CallAttach
  <2>2. KeepsLedgers
    BY <2>1 DEF AttachReceiptArchive, KeepsLedgers, Exists
  <2> QED
    BY <1>1, <2>1, <2>2, AttachReceiptArchiveType, KeptInv
<1>7. CASE Tick
  BY <1>1, <1>7, TickType, KeptInv DEF Tick, KeepsLedgers, Exists
<1>8. ASSUME NEW t \in Tenant, Reap(t) PROVE StoreInv'
  BY <1>1, <1>8, ReapType, KeptInv DEF Reap, KeepsLedgers, Exists, StoreTypeOK
<1>9. CASE UNCHANGED storeVars
  BY <1>1, <1>9, KeptInv DEF storeVars, KeepsLedgers, StoreTypeOK, Exists, Windows
<1> QED
  BY <1>2, <1>3, <1>4, <1>5, <1>6, <1>7, <1>8, <1>9 DEF StoreNext

\* The invariant the store's promises follow from holds always, whatever
\* calls are made of MemoryStore, with whatever arguments and in any order.
THEOREM StoreInvCorrect == StoreSpec => []StoreInv
<1>1. StoreInit => StoreInv
  <2>1. <<>> \in Seq(Memory) /\ <<>> \in Seq(ActionReceipt)
    BY EmptySeq
  <2>2. StoreInit => StoreTypeOK
    BY <2>1, StoreAssumption DEF StoreInit, StoreTypeOK
  <2>3. StoreInit => VersionCountsMemories /\ ReplacementsInOrder
    BY DEF StoreInit, VersionCountsMemories, ReplacementsInOrder, InOrder, Exists
  <2> QED
    BY <2>2, <2>3 DEF StoreInv
<1>2. StoreInv /\ [StoreNext]_storeVars => StoreInv'
  BY StoreStep
<1> QED
  BY <1>1, <1>2, PTL DEF StoreSpec

\* No call of MemoryStore makes a row that is not of its type.
THEOREM StoreTypeCorrect == StoreSpec => []StoreTypeOK
<1>1. StoreInv => StoreTypeOK
  BY DEF StoreInv
<1> QED
  BY <1>1, StoreInvCorrect, PTL

\* No addition or replacement leaves the memory version where it was, which
\* save_receipt takes for proof that the memories are those of the retrieval.
THEOREM VersionsCorrect == StoreSpec => []VersionCountsMemories
<1>1. StoreInv => VersionCountsMemories
  BY DEF StoreInv
<1> QED
  BY <1>1, StoreInvCorrect, PTL

LEMMA ReplacedOnce ==
    ASSUME StoreInv
    PROVE  SupersededOnce
<1>1. SUFFICES ASSUME NEW t \in Tenant, NEW i \in DOMAIN memories[t]
               PROVE  LET successors == {j \in DOMAIN memories[t] : memories[t][j].supersedes = i}
                      IN  /\ Cardinality(successors) <= 1
                          /\ ~ IsActive(memories[t][i]) <=> successors # {}
                          /\ \A j \in successors : i < j
  BY DEF SupersededOnce
<1> DEFINE ms == memories[t]
           successors == {j \in DOMAIN ms : ms[j].supersedes = i}
<1>2. ms \in Seq(Memory) /\ Len(ms) \in Nat /\ DOMAIN ms = 1 .. Len(ms)
  BY LenProperties DEF StoreInv, StoreTypeOK
<1>3. InOrder(ms)
  BY DEF StoreInv, ReplacementsInOrder
<1>4. i # None
  BY <1>1, <1>2, NoneAssumption
<1> HIDE DEF ms
<1>5. \A j \in successors : i < j /\ ~ IsActive(ms[i])
  BY <1>3, <1>4 DEF InOrder
<1>6. ~ IsActive(ms[i]) => successors # {}
  BY <1>1, <1>3 DEF InOrder, ms
<1>7. Cardinality(successors) <= 1
  <2>1. CASE successors = {}
    <3>1. Cardinality({}) = 0
      BY FS_EmptySet
    <3> HIDE DEF successors
    <3> QED
      BY <2>1, <3>1
  <2>2. CASE successors # {}
    <3>1. PICK j \in successors : TRUE
      BY <2>2
    <3>2. successors = {j}
      BY <1>3, <1>4, <3>1 DEF InOrder
    <3>3. Cardinality({j}) = 1
      BY FS_Singleton
    <3> QED
      BY <3>2, <3>3
  <2> QED
    BY <2>1, <2>2
<1> QED
  BY <1>5, <1>6, <1>7 DEF ms

\* A memory is superseded exactly when one later memory replaced it, however
\* the replacements of add_memory interleave.
THEOREM SupersededCorrect == StoreSpec => []SupersededOnce
<1> QED
  BY ReplacedOnce, StoreInvCorrect, PTL

-----------------------------------------------------------------------------
LEMMA RowsKept ==
    ASSUME StoreInv, StoreNext
    PROVE  RowsPermanent
<1>1. StoreTypeOK
  BY DEF StoreInv
<1>2. SUFFICES ASSUME NEW t \in Tenant, Exists(t), Unexpired(t)
               PROVE  /\ \A i \in DOMAIN memories[t] :
                            /\ i \in DOMAIN memories'[t]
                            /\ \/ memories'[t][i] = memories[t][i]
                               \/ memories'[t][i] = [memories[t][i] EXCEPT !.status = "superseded"]
                      /\ \A i \in DOMAIN receipts[t] :
                            /\ i \in DOMAIN receipts'[t]
                            /\ \/ receipts'[t][i] = receipts[t][i]
                               \/ receipts'[t][i] = [receipts[t][i] EXCEPT !.archived = TRUE]
  BY DEF RowsPermanent
<1>3. receipts[t] \in Seq(ActionReceipt)
  BY <1>1 DEF StoreTypeOK
<1>4. CASE memories'[t] = memories[t] /\ receipts'[t] = receipts[t]
  BY <1>4
<1>5. CASE CallCreate
  BY <1>1, <1>2, <1>4, <1>5 DEF CallCreate, CreateSession, RefuseSession, StoreTypeOK
<1>6. CASE CallAuthorize
  BY <1>4, <1>6 DEF CallAuthorize, AuthorizeSession
<1>7. CASE CallAdd
  <2>1. PICK u \in Tenant, d \in MemoryCreate : AddMemory(u, d)
    BY <1>7, ClientAssumption DEF CallAdd
  <2>2. receipts' = receipts
    BY <2>1 DEF AddMemory
  <2>3. CASE u = t
    <3>1. \A i \in DOMAIN memories[t] :
            /\ i \in DOMAIN memories'[t]
            /\ \/ memories'[t][i] = memories[t][i]
               \/ memories'[t][i] = [memories[t][i] EXCEPT !.status = "superseded"]
      <4> DEFINE s == NewMemoryRecord(d).supersedes
      <4>1. AddMemory(t, d)
        BY <2>1, <2>3
      <4>2. /\ Len(memories[t]) \in Nat
            /\ DOMAIN memories[t] = 1 .. Len(memories[t])
            /\ DOMAIN memories'[t] = 1 .. (Len(memories[t]) + 1)
            /\ \A i \in 1 .. Len(memories[t]) : memories'[t][i] =
                  IF i = s THEN [memories[t][i] EXCEPT !.status = "superseded"]
                           ELSE memories[t][i]
        BY <1>1, <4>1, RowsAdded
      <4> HIDE DEF s
      <4> QED
        BY <4>2
    <3> QED
      BY <2>2, <3>1
  <2>4. CASE u # t
    BY <1>1, <1>4, <2>1, <2>2, <2>4 DEF AddMemory, StoreTypeOK
  <2> QED
    BY <2>3, <2>4
<1>8. CASE CallSave
  <2>1. PICK u \in Tenant :
            /\ memories' = memories
            /\ \E receipt : receipts' = [receipts EXCEPT ![u] = Append(@, receipt)]
    BY <1>8 DEF CallSave, SaveReceipt
  <2>2. CASE u = t
    <3>1. PICK receipt : receipts'[t] = Append(receipts[t], receipt)
      BY <1>1, <2>1, <2>2 DEF StoreTypeOK
    <3>2. \A i \in DOMAIN receipts[t] : i \in DOMAIN receipts'[t] /\ receipts'[t][i] = receipts[t][i]
      BY <1>3, <3>1
    <3> QED
      BY <2>1, <3>2
  <2>3. CASE u # t
    BY <1>1, <1>4, <2>1, <2>3 DEF StoreTypeOK
  <2> QED
    BY <2>2, <2>3
<1>9. CASE CallAttach
  BY <1>1, <1>9 DEF CallAttach, AttachReceiptArchive
<1>10. CASE Tick
  BY <1>4, <1>10 DEF Tick
<1>11. ASSUME NEW u \in Tenant, Reap(u)
       PROVE  memories'[t] = memories[t] /\ receipts'[t] = receipts[t]
  BY <1>1, <1>2, <1>11 DEF Reap, StoreTypeOK
<1> QED
  BY <1>4, <1>5, <1>6, <1>7, <1>8, <1>9, <1>10, <1>11 DEF StoreNext

\* What is recorded stays recorded while its session lasts: no call of
\* MemoryStore takes a row away, or changes one but to mark a memory
\* superseded or a receipt archived.
THEOREM RecordsCorrect == StoreSpec => RecordsPermanent
<1>1. StoreInv /\ [StoreNext]_storeVars => [RowsPermanent]_storeVars
  BY RowsKept
<1> QED
  BY <1>1, StoreInvCorrect, PTL DEF StoreSpec, RecordsPermanent

=============================================================================

-------------------------- MODULE LeaseStoreProofs --------------------------
(***************************************************************************)
(* Facts about the retrieval operators and about the store's operations,   *)
(* for memories of every kind and number: the lemmas all the other proofs  *)
(* rest on.                                                                *)
(*                                                                         *)
(* Of the retrieval, the one the service depends on is                     *)
(* StableUntilTransition: what a retrieval answers does not change on its  *)
(* own before the transition it returned.  Of the store, that every        *)
(* operation keeps its state well typed, for arguments of the right types. *)
(***************************************************************************)
EXTENDS LeaseStore, SequenceTheorems, WellFoundedInduction, TLAPS

-----------------------------------------------------------------------------
(* Retrieval *)

\* A nonempty set of integers with a lower bound has a least element: what
\* min(transitions) relies on in recall_active.
LEMMA LeastExists ==
    ASSUME NEW ts \in SUBSET Int, ts # {}, NEW lo \in Int, \A t \in ts : lo < t
    PROVE  Earliest(ts) \in ts /\ \A u \in ts : Earliest(ts) <= u
<1> DEFINE below == {n \in Nat : n + lo \in ts}
           less == OpToRel(<, Nat)
<1>1. below \subseteq Nat /\ below # {}
  <2>1. PICK t \in ts : TRUE
    OBVIOUS
  <2>2. t - lo \in Nat /\ (t - lo) + lo = t
    BY <2>1
  <2> QED
    BY <2>1, <2>2
<1>2. \E x \in below : \A y \in below : ~ (<<y, x>> \in less)
  <2> HIDE DEF below, less
  <2>1. IsWellFoundedOn(less, Nat)
    BY NatLessThanWellFounded DEF less
  <2> QED
    BY <1>1, <2>1, WFMin
<1>3. PICK x \in below : \A y \in below : ~ (<<y, x>> \in less)
  BY <1>2
<1>4. \A y \in below : x <= y
  <2>1. ASSUME NEW y \in below, y < x PROVE FALSE
    <3>1. <<y, x>> \in less
      BY <2>1 DEF OpToRel
    <3> QED
      BY <1>3, <3>1
  <2> QED
    BY <2>1
<1>5. x + lo \in ts /\ \A u \in ts : x + lo <= u
  <2>1. ASSUME NEW u \in ts PROVE x + lo <= u
    <3>1. u - lo \in Nat /\ (u - lo) + lo = u
      BY <2>1
    <3>2. u - lo \in below
      BY <2>1, <3>1
    <3>3. x <= u - lo
      BY <1>4, <3>2
    <3> QED
      BY <3>1, <3>3
  <2> QED
    BY <2>1
<1>6. \E m \in ts : \A u \in ts : m <= u
  BY <1>5
<1> QED
  BY <1>6 DEF Earliest

\* The transitions of a ledger are later than the time they are taken at.
LEMMA TransitionsType ==
    ASSUME NEW ms \in Seq(Memory), NEW at \in Int
    PROVE  Transitions(ms, at) \in SUBSET Int /\ \A t \in Transitions(ms, at) : at < t
<1>1. ASSUME NEW i \in DOMAIN ms
      PROVE  ms[i].from \in Int /\ ms[i].until \in Int \cup {None}
  <2>1. ms[i] \in Memory
    BY <1>1, ElementOfSeq, LenProperties
  <2> QED
    BY <2>1 DEF Memory, Time
<1> QED
  BY <1>1, NoneAssumption DEF Transitions

\* recall_active's boundary is absent exactly when nothing changes later, and
\* otherwise no validity starts or ends between the retrieval and it.
LEMMA NextTransitionLeast ==
    ASSUME NEW ms \in Seq(Memory), NEW at \in Int
    PROVE  /\ NextTransition(ms, at) \in Int \cup {None}
           /\ NextTransition(ms, at) = None => Transitions(ms, at) = {}
           /\ NextTransition(ms, at) # None =>
                \A t \in Transitions(ms, at) : NextTransition(ms, at) <= t
<1>1. CASE Transitions(ms, at) = {}
  BY <1>1 DEF NextTransition
<1>2. CASE Transitions(ms, at) # {}
  <2>1. /\ Earliest(Transitions(ms, at)) \in Transitions(ms, at)
        /\ \A u \in Transitions(ms, at) : Earliest(Transitions(ms, at)) <= u
    BY <1>2, TransitionsType, LeastExists
  <2>2. NextTransition(ms, at) = Earliest(Transitions(ms, at))
    BY <1>2 DEF NextTransition
  <2> QED
    BY <2>1, <2>2, TransitionsType, NoneAssumption
<1> QED
  BY <1>1, <1>2

\* Until the boundary arrives, the memories in force are those of the retrieval.
LEMMA InForceStable ==
    ASSUME NEW ms \in Seq(Memory), NEW at \in Int, NEW later \in Int, at <= later,
           NextTransition(ms, at) # None => later < NextTransition(ms, at)
    PROVE  InForce(ms, later) = InForce(ms, at)
<1>1. \A t \in Transitions(ms, at) : later < t
  BY NextTransitionLeast, TransitionsType, NoneAssumption
<1>2. ASSUME NEW i \in DOMAIN ms, IsActive(ms[i])
      PROVE  ValidAt(ms[i], later) <=> ValidAt(ms[i], at)
  <2>1. ms[i] \in Memory
    BY <1>2, ElementOfSeq, LenProperties
  <2>2. ms[i].from \in Int /\ ms[i].until \in Int \cup {None}
    BY <2>1 DEF Memory, Time
  <2>3. at < ms[i].from => later < ms[i].from
    BY <1>1, <1>2, <2>2, NoneAssumption DEF Transitions
  <2>4. ms[i].until # None /\ at < ms[i].until => later < ms[i].until
    BY <1>1, <1>2, <2>2 DEF Transitions
  <2> QED
    BY <2>2, <2>3, <2>4 DEF ValidAt
<1> QED
  BY <1>2 DEF InForce

\* Until the boundary arrives, a retrieval would find the same evidence.
THEOREM StableUntilTransition ==
    ASSUME NEW ms \in Seq(Memory), NEW q, NEW at \in Int, NEW later \in Int, at <= later,
           NextTransition(ms, at) # None => later < NextTransition(ms, at)
    PROVE  Evidence(ms, q, later) = Evidence(ms, q, at)
BY InForceStable DEF Evidence, Recalled

\* A retrieval's evidence names memories by their position.
LEMMA EvidenceType ==
    ASSUME NEW ms \in Seq(Memory), NEW q, NEW at \in Int
    PROVE  Evidence(ms, q, at) \in SUBSET (Nat \ {0})
<1>1. DOMAIN ms \subseteq Nat \ {0}
  BY LenProperties
<1> QED
  BY <1>1 DEF Evidence, Recalled, InForce

\* The service either denies or asks for review; it never allows.
LEMMA DecideType ==
    ASSUME NEW ms, NEW evidence
    PROVE  Decide(ms, evidence) \in Decision
BY DEF Decide, Decision

-----------------------------------------------------------------------------
(* The store *)

LEMMA SessionIfExists ==
    ASSUME StoreTypeOK, NEW t \in Tenant, Exists(t)
    PROVE  sessions[t] \in Session
BY DEF StoreTypeOK, Exists

LEMMA MemoryAt ==
    ASSUME StoreTypeOK, NEW t \in Tenant, NEW i \in DOMAIN memories[t]
    PROVE  memories[t][i] \in Memory
<1>1. memories[t] \in Seq(Memory)
  BY DEF StoreTypeOK
<1> QED
  BY <1>1, ElementOfSeq, LenProperties

LEMMA CountType ==
    ASSUME StoreTypeOK, CountAttempt
    PROVE  hourly' \in [Windows -> Nat]
<1>1. hourly' = [w \in Windows |-> IF w = Window THEN hourly[w] + 1 ELSE hourly[w]]
  BY DEF StoreTypeOK, CountAttempt
<1>2. \A w \in Windows : hourly[w] \in Nat
  BY DEF StoreTypeOK
<1> QED
  BY <1>1, <1>2

\* create_session
LEMMA CreateSessionType ==
    ASSUME StoreTypeOK, NEW t \in Tenant, NEW token \in Token, NEW expires \in Time,
           NEW uses \in Nat, CreateSession(t, token, expires, uses)
    PROVE  StoreTypeOK'
<1>1. hourly' \in [Windows -> Nat]
  BY CountType DEF CreateSession
<1>2. sessions' \in [Tenant -> Session \cup {None}]
  BY DEF CreateSession, StoreTypeOK, Session
<1>3. <<>> \in Seq(Memory) /\ <<>> \in Seq(ActionReceipt)
  BY EmptySeq
<1>4. memories' \in [Tenant -> Seq(Memory)] /\ receipts' \in [Tenant -> Seq(ActionReceipt)]
  BY <1>3 DEF CreateSession, StoreTypeOK
<1> QED
  BY <1>1, <1>2, <1>4 DEF CreateSession, StoreTypeOK

LEMMA RefuseSessionType ==
    ASSUME StoreTypeOK, RefuseSession
    PROVE  StoreTypeOK'
BY CountType DEF RefuseSession, StoreTypeOK

\* authorize_session
LEMMA AuthorizeSessionType ==
    ASSUME StoreTypeOK, NEW t \in Tenant, NEW token \in Token, NEW consume \in BOOLEAN,
           AuthorizeSession(t, token, consume)
    PROVE  StoreTypeOK'
<1>1. sessions[t] \in Session
  BY SessionIfExists DEF AuthorizeSession, Authorized
<1>2. consume => sessions[t].uses - 1 \in Nat
  BY <1>1 DEF AuthorizeSession, Authorized, Session
<1>3. sessions' \in [Tenant -> Session \cup {None}]
  BY <1>1, <1>2 DEF AuthorizeSession, StoreTypeOK, Session
<1> QED
  BY <1>3 DEF AuthorizeSession, StoreTypeOK

\* Marking the memory that a draft replaces leaves as many memories.
LEMMA WithSupersededType ==
    ASSUME NEW ms \in Seq(Memory), NEW d,
           d.supersedes # None => d.supersedes[2] \in 1 .. Len(ms)
    PROVE  /\ WithSuperseded(ms, d) \in Seq(Memory)
           /\ Len(WithSuperseded(ms, d)) = Len(ms)
<1>1. CASE d.supersedes = None
  BY <1>1 DEF WithSuperseded
<1>2. CASE d.supersedes # None
  <2> DEFINE i == d.supersedes[2]
             e == [ms[i] EXCEPT !.status = "superseded"]
  <2>1. i \in 1 .. Len(ms) /\ ms[i] \in Memory
    BY <1>2, ElementOfSeq
  <2>2. e \in Memory
    BY <2>1 DEF Memory, Status
  <2>3. WithSuperseded(ms, d) = [ms EXCEPT ![i] = e]
    BY <1>2 DEF WithSuperseded
  <2> HIDE DEF i, e
  <2> QED
    BY <2>1, <2>2, <2>3, ExceptSeq
<1> QED
  BY <1>1, <1>2

\* The memories after an addition: one more, and at most one superseded.
LEMMA AddedMemories ==
    ASSUME StoreTypeOK, NEW t \in Tenant, NEW d \in MemoryCreate, AddMemory(t, d)
    PROVE  /\ WithSuperseded(memories[t], d) \in Seq(Memory)
           /\ Len(WithSuperseded(memories[t], d)) = Len(memories[t])
           /\ NewMemoryRecord(d) \in Memory
           /\ memories'[t] \in Seq(Memory)
           /\ Len(memories'[t]) = Len(memories[t]) + 1
<1>1. memories[t] \in Seq(Memory) /\ now \in Int
  BY DEF StoreTypeOK
<1>2. d.supersedes # None =>
        /\ d.supersedes[2] \in Nat
        /\ d.supersedes[2] \in 1 .. Len(memories[t])
        /\ memories[t][d.supersedes[2]] \in Memory
  <2>1. SUFFICES ASSUME d.supersedes # None
                 PROVE  /\ d.supersedes[2] \in Nat
                        /\ d.supersedes[2] \in DOMAIN memories[t]
    BY MemoryAt, <1>1, LenProperties
  <2>2. d.supersedes \in MemoryId
    BY <2>1 DEF MemoryCreate
  <2> QED
    BY <2>1, <2>2 DEF MemoryId, AddMemory, AddAccepted, Replaceable
<1>3. NewMemoryRecord(d) \in Memory
  BY <1>1, <1>2 DEF NewMemoryRecord, Memory, MemoryCreate, Time, Status
<1>4. /\ WithSuperseded(memories[t], d) \in Seq(Memory)
      /\ Len(WithSuperseded(memories[t], d)) = Len(memories[t])
  BY <1>1, <1>2, WithSupersededType
<1>5. memories'[t] = Append(WithSuperseded(memories[t], d), NewMemoryRecord(d))
  BY DEF AddMemory, StoreTypeOK
<1> QED
  BY <1>3, <1>4, <1>5, AppendProperties

\* The rows after an addition, one by one (InMemoryStore.add_memory).
LEMMA RowsAdded ==
    ASSUME StoreTypeOK, NEW t \in Tenant, NEW d \in MemoryCreate, AddMemory(t, d)
    PROVE  LET ms == memories[t]
               n  == Len(ms)
               s  == NewMemoryRecord(d).supersedes
           IN  /\ n \in Nat
               /\ memories'[t] = Append(IF s = None THEN ms
                                        ELSE [ms EXCEPT ![s].status = "superseded"],
                                        NewMemoryRecord(d))
               /\ DOMAIN ms = 1 .. n
               /\ DOMAIN memories'[t] = 1 .. (n + 1)
               /\ memories'[t][n + 1] = NewMemoryRecord(d)
               /\ s # None => s \in 1 .. n /\ IsActive(ms[s])
               /\ \A i \in 1 .. n :
                     memories'[t][i] = IF i = s THEN [ms[i] EXCEPT !.status = "superseded"]
                                                ELSE ms[i]
<1> DEFINE ms == memories[t]
           n  == Len(ms)
           s  == NewMemoryRecord(d).supersedes
           ws == WithSuperseded(ms, d)
<1>1. ms \in Seq(Memory) /\ n \in Nat /\ DOMAIN ms = 1 .. n
  BY LenProperties DEF StoreTypeOK
<1>2. ws \in Seq(Memory) /\ Len(ws) = n /\ NewMemoryRecord(d) \in Memory
  BY AddedMemories
<1>3. memories'[t] = Append(ws, NewMemoryRecord(d))
  BY DEF AddMemory, StoreTypeOK
<1>4. s = IF d.supersedes = None THEN None ELSE d.supersedes[2]
  BY DEF NewMemoryRecord
<1>5. d.supersedes # None =>
        d.supersedes[2] \in 1 .. n /\ IsActive(ms[d.supersedes[2]]) /\ d.supersedes[2] \in Nat
  <2>1. d.supersedes # None => d.supersedes \in MemoryId
    BY DEF MemoryCreate
  <2> QED
    BY <1>1, <2>1 DEF AddMemory, AddAccepted, Replaceable, MemoryId
<1>6. s # None => s \in 1 .. n /\ IsActive(ms[s])
  BY <1>4, <1>5
<1>7. ASSUME NEW i \in 1 .. n
      PROVE  ws[i] = IF i = s THEN [ms[i] EXCEPT !.status = "superseded"] ELSE ms[i]
  <2>1. CASE d.supersedes = None
    BY <1>4, <1>7, <2>1, NoneAssumption DEF WithSuperseded
  <2>2. CASE d.supersedes # None
    BY <1>1, <1>4, <1>5, <1>7, <2>2 DEF WithSuperseded
  <2> QED
    BY <2>1, <2>2
<1>9. ws = IF s = None THEN ms ELSE [ms EXCEPT ![s].status = "superseded"]
  BY <1>4, <1>5, NoneAssumption DEF WithSuperseded
<1> HIDE DEF ms, n, s, ws
<1>8. /\ DOMAIN memories'[t] = 1 .. (n + 1)
      /\ memories'[t][n + 1] = NewMemoryRecord(d)
      /\ \A i \in 1 .. n : memories'[t][i] = ws[i]
  BY <1>1, <1>2, <1>3, AppendProperties, LenProperties
<1> QED
  BY <1>1, <1>3, <1>6, <1>7, <1>8, <1>9 DEF ms, n, s

\* add_memory
LEMMA AddMemoryType ==
    ASSUME StoreTypeOK, NEW t \in Tenant, NEW d \in MemoryCreate, AddMemory(t, d)
    PROVE  StoreTypeOK'
<1>1. memories' \in [Tenant -> Seq(Memory)]
  <2>1. \A u \in Tenant : u # t => memories'[u] = memories[u]
    BY DEF AddMemory, StoreTypeOK
  <2>2. memories' = [u \in Tenant |-> memories'[u]]
    BY DEF AddMemory, StoreTypeOK
  <2>3. \A u \in Tenant : memories'[u] \in Seq(Memory)
    BY <2>1, AddedMemories DEF StoreTypeOK
  <2> QED
    BY <2>2, <2>3
<1>2. sessions[t] \in Session
  BY SessionIfExists DEF AddMemory, AddAccepted
<1>3. sessions' \in [Tenant -> Session \cup {None}]
  <2>1. [sessions[t] EXCEPT !.version = @ + 1] \in Session
    BY <1>2 DEF Session
  <2>2. sessions' = [sessions EXCEPT ![t] = [sessions[t] EXCEPT !.version = @ + 1]]
    BY DEF AddMemory
  <2> QED
    BY <2>1, <2>2 DEF StoreTypeOK
<1> QED
  BY <1>1, <1>3 DEF AddMemory, StoreTypeOK

\* save_receipt
LEMMA SaveReceiptType ==
    ASSUME StoreTypeOK, NEW receipt \in ActionReceipt, NEW version, NEW before,
           SaveReceipt(receipt, version, before)
    PROVE  StoreTypeOK'
<1>1. receipt.tenant \in Tenant
  BY DEF ActionReceipt
<1>2. receipts[receipt.tenant] \in Seq(ActionReceipt)
  BY <1>1 DEF StoreTypeOK
<1>3. Append(receipts[receipt.tenant], receipt) \in Seq(ActionReceipt)
  BY <1>2, AppendProperties
<1>4. receipts' \in [Tenant -> Seq(ActionReceipt)]
  BY <1>3 DEF SaveReceipt, StoreTypeOK
<1> QED
  BY <1>4 DEF SaveReceipt, StoreTypeOK

\* attach_receipt_archive: no receipt is added or taken away.
LEMMA AttachedReceipts ==
    ASSUME receipts \in [Tenant -> Seq(ActionReceipt)], NEW id, AttachReceiptArchive(id)
    PROVE  /\ receipts' \in [Tenant -> Seq(ActionReceipt)]
           /\ \A t \in Tenant : Len(receipts'[t]) = Len(receipts[t])
<1>1. ASSUME NEW t \in Tenant
      PROVE  receipts'[t] \in Seq(ActionReceipt) /\ Len(receipts'[t]) = Len(receipts[t])
  <2> DEFINE s == receipts[t]
             e(i) == IF s[i].id = id THEN [s[i] EXCEPT !.archived = TRUE] ELSE s[i]
  <2>1. s \in Seq(ActionReceipt) /\ Len(s) \in Nat /\ DOMAIN s = 1 .. Len(s)
    BY <1>1, LenProperties
  <2>2. receipts'[t] = [i \in 1 .. Len(s) |-> e(i)]
    BY <1>1, <2>1 DEF AttachReceiptArchive
  <2>3. \A i \in 1 .. Len(s) : e(i) \in ActionReceipt
    <3>1. ASSUME NEW i \in 1 .. Len(s) PROVE e(i) \in ActionReceipt
      <4>1. s[i] \in ActionReceipt
        BY <2>1, <3>1, ElementOfSeq
      <4> QED
        BY <4>1 DEF ActionReceipt
    <3> QED
      BY <3>1
  <2> HIDE DEF s, e
  <2>4. [i \in 1 .. Len(s) |-> e(i)] \in Seq(ActionReceipt)
    BY <2>1, <2>3
  <2>5. Len([i \in 1 .. Len(s) |-> e(i)]) = Len(s)
    BY <2>1
  <2> QED
    BY <2>2, <2>4, <2>5 DEF s
<1>2. receipts' = [t \in Tenant |-> receipts'[t]]
  BY DEF AttachReceiptArchive
<1> QED
  BY <1>1, <1>2

LEMMA AttachReceiptArchiveType ==
    ASSUME StoreTypeOK, NEW id, AttachReceiptArchive(id)
    PROVE  StoreTypeOK' /\ \A t \in Tenant : Len(receipts'[t]) = Len(receipts[t])
BY AttachedReceipts DEF AttachReceiptArchive, StoreTypeOK

LEMMA TickType ==
    ASSUME StoreTypeOK, Tick
    PROVE  StoreTypeOK'
BY StoreAssumption DEF Tick, StoreTypeOK

LEMMA ReapType ==
    ASSUME StoreTypeOK, NEW t \in Tenant, Reap(t)
    PROVE  StoreTypeOK'
<1>1. <<>> \in Seq(Memory) /\ <<>> \in Seq(ActionReceipt)
  BY EmptySeq
<1> QED
  BY <1>1 DEF Reap, StoreTypeOK

\* recall_active
LEMMA RecallActiveType ==
    ASSUME StoreTypeOK, NEW t \in Tenant, NEW q \in Query, Exists(t)
    PROVE  /\ RecallActive(t, q).evidence \in SUBSET (Nat \ {0})
           /\ RecallActive(t, q).decision \in Decision
           /\ RecallActive(t, q).version \in Nat
           /\ RecallActive(t, q).before \in Time \cup {None}
           /\ RecallActive(t, q).at \in Time
<1>1. memories[t] \in Seq(Memory) /\ now \in Int
  BY DEF StoreTypeOK
<1>2. sessions[t].version \in Nat
  BY SessionIfExists DEF Session
<1> QED
  BY <1>1, <1>2, EvidenceType, DecideType, NextTransitionLeast DEF RecallActive, Time

=============================================================================

---------------------------- MODULE ReplayProofs ----------------------------
(***************************************************************************)
(* What the page shows, for every number of clicks, every pause, budget,   *)
(* limit and clock: a receipt is displayed as the recorded denial of the   *)
(* session the page holds only when it is that, and in both builds, though *)
(* requests are refused, lost, or served after the page gave them up.      *)
(*                                                                         *)
(* All of it follows from one invariant (ReplayInv): a request that is     *)
(* awaited is the page's last, one that is served late can neither make    *)
(* the session anew nor undo what is recorded for it, and the memories of  *)
(* a session only ever have one of four forms, of which the page never     *)
(* meets the first two: a creation that failed half done is nobody's.      *)
(* That a replay blocks needs one more (Blocking): by when the denial is   *)
(* in force.                                                               *)
(***************************************************************************)
EXTENDS ReplayClient, LeaseStoreProofs, FiniteSetTheorems

-----------------------------------------------------------------------------
(* Types *)

LEMMA NumberedTypes ==
    /\ Tenant = 1 .. MaxClicks /\ ReceiptId = 1 .. MaxClicks
    /\ MaxClicks \in Nat \ {0}
    /\ None \notin Tenant
    /\ BrowserSkew \in Int /\ Pause \in Nat
    /\ TTL \in Nat \ {0} /\ UseLimit \in Nat \ {0} /\ SessionUseLimit \in Nat \ {0}
    /\ PermissionTopic \in Topic /\ AudienceTopic \in Topic /\ Publish \in Query
BY PageAssumption, SessionAssumption, FixtureAssumption, NoneAssumption

LEMMA RequestType ==
    ASSUME ReplayTypeOK, NEW n \in 1 .. MaxClicks, NEW for \in Awaiting, NEW t \in Tenant
    PROVE  /\ Request(n, for, t) \in Requests
           /\ Request(n, for, t).click = n
           /\ Request(n, for, t).for = for
           /\ Request(n, for, t).tenant = t
<1>1. now + BrowserSkew \in Int
  BY NumberedTypes DEF ReplayTypeOK, StoreTypeOK
<1> QED
  BY <1>1 DEF Request, Requests, Time

LEMMA Sent ==
    ASSUME ReplayTypeOK, NEW r \in net
    PROVE  /\ r \in Requests
           /\ r.click \in 1 .. MaxClicks /\ r.click \in ReceiptId
           /\ r.for \in Awaiting /\ r.tenant \in Tenant /\ r.from \in Int
BY NumberedTypes DEF ReplayTypeOK, PageTypeOK, Requests, Time

LEMMA AnswerType ==
    ASSUME ReplayTypeOK, NEW r \in net, NEW ok \in BOOLEAN,
           NEW receipt \in ActionReceipt \cup {None}, Answer(r, ok, receipt)
    PROVE  PageTypeOK'
<1>1. [to |-> r, ok |-> ok, receipt |-> receipt] \in Answers
  BY Sent DEF Answers
<1> QED
  BY <1>1 DEF Answer, ReplayTypeOK, PageTypeOK

\* A click, and what it leads to on the page.
LEMMA PageStepType ==
    ASSUME ReplayInv, Page \/ Click
    PROVE  PageTypeOK'
<1> USE DEF ReplayInv
<1>1. /\ PageTypeOK /\ now \in 0 .. MaxTime
      /\ step \in Awaiting => step # "idle"
  BY DEF ReplayTypeOK, StoreTypeOK, Awaiting
<1>2. answer # None => answer \in Answers /\ answer.to \in Requests /\ answer.to.tenant \in Tenant
                       /\ answer.receipt \in ActionReceipt \cup {None}
  BY <1>1 DEF PageTypeOK, Answers, Requests
<1>3. step \in Awaiting \cup {"pausing"} /\ step # "creating" => session \in Tenant
  BY <1>1 DEF StepFits, Awaiting, PageTypeOK
<1>4. ASSUME NEW for \in Awaiting, NEW t \in Tenant, NEW n \in 1 .. MaxClicks
      PROVE  Request(n, for, t) \in Requests
  BY RequestType
<1>5. clicks < MaxClicks => clicks + 1 \in 1 .. MaxClicks /\ clicks + 1 \in Tenant
  BY <1>1, NumberedTypes DEF PageTypeOK
<1>6. CASE Reset
  <2>1. net' = net \cup {Request(clicks + 1, "creating", clicks + 1)}
        /\ clicks + 1 \in 1 .. MaxClicks /\ clicks + 1 \in Tenant
    BY <1>5, <1>6 DEF Reset, Clicks
  <2>2. Request(clicks + 1, "creating", clicks + 1) \in Requests
    BY <1>4, <2>1 DEF Awaiting
  <2> QED
    BY <1>1, <1>6, <2>1, <2>2 DEF Reset, Clicks, Wiped, PageTypeOK, Awaiting
<1>7. CASE Run
  <2>1. /\ net' = net \cup {Request(clicks + 1, "revoking", session)}
        /\ clicks + 1 \in 1 .. MaxClicks /\ session \in Tenant
    BY <1>1, <1>5, <1>7 DEF Run, Clicks, PageTypeOK
  <2>2. Request(clicks + 1, "revoking", session) \in Requests
    BY <1>4, <2>1 DEF Awaiting
  <2> QED
    BY <1>1, <1>7, <2>1, <2>2 DEF Run, Clicks, PageTypeOK, Awaiting
<1>8. CASE Created
  <2>1. /\ answer.to.tenant \in Tenant /\ clicks \in 1 .. MaxClicks
        /\ net' = net \cup {Request(clicks, "loading", answer.to.tenant)}
    BY <1>1, <1>2, <1>8 DEF Created, Succeeded, Sends, PageTypeOK
  <2>2. Request(clicks, "loading", answer.to.tenant) \in Requests
    BY <1>4, <2>1 DEF Awaiting
  <2> QED
    BY <1>1, <1>8, <2>1, <2>2 DEF Created, Sends, PageTypeOK, Awaiting
<1>9. CASE Restarted
  <2>1. /\ session \in Tenant /\ clicks \in 1 .. MaxClicks
        /\ net' = net \cup {Request(clicks, "evaluating", session)}
    BY <1>1, <1>3, <1>9 DEF Restarted, Sends, PageTypeOK
  <2>2. Request(clicks, "evaluating", session) \in Requests
    BY <1>4, <2>1 DEF Awaiting
  <2> QED
    BY <1>1, <1>9, <2>1, <2>2 DEF Restarted, Sends, PageTypeOK, Awaiting
<1>10. CASE Evaluated
  <2>1. /\ session \in Tenant /\ clicks \in 1 .. MaxClicks
        /\ net' = net \cup {Request(clicks, "reading", session)}
    BY <1>1, <1>3, <1>10 DEF Evaluated, Succeeded, Sends, PageTypeOK, Awaiting
  <2>2. Request(clicks, "reading", session) \in Requests
    BY <1>4, <2>1 DEF Awaiting
  <2>3. held' \in ActionReceipt \cup {None}
    BY <1>2, <1>10 DEF Evaluated, Succeeded
  <2> QED
    BY <1>1, <1>10, <2>1, <2>2, <2>3 DEF Evaluated, Sends, PageTypeOK, Awaiting
<1>11. CASE Loaded \/ Rendered \/ Failed
  BY <1>1, <1>11 DEF Loaded, Rendered, Failed, Rests, Displays, PageTypeOK, Labels
<1>12. CASE Revoked
  BY <1>1, <1>12 DEF Revoked, PageTypeOK
<1> QED
  BY <1>6, <1>7, <1>8, <1>9, <1>10, <1>11, <1>12 DEF Page, Click

-----------------------------------------------------------------------------
(* What the service does *)

LEMMA StoreTypes ==
    ASSUME ReplayInv
    PROVE  /\ StoreTypeOK /\ now \in Nat /\ now \in 0 .. MaxTime
           /\ \A t \in Tenant : memories[t] \in Seq(Memory) /\ receipts[t] \in Seq(ActionReceipt)
BY StoreAssumption DEF ReplayInv, ReplayTypeOK, StoreTypeOK

LEMMA InitialMemoriesType ==
    ASSUME ReplayInv
    PROVE  /\ InitialMemories \in Seq(Memory)
           /\ Len(InitialMemories) = 2 /\ DOMAIN InitialMemories = 1 .. 2
           /\ InitialMemories[1].effect = "allow" /\ InitialMemories[2].effect = "context"
<1> DEFINE a == [effect |-> "allow", topic |-> PermissionTopic, from |-> now, until |-> now + TTL,
                 status |-> "active", supersedes |-> None, created |-> now]
           b == [effect |-> "context", topic |-> AudienceTopic, from |-> now, until |-> None,
                 status |-> "active", supersedes |-> None, created |-> now]
<1>1. a \in Memory /\ b \in Memory
  BY StoreTypes, NumberedTypes DEF Memory, Effect, Status, Time
<1>2. a.effect = "allow" /\ b.effect = "context"
  OBVIOUS
<1>3. InitialMemories = <<a, b>>
  BY DEF InitialMemories
<1> HIDE DEF a, b
<1> QED
  BY <1>1, <1>2, <1>3

\* A creation's memories, all or the first of them.
LEMMA FirstMemories ==
    ASSUME ReplayInv, NEW n \in 0 .. 2
    PROVE  /\ SubSeq(InitialMemories, 1, n) \in Seq(Memory)
           /\ Len(SubSeq(InitialMemories, 1, n)) = n
           /\ ReplayLedger(SubSeq(InitialMemories, 1, n))
<1> DEFINE ms == InitialMemories
           ns == SubSeq(ms, 1, n)
<1>1. /\ ms \in Seq(Memory) /\ Len(ms) = 2
      /\ ms[1].effect = "allow" /\ ms[2].effect = "context"
  BY InitialMemoriesType
<1> HIDE DEF ms
<1>2. n \in Int /\ (n = 0 \/ n = 1 \/ n = 2)
  OBVIOUS
<1>3. /\ ns \in Seq(Memory) /\ Len(ns) = n
      /\ \A i \in 1 .. n : ns[i] = ms[i]
  <2>1. \A i \in 1 .. n : i \in 1 .. Len(ms)
    BY <1>1, <1>2
  <2>2. ns \in Seq(Memory)
    BY <1>1, <2>1, SubSeqProperties
  <2>3. Len(ns) = n /\ \A i \in 1 .. n : ns[i] = ms[i]
    BY <1>1, <1>2
  <2> QED
    BY <2>2, <2>3
<1>6. (n >= 1 => ns[1] = ms[1]) /\ (n >= 2 => ns[2] = ms[2])
  BY <1>2, <1>3
<1> HIDE DEF ns
<1>7. ReplayLedger(ns)
  BY <1>1, <1>2, <1>3, <1>6 DEF ReplayLedger
<1> QED
  BY <1>3, <1>7 DEF ns, ms

LEMMA RevocationType ==
    ASSUME ReplayInv, NEW r \in net
    PROVE  /\ Revocation(r).supersedes \in MemoryId
           /\ Revocation(r).supersedes # None
           /\ Revocation(r).supersedes[1] = r.tenant
           /\ Revocation(r).supersedes[2] = 1
           /\ NewMemoryRecord(Revocation(r)) \in Memory
           /\ NewMemoryRecord(Revocation(r)) =
                [effect |-> "deny", topic |-> PermissionTopic, from |-> r.from, until |-> None,
                 status |-> "active", supersedes |-> 1, created |-> now]
<1>1. r.tenant \in Tenant /\ r.from \in Int /\ now \in Nat
  BY Sent, StoreTypes DEF ReplayInv
<1>2. /\ Revocation(r).supersedes = <<r.tenant, 1>>
      /\ Revocation(r).effect = "deny" /\ Revocation(r).topic = PermissionTopic
      /\ Revocation(r).from = r.from /\ Revocation(r).until = None
  BY DEF Revocation
<1>3. <<r.tenant, 1>> \in MemoryId
  BY <1>1 DEF MemoryId
<1>4. <<r.tenant, 1>> # None
  BY <1>3, ReplayAbsence
<1>5. NewMemoryRecord(Revocation(r)) =
        [effect |-> "deny", topic |-> PermissionTopic, from |-> r.from, until |-> None,
         status |-> "active", supersedes |-> 1, created |-> now]
  BY <1>2, <1>4 DEF NewMemoryRecord
<1>6. NewMemoryRecord(Revocation(r)) \in Memory
  BY <1>1, <1>5, NumberedTypes DEF Memory, Effect, Status, Time
<1> QED
  BY <1>2, <1>3, <1>4, <1>5, <1>6

\* The rows that a revocation leaves: it is served once, to a session as created.
LEMMA RowsRevoked ==
    ASSUME ReplayInv, ~ static, NEW r \in net, ServeAdd(r)
    PROVE  LET ms == memories[r.tenant]
               ns == memories'[r.tenant]
           IN  /\ Len(ms) = 2 /\ DOMAIN ms = 1 .. 2
               /\ ns \in Seq(Memory) /\ Len(ns) = 3 /\ DOMAIN ns = 1 .. 3
               /\ ns[1] = [ms[1] EXCEPT !.status = "superseded"]
               /\ ns[2] = ms[2]
               /\ ns[3] = NewMemoryRecord(Revocation(r))
<1> DEFINE t  == r.tenant
           ms == memories[t]
           d  == Revocation(r)
           ws == WithSuperseded(ms, d)
<1>1. t \in Tenant /\ ms \in Seq(Memory) /\ ReplayLedger(ms) /\ Whole(ms)
  BY Sent, StoreTypes DEF ReplayInv, SessionsWhole, ServeAdd, Authorized
<1>2. /\ d.supersedes # None /\ d.supersedes[2] = 1
      /\ NewMemoryRecord(d) \in Memory
  BY RevocationType
<1>3. 1 \in DOMAIN ms /\ IsActive(ms[1])
  BY <1>2 DEF ServeAdd, AddAccepted, Replaceable
<1>4. Len(ms) \in Nat /\ DOMAIN ms = 1 .. Len(ms)
  BY <1>1, LenProperties
<1>5. Len(ms) = 2
  BY <1>1, <1>3, <1>4 DEF ReplayLedger, Whole
<1>6. ws = [ms EXCEPT ![1].status = "superseded"]
  BY <1>2 DEF WithSuperseded
<1>7. ws \in Seq(Memory) /\ Len(ws) = 2
  <2> HIDE DEF d, ms
  <2>1. d.supersedes # None => d.supersedes[2] \in 1 .. Len(ms)
    BY <1>2, <1>5
  <2> QED
    BY <1>1, <1>5, <2>1, WithSupersededType
<1>8. /\ ws[1] = [ms[1] EXCEPT !.status = "superseded"]
      /\ ws[2] = ms[2]
  BY <1>4, <1>5, <1>6
<1>9. memories'[t] = Append(ws, NewMemoryRecord(d))
  BY <1>1 DEF ServeAdd, ReplayInv, ReplayTypeOK, StoreTypeOK
<1> HIDE DEF ws, d, ms, t
<1>10. /\ memories'[t] \in Seq(Memory) /\ Len(memories'[t]) = 3
       /\ memories'[t][1] = ws[1] /\ memories'[t][2] = ws[2]
       /\ memories'[t][3] = NewMemoryRecord(d)
  <2> DEFINE e == NewMemoryRecord(d)
  <2>1. e \in Memory
    BY <1>2
  <2> HIDE DEF e
  <2>2. /\ Append(ws, e) \in Seq(Memory)
        /\ Len(Append(ws, e)) = Len(ws) + 1
        /\ \A i \in 1 .. Len(ws) : Append(ws, e)[i] = ws[i]
        /\ Append(ws, e)[Len(ws) + 1] = e
    <3>1. ws \in Seq(Memory)
      BY <1>7
    <3> HIDE DEF ws
    <3> QED
      BY <2>1, <3>1, AppendProperties
  <2>3. Append(ws, e)[1] = ws[1] /\ Append(ws, e)[2] = ws[2] /\ Append(ws, e)[3] = e
    BY <1>7, <2>2
  <2> QED
    BY <1>7, <1>9, <2>2, <2>3 DEF e
<1> QED
  BY <1>4, <1>5, <1>8, <1>10, LenProperties DEF t, ms, d

LEMMA VerdictType ==
    ASSUME ReplayInv, NEW r \in net, Exists(r.tenant)
    PROVE  /\ Verdict(r) \in ActionReceipt
           /\ Verdict(r).tenant = r.tenant
           /\ Verdict(r).evidence = Evidence(memories[r.tenant], Publish, now)
           /\ Verdict(r).decision = Decide(memories[r.tenant], Verdict(r).evidence)
<1>1. /\ r.tenant \in Tenant /\ r.click \in ReceiptId /\ now \in Nat
      /\ Publish \in Query
  BY Sent, StoreTypes, NumberedTypes DEF ReplayInv
<1>2. /\ RecallActive(r.tenant, Publish).evidence \in SUBSET (Nat \ {0})
      /\ RecallActive(r.tenant, Publish).decision \in Decision
  BY <1>1, StoreTypes, RecallActiveType
<1> QED
  BY <1>1, <1>2 DEF Verdict, ActionReceipt, Time, RecallActive

LEMMA SpentType ==
    ASSUME ReplayInv, NEW t \in Tenant, Authorized(t, t, TRUE)
    PROVE  /\ sessions[t] \in Session /\ Exists(t)
           /\ Spent(t) \in [Tenant -> Session \cup {None}]
           /\ Spent(t)[t] \in Session
           /\ \A u \in Tenant : u # t => Spent(t)[u] = sessions[u]
<1>1. sessions[t] \in Session /\ Exists(t)
  BY StoreTypes, SessionIfExists DEF Authorized
<1>2. sessions[t].uses - 1 \in Nat
  BY <1>1 DEF Authorized, Session
<1>3. [sessions[t] EXCEPT !.uses = sessions[t].uses - 1] \in Session
  BY <1>1, <1>2 DEF Session
<1>4. Spent(t) = [sessions EXCEPT ![t] = [sessions[t] EXCEPT !.uses = sessions[t].uses - 1]]
  BY DEF Spent
<1> QED
  BY <1>1, <1>3, <1>4 DEF ReplayInv, ReplayTypeOK, StoreTypeOK

-----------------------------------------------------------------------------
(* What a step does to what is recorded for a session *)

\* Memories are added and superseded, and nothing else.
Marked(ms, ns) ==
    \A i \in DOMAIN ms :
        /\ i \in DOMAIN ns
        /\ ns[i].effect = ms[i].effect /\ ns[i].supersedes = ms[i].supersedes
        /\ ~ IsActive(ms[i]) => ~ IsActive(ns[i])

Prolonged(rs, ss) == \A i \in DOMAIN rs : i \in DOMAIN ss /\ ss[i] = rs[i]

Grown(t) ==
    Exists(t)' =>
        /\ Exists(t)
        /\ Marked(memories[t], memories'[t]) /\ Prolonged(receipts[t], receipts'[t])
        /\ Whole(memories[t]) => Whole(memories'[t])

LEMMA LedgerDenials ==
    ASSUME NEW ms, NEW n, n = Len(ms), n \in Nat, DOMAIN ms = 1 .. n, ReplayLedger(ms),
           NEW i \in DOMAIN ms, ms[i].effect = "deny"
    PROVE  i = 3 /\ n = 3 /\ ms[i].supersedes = 1 /\ ~ IsActive(ms[1])
<1>1. n \in 0 .. 3 /\ i \in 1 .. n
  BY DEF ReplayLedger
<1>2. i # 1 /\ i # 2
  BY <1>1 DEF ReplayLedger
<1> QED
  BY <1>1, <1>2 DEF ReplayLedger

LEMMA FoundedGrows ==
    ASSUME NEW ms, NEW ns, NEW rs, NEW ss, NEW x, Founded(x, ms, rs),
           Marked(ms, ns), Prolonged(rs, ss), 1 \in DOMAIN ms
    PROVE  Founded(x, ns, ss)
<1>1. \E i \in DOMAIN ss : ss[i] = x
  BY DEF Founded, Prolonged
<1>2. ~ IsActive(ns[1])
  BY DEF Founded, Marked
<1>3. \E i \in x.evidence \cap Denials(ns) : ns[i].supersedes = 1
  BY DEF Founded, Marked, Denials
<1> QED
  BY <1>1, <1>2, <1>3 DEF Founded

LEMMA Unchanging ==
    ASSUME NEW t, Exists(t)' => Exists(t),
           memories'[t] = memories[t], receipts'[t] = receipts[t]
    PROVE  Grown(t)
BY DEF Grown, Marked, Prolonged

\* An effect of the service on the store and the answer to the request it served.
Served(r) ==
    /\ StoreTypeOK'
    /\ now' = now
    /\ \A t \in Tenant : ReplayLedger(memories'[t])
    /\ \A t \in Tenant : (r.for = "creating" => t # r.tenant) => Grown(t)
    /\ \E ok \in BOOLEAN, receipt \in ActionReceipt \cup {None} :
          /\ Answer(r, ok, receipt)
          /\ r.for = "creating" /\ ok => Whole(memories'[r.tenant])
          /\ r.for = "evaluating" /\ ok =>
                /\ receipt # None /\ receipt.tenant = r.tenant
                /\ receipt.decision = "deny" =>
                      Founded(receipt, memories'[r.tenant], receipts'[r.tenant])

\* All of a session is answered, or what there is of it is not.
LEMMA Opened ==
    ASSUME NEW r, ServeCreate(r) \/ FailCreate(r)
    PROVE  \E n \in 0 .. 2, ok \in BOOLEAN :
               Opens(r, n) /\ Answer(r, ok, None) /\ (ok => n = 2)
<1>1. CASE ServeCreate(r)
  <2>1. Opens(r, 2) /\ Answer(r, TRUE, None)
    BY <1>1 DEF ServeCreate
  <2>2. 2 \in 0 .. 2 /\ TRUE \in BOOLEAN
    OBVIOUS
  <2> QED
    BY <2>1, <2>2, Zenon
<1>2. CASE FailCreate(r)
  <2>1. PICK n \in 0 .. 2 : Opens(r, n)
    BY <1>2 DEF FailCreate
  <2>2. Answer(r, FALSE, None)
    BY <1>2 DEF FailCreate
  <2> QED
    BY <2>1, <2>2
<1> QED
  BY <1>1, <1>2

LEMMA CreateServes ==
    ASSUME ReplayInv, NEW r \in net, ServeCreate(r) \/ FailCreate(r)
    PROVE  Served(r)
<1>0. PICK n \in 0 .. 2, ok \in BOOLEAN :
        Opens(r, n) /\ Answer(r, ok, None) /\ (ok => n = 2)
  BY Opened
<1> DEFINE ms == SubSeq(InitialMemories, 1, n)
<1>11. ms \in Seq(Memory) /\ Len(ms) = n /\ ReplayLedger(ms) /\ n \in Nat
  BY FirstMemories
<1>1. r.tenant \in Tenant /\ r.for = "creating" /\ StoreTypeOK /\ now' = now
  BY <1>0, Sent, StoreTypes DEF ReplayInv, Opens
<1>2. hourly' \in [Windows -> Nat]
  BY <1>0, <1>1, CountType DEF Opens
<1>3. /\ now + TTL \in Time /\ UseLimit \in Nat
  BY StoreTypes, NumberedTypes DEF Time
<1>4. [token |-> r.tenant, expires |-> now + TTL, uses |-> UseLimit, version |-> n] \in Session
  BY <1>1, <1>3, <1>11 DEF Session, Token
<1>5. sessions' \in [Tenant -> Session \cup {None}]
  BY <1>0, <1>1, <1>4 DEF Opens, StoreTypeOK
<1>6. /\ memories'[r.tenant] = ms
      /\ \A t \in Tenant : t # r.tenant => memories'[t] = memories[t]
      /\ \A t \in Tenant : t # r.tenant => sessions'[t] = sessions[t]
      /\ receipts' = receipts
  BY <1>0, <1>1 DEF Opens, StoreTypeOK
<1>7. memories' \in [Tenant -> Seq(Memory)]
  BY <1>0, <1>1, <1>11 DEF Opens, StoreTypeOK
<1> HIDE DEF ms
<1>8. ok => Whole(ms)
  BY <1>0, <1>11 DEF Whole
<1>9. \A t \in Tenant : ReplayLedger(memories'[t])
  BY <1>6, <1>11 DEF ReplayInv
<1>10. \A t \in Tenant : t # r.tenant => Grown(t)
  BY <1>6, Unchanging DEF Exists
<1> QED
  BY <1>0, <1>1, <1>2, <1>5, <1>6, <1>7, <1>8, <1>9, <1>10 DEF Served, StoreTypeOK

\* A refusal, and an answer that only reads.
LEMMA OthersServe ==
    ASSUME ReplayInv, NEW r \in net,
           RefuseCreate(r) \/ RefuseCall(r) \/ ServeState(r) \/ FailCall(r)
    PROVE  Served(r)
<1>1. r.tenant \in Tenant /\ StoreTypeOK
  BY Sent, StoreTypes DEF ReplayInv
<1>2. memories' = memories /\ receipts' = receipts /\ now' = now
  BY DEF RefuseCreate, RefuseSession, RefuseCall, ServeState, FailCall, storeVars
<1>3. /\ StoreTypeOK'
      /\ \A t \in Tenant : Exists(t)' => Exists(t)
  <2>1. CASE RefuseCreate(r)
    BY <1>1, <2>1, RefuseSessionType DEF RefuseCreate, RefuseSession, Exists
  <2>2. CASE RefuseCall(r)
    BY <1>1, <2>2 DEF RefuseCall, storeVars, StoreTypeOK, Exists
  <2>3. CASE ServeState(r) \/ FailCall(r)
    <3>1. /\ sessions' \in [Tenant -> Session \cup {None}] /\ hourly' = hourly
          /\ Exists(r.tenant)
          /\ \A u \in Tenant : u # r.tenant => sessions'[u] = sessions[u]
      BY <1>1, <2>3, SpentType DEF ServeState, FailCall
    <3> QED
      BY <1>1, <1>2, <3>1 DEF StoreTypeOK, Exists
  <2> QED
    BY <2>1, <2>2, <2>3
<1>4. \A t \in Tenant : Grown(t)
  BY <1>2, <1>3, Unchanging
<1>5. \A t \in Tenant : ReplayLedger(memories'[t])
  BY <1>2 DEF ReplayInv
<1>6. \E ok \in BOOLEAN : Answer(r, ok, None) /\ (ok => r.for \notin {"creating", "evaluating"})
  BY DEF RefuseCreate, RefuseCall, ServeState, FailCall
<1> QED
  BY <1>2, <1>3, <1>4, <1>5, <1>6 DEF Served

LEMMA AddServes ==
    ASSUME ReplayInv, ~ static, NEW r \in net, ServeAdd(r)
    PROVE  Served(r)
<1> DEFINE t == r.tenant
<1>1. t \in Tenant /\ StoreTypeOK /\ now' = now /\ hourly' = hourly /\ receipts' = receipts
  BY Sent, StoreTypes DEF ReplayInv, ServeAdd
<1>2. /\ DOMAIN memories[t] = 1 .. 2 /\ Len(memories[t]) = 2
      /\ memories'[t] \in Seq(Memory) /\ Len(memories'[t]) = 3 /\ DOMAIN memories'[t] = 1 .. 3
      /\ memories'[t][1] = [memories[t][1] EXCEPT !.status = "superseded"]
      /\ memories'[t][2] = memories[t][2]
      /\ memories'[t][3] = NewMemoryRecord(Revocation(r))
  BY RowsRevoked
<1>3. \A u \in Tenant : u # t => memories'[u] = memories[u]
  BY <1>1 DEF ServeAdd, StoreTypeOK
<1>4. memories' \in [Tenant -> Seq(Memory)]
  <2>1. memories' = [u \in Tenant |-> memories'[u]]
    BY <1>1 DEF ServeAdd, StoreTypeOK
  <2> QED
    BY <1>1, <1>2, <1>3, <2>1 DEF StoreTypeOK
<1>5. /\ sessions' \in [Tenant -> Session \cup {None}] /\ Exists(t)
      /\ \A u \in Tenant : u # t => sessions'[u] = sessions[u]
  <2>1. /\ Spent(t) \in [Tenant -> Session \cup {None}] /\ Spent(t)[t] \in Session /\ Exists(t)
        /\ \A u \in Tenant : u # t => Spent(t)[u] = sessions[u]
    BY <1>1, SpentType DEF ServeAdd
  <2>2. [Spent(t)[t] EXCEPT !.version = Spent(t)[t].version + 1] \in Session
    BY <2>1 DEF Session
  <2>3. sessions' = [Spent(t) EXCEPT ![t] = [Spent(t)[t] EXCEPT !.version = Spent(t)[t].version + 1]]
    BY DEF ServeAdd
  <2> QED
    BY <1>1, <2>1, <2>2, <2>3
<1>6. ReplayLedger(memories'[t])
  <2>1. memories[t] \in Seq(Memory) /\ ReplayLedger(memories[t])
        /\ memories[t][1] \in Memory
    BY <1>1, <1>2, MemoryAt DEF ReplayInv, StoreTypeOK
  <2>2. memories[t][1].effect = "allow" /\ memories[t][2].effect = "context"
    BY <1>2, <2>1 DEF ReplayLedger
  <2>3. /\ memories'[t][1].effect = "allow" /\ ~ IsActive(memories'[t][1])
    BY <1>2, <2>1, <2>2 DEF Memory, IsActive
  <2>4. memories'[t][3].effect = "deny" /\ memories'[t][3].supersedes = 1
    BY <1>2, RevocationType
  <2> QED
    BY <1>2, <2>2, <2>3, <2>4 DEF ReplayLedger
<1>7. Grown(t)
  <2>1. memories[t][1] \in Memory
    BY <1>1, <1>2, MemoryAt
  <2>2. /\ memories'[t][1].effect = memories[t][1].effect
        /\ memories'[t][1].supersedes = memories[t][1].supersedes
        /\ ~ IsActive(memories'[t][1])
    BY <1>2, <2>1 DEF Memory, IsActive
  <2>3. Marked(memories[t], memories'[t])
    <3>1. ASSUME NEW i \in DOMAIN memories[t]
          PROVE  /\ i \in DOMAIN memories'[t]
                 /\ memories'[t][i].effect = memories[t][i].effect
                 /\ memories'[t][i].supersedes = memories[t][i].supersedes
                 /\ ~ IsActive(memories[t][i]) => ~ IsActive(memories'[t][i])
      <4>1. (i = 1 \/ i = 2) /\ i \in DOMAIN memories'[t]
        BY <1>2, <3>1
      <4> HIDE DEF t
      <4> QED
        BY <1>2, <2>2, <4>1
    <3> QED
      BY <3>1 DEF Marked
  <2> QED
    BY <1>1, <1>2, <1>5, <2>3 DEF Grown, Prolonged, Whole
<1>8. \A u \in Tenant : Grown(u)
  BY <1>1, <1>3, <1>5, <1>7, Unchanging DEF Exists
<1>9. \A u \in Tenant : ReplayLedger(memories'[u])
  BY <1>3, <1>6 DEF ReplayInv
<1> QED
  BY <1>1, <1>4, <1>5, <1>8, <1>9 DEF ServeAdd, Served, StoreTypeOK

LEMMA EvaluateServes ==
    ASSUME ReplayInv, NEW r \in net, ServeEvaluate(r)
    PROVE  Served(r)
<1> DEFINE t == r.tenant
           x == Verdict(r)
<1>1. /\ t \in Tenant /\ StoreTypeOK /\ now' = now /\ hourly' = hourly /\ memories' = memories
      /\ r.for = "evaluating"
  BY Sent, StoreTypes DEF ReplayInv, ServeEvaluate
<1>2. /\ sessions' \in [Tenant -> Session \cup {None}] /\ Exists(t)
      /\ \A u \in Tenant : u # t => sessions'[u] = sessions[u]
  BY <1>1, SpentType DEF ServeEvaluate
<1>3. /\ x \in ActionReceipt /\ x.tenant = t
      /\ x.evidence = Evidence(memories[t], Publish, now)
      /\ x.decision = Decide(memories[t], x.evidence)
      /\ receipts' = [receipts EXCEPT ![t] = Append(receipts[t], x)]
      /\ Answer(r, TRUE, x)
  BY <1>2, VerdictType DEF ServeEvaluate
<1> HIDE DEF x
<1>4. /\ Append(receipts[t], x) \in Seq(ActionReceipt)
      /\ \A i \in DOMAIN receipts[t] :
            i \in DOMAIN Append(receipts[t], x) /\ Append(receipts[t], x)[i] = receipts[t][i]
      /\ \E i \in DOMAIN Append(receipts[t], x) : Append(receipts[t], x)[i] = x
  <2> DEFINE rs == receipts[t]
  <2>1. rs \in Seq(ActionReceipt)
    BY <1>1 DEF StoreTypeOK
  <2> HIDE DEF rs
  <2>2. /\ Append(rs, x) \in Seq(ActionReceipt)
        /\ Len(Append(rs, x)) = Len(rs) + 1
        /\ \A i \in 1 .. Len(rs) : Append(rs, x)[i] = rs[i]
        /\ Append(rs, x)[Len(rs) + 1] = x
    BY <1>3, <2>1, AppendProperties
  <2>3. /\ DOMAIN rs = 1 .. Len(rs) /\ Len(rs) \in Nat
        /\ DOMAIN Append(rs, x) = 1 .. Len(Append(rs, x))
    BY <2>1, <2>2, LenProperties
  <2>4. Len(rs) + 1 \in DOMAIN Append(rs, x) /\ DOMAIN rs \subseteq DOMAIN Append(rs, x)
    BY <2>2, <2>3
  <2> QED
    BY <2>2, <2>3, <2>4 DEF rs
<1>5. /\ receipts'[t] = Append(receipts[t], x)
      /\ \A u \in Tenant : u # t => receipts'[u] = receipts[u]
      /\ receipts' \in [Tenant -> Seq(ActionReceipt)]
  BY <1>1, <1>3, <1>4 DEF StoreTypeOK
<1>6. \A u \in Tenant : Grown(u)
  <2>1. Grown(t)
    BY <1>1, <1>2, <1>4, <1>5 DEF Grown, Marked, Prolonged
  <2> QED
    BY <1>1, <1>2, <1>5, <2>1, Unchanging DEF Exists
<1>7. ASSUME x.decision = "deny" PROVE Founded(x, memories'[t], receipts'[t])
  <2>1. PICK i \in x.evidence : memories[t][i].effect = "deny"
    BY <1>3, <1>7 DEF Decide
  <2>2. i \in DOMAIN memories[t]
    BY <1>3, <2>1 DEF Evidence, Recalled, InForce
  <2>3. /\ Len(memories[t]) \in Nat /\ DOMAIN memories[t] = 1 .. Len(memories[t])
        /\ ReplayLedger(memories[t])
    BY <1>1, LenProperties DEF StoreTypeOK, ReplayInv
  <2>4. memories[t][i].supersedes = 1 /\ ~ IsActive(memories[t][1])
    BY <2>1, <2>2, <2>3, LedgerDenials
  <2> QED
    BY <1>1, <1>4, <1>5, <2>1, <2>2, <2>4 DEF Founded, Denials
<1>8. \A u \in Tenant : ReplayLedger(memories'[u])
  BY <1>1 DEF ReplayInv
<1>9. x # None
  BY <1>3, ReplayAbsence
<1> QED
  BY <1>1, <1>2, <1>3, <1>5, <1>6, <1>7, <1>8, <1>9 DEF Served, StoreTypeOK

LEMMA ServiceServes ==
    ASSUME ReplayInv, ~ static, NEW r \in net, Serve(r)
    PROVE  Served(r)
BY CreateServes, OthersServe, AddServes, EvaluateServes DEF Serve

-----------------------------------------------------------------------------
(* What the fixture does *)

FixtureGrown ==
    IF fixture = None THEN fixture' = None
    ELSE /\ fixture' # None /\ fixture'.tenant = fixture.tenant
         /\ Marked(fixture.memories, fixture'.memories)
         /\ Prolonged(fixture.receipts, fixture'.receipts)

FixtureServed(r) ==
    /\ fixture' \in Fixture \cup {None}
    /\ fixture' # None => Whole(fixture'.memories) /\ ReplayLedger(fixture'.memories)
    /\ \E ok \in BOOLEAN, receipt \in ActionReceipt \cup {None} :
          /\ Answer(r, ok, receipt)
          /\ IF r.for = "creating" /\ ok THEN fixture' # None /\ fixture'.tenant = r.tenant
                                         ELSE FixtureGrown
          /\ r.for = "evaluating" /\ ok =>
                /\ receipt # None /\ receipt.tenant = r.tenant
                /\ Founded(receipt, fixture'.memories, fixture'.receipts)

LEMMA FixtureRows ==
    ASSUME ReplayInv, fixture # None
    PROVE  /\ fixture \in Fixture
           /\ fixture.tenant \in Tenant /\ fixture.uses \in Int
           /\ fixture.memories \in Seq(FixtureMemory)
           /\ fixture.receipts \in Seq(ActionReceipt)
           /\ ReplayLedger(fixture.memories) /\ Whole(fixture.memories)
           /\ Len(fixture.memories) \in {2, 3}
           /\ DOMAIN fixture.memories = 1 .. Len(fixture.memories)
           /\ \A i \in DOMAIN fixture.memories : fixture.memories[i] \in FixtureMemory
<1>1. fixture \in Fixture
  BY DEF ReplayInv, ReplayTypeOK, FixtureTypeOK
<1>2. /\ fixture.tenant \in Tenant /\ fixture.uses \in Int
      /\ fixture.memories \in Seq(FixtureMemory)
      /\ fixture.receipts \in Seq(ActionReceipt)
  BY <1>1 DEF Fixture
<1>3. ReplayLedger(fixture.memories) /\ Whole(fixture.memories)
  BY DEF ReplayInv
<1>4. Len(fixture.memories) \in {2, 3}
  BY <1>3 DEF ReplayLedger, Whole
<1>5. /\ DOMAIN fixture.memories = 1 .. Len(fixture.memories)
      /\ \A i \in DOMAIN fixture.memories : fixture.memories[i] \in FixtureMemory
  BY <1>2, LenProperties, ElementOfSeq
<1> QED
  BY <1>1, <1>2, <1>3, <1>4, <1>5

LEMMA SpendKeeps ==
    ASSUME ReplayInv, fixture # None
    PROVE  /\ Spend \in Fixture /\ Spend # None
           /\ Spend.tenant = fixture.tenant
           /\ Spend.memories = fixture.memories
           /\ Spend.receipts = fixture.receipts
<1>1. Spend \in Fixture
  BY FixtureRows DEF Spend, Fixture
<1>2. /\ Spend.tenant = fixture.tenant
      /\ Spend.memories = fixture.memories
      /\ Spend.receipts = fixture.receipts
  BY FixtureRows DEF Spend, Fixture
<1> QED
  BY <1>1, <1>2, ReplayAbsence

\* The fixture with its permission superseded, and a use spent.
LEMMA SupersededKeeps ==
    ASSUME ReplayInv, fixture # None
    PROVE  /\ Superseded \in Fixture /\ Superseded # None
           /\ Superseded.tenant = fixture.tenant
           /\ Superseded.receipts = fixture.receipts
           /\ Superseded.memories = [fixture.memories EXCEPT ![1].status = "superseded"]
           /\ Superseded.memories \in Seq(FixtureMemory)
           /\ Len(Superseded.memories) = Len(fixture.memories)
           /\ DOMAIN Superseded.memories = DOMAIN fixture.memories
           /\ Superseded.memories[1].effect = "allow"
           /\ Superseded.memories[2].effect = "context"
           /\ ~ IsActive(Superseded.memories[1])
           /\ Marked(fixture.memories, Superseded.memories)
<1> DEFINE ms == fixture.memories
           e  == [ms[1] EXCEPT !.status = "superseded"]
           ns == [ms EXCEPT ![1] = e]
<1>1. /\ Superseded = [Spend EXCEPT !.memories = [Spend.memories EXCEPT ![1] =
                              [Spend.memories[1] EXCEPT !.status = "superseded"]]]
      /\ [ms EXCEPT ![1].status = "superseded"] = ns
  BY DEF Superseded
<1>2. Superseded = [Spend EXCEPT !.memories = ns]
  BY <1>1, SpendKeeps
<1>3. /\ ms \in Seq(FixtureMemory) /\ 1 \in 1 .. Len(ms) /\ 1 \in DOMAIN ms
      /\ ms[1] \in FixtureMemory /\ DOMAIN ms = 1 .. Len(ms)
      /\ Len(ms) \in {2, 3} /\ ReplayLedger(ms)
  BY FixtureRows
<1>4. e \in FixtureMemory
  BY <1>3 DEF FixtureMemory, Status
<1>5. ns \in Seq(FixtureMemory) /\ Len(ns) = Len(ms)
  <2> HIDE DEF e, ms
  <2> QED
    BY <1>3, <1>4, ExceptSeq
<1>6. /\ ns[1].effect = "allow" /\ ns[2].effect = "context"
      /\ ~ IsActive(ns[1]) /\ ns[1].supersedes = ms[1].supersedes
      /\ ms[1].effect = "allow"
  BY <1>3 DEF ReplayLedger, FixtureMemory, IsActive
<1>7. Marked(ms, ns)
  BY <1>3, <1>6 DEF Marked
<1>8. Superseded \in Fixture
  <2> HIDE DEF ns
  <2> QED
    BY <1>2, <1>5, SpendKeeps DEF Fixture
<1>9. /\ Superseded.tenant = fixture.tenant
      /\ Superseded.receipts = fixture.receipts
      /\ Superseded.memories = ns
  <2> HIDE DEF ns
  <2> QED
    BY <1>2, <1>5, SpendKeeps DEF Fixture
<1>10. DOMAIN ns = DOMAIN ms
  OBVIOUS
<1> QED
  BY <1>1, <1>5, <1>6, <1>7, <1>8, <1>9, <1>10, ReplayAbsence

\* A use is spent, or nothing is.
LEMMA FixtureSame ==
    ASSUME ReplayInv, NEW r \in net, fixture' = fixture \/ (fixture # None /\ fixture' = Spend),
           NEW ok \in BOOLEAN, Answer(r, ok, None),
           ok => r.for \notin {"creating", "evaluating"}
    PROVE  FixtureServed(r)
<1>1. FixtureGrown
  <2>1. CASE fixture = None
    BY <2>1 DEF FixtureGrown
  <2>2. CASE fixture # None
    BY <2>2, SpendKeeps DEF FixtureGrown, Marked, Prolonged
  <2> QED
    BY <2>1, <2>2
<1>2. /\ fixture' \in Fixture \cup {None}
      /\ fixture' # None => Whole(fixture'.memories) /\ ReplayLedger(fixture'.memories)
  BY SpendKeeps DEF ReplayInv, ReplayTypeOK, FixtureTypeOK
<1> QED
  BY <1>1, <1>2 DEF FixtureServed

LEMMA FixtureCreateServes ==
    ASSUME ReplayInv, NEW r \in net, FixtureCreate(r)
    PROVE  FixtureServed(r)
<1> DEFINE a == Remembered("allow", None)
           b == Remembered("context", None)
<1>1. a \in FixtureMemory /\ b \in FixtureMemory /\ a.effect = "allow" /\ b.effect = "context"
  BY DEF Remembered, FixtureMemory, Effect, Status
<1>2. /\ fixture' = [tenant |-> r.tenant, uses |-> SessionUseLimit, memories |-> <<a, b>>,
                     receipts |-> <<>>]
      /\ r.for = "creating" /\ Answer(r, TRUE, None)
  BY DEF FixtureCreate, NewFixture
<1> HIDE DEF a, b
<1>3. /\ <<a, b>> \in Seq(FixtureMemory) /\ Len(<<a, b>>) = 2
      /\ <<a, b>>[1] = a /\ <<a, b>>[2] = b
  BY <1>1
<1>4. <<>> \in Seq(ActionReceipt)
  BY EmptySeq
<1>5. fixture' \in Fixture
  BY <1>2, <1>3, <1>4, Sent, NumberedTypes DEF Fixture, ReplayInv
<1>6. ReplayLedger(<<a, b>>)
  BY <1>1, <1>3 DEF ReplayLedger
<1>7. fixture' # None
  BY <1>5, ReplayAbsence
<1>8. fixture'.memories = <<a, b>> /\ fixture'.tenant = r.tenant
  BY <1>2
<1>9. Whole(<<a, b>>)
  BY <1>3 DEF Whole
<1> QED
  BY <1>2, <1>5, <1>6, <1>7, <1>8, <1>9 DEF FixtureServed

LEMMA FixtureAddServes ==
    ASSUME ReplayInv, NEW r \in net, FixtureAdd(r)
    PROVE  FixtureServed(r)
<1> DEFINE ws == Superseded.memories
           e  == Remembered("deny", 1)
<1>1. /\ fixture # None /\ IsActive(fixture.memories[1])
      /\ fixture' = [Superseded EXCEPT !.memories = Append(ws, e)]
      /\ r.for = "revoking" /\ Answer(r, TRUE, None)
  BY DEF FixtureAdd, Admitted, Holds
<1>2. Len(fixture.memories) = 2
  BY <1>1, FixtureRows DEF ReplayLedger
<1>3. /\ Superseded \in Fixture
      /\ Superseded.tenant = fixture.tenant
      /\ Superseded.receipts = fixture.receipts
      /\ ws \in Seq(FixtureMemory) /\ Len(ws) = 2 /\ DOMAIN ws = 1 .. 2
      /\ ws[1].effect = "allow" /\ ws[2].effect = "context" /\ ~ IsActive(ws[1])
      /\ Marked(fixture.memories, ws)
  BY <1>1, <1>2, FixtureRows, SupersededKeeps
<1>4. e \in FixtureMemory /\ e.effect = "deny" /\ e.supersedes = 1
  BY DEF Remembered, FixtureMemory, Effect, Status
<1> HIDE DEF ws, e
<1>5. /\ Append(ws, e) \in Seq(FixtureMemory) /\ Len(Append(ws, e)) = 3
      /\ DOMAIN Append(ws, e) = 1 .. 3
      /\ Append(ws, e)[1] = ws[1] /\ Append(ws, e)[2] = ws[2] /\ Append(ws, e)[3] = e
  <2>1. /\ Append(ws, e) \in Seq(FixtureMemory)
        /\ Len(Append(ws, e)) = Len(ws) + 1
        /\ \A i \in 1 .. Len(ws) : Append(ws, e)[i] = ws[i]
        /\ Append(ws, e)[Len(ws) + 1] = e
    <3>1. ws \in Seq(FixtureMemory) /\ e \in FixtureMemory
      BY <1>3, <1>4
    <3> QED
      BY <3>1, AppendProperties
  <2>2. DOMAIN Append(ws, e) = 1 .. Len(Append(ws, e))
    BY <2>1, LenProperties
  <2> QED
    BY <1>3, <2>1, <2>2
<1>6. /\ fixture' \in Fixture
      /\ fixture'.tenant = fixture.tenant
      /\ fixture'.receipts = fixture.receipts
      /\ fixture'.memories = Append(ws, e)
  <2> DEFINE ns == Append(ws, e)
  <2>1. ns \in Seq(FixtureMemory) /\ fixture' = [Superseded EXCEPT !.memories = ns]
    BY <1>1, <1>5
  <2> HIDE DEF ns
  <2>2. fixture' \in Fixture /\ fixture'.memories = ns
        /\ fixture'.tenant = fixture.tenant /\ fixture'.receipts = fixture.receipts
    BY <1>3, <2>1 DEF Fixture
  <2> QED
    BY <2>2 DEF ns
<1>7. ReplayLedger(Append(ws, e))
  BY <1>3, <1>4, <1>5 DEF ReplayLedger
<1>8. Marked(ws, Append(ws, e))
  <2>1. ASSUME NEW i \in DOMAIN ws
        PROVE  i \in DOMAIN Append(ws, e) /\ Append(ws, e)[i] = ws[i]
    <3>1. i = 1 \/ i = 2
      BY <1>3, <2>1
    <3> QED
      BY <1>5, <3>1
  <2> QED
    BY <2>1 DEF Marked
<1>9. Marked(fixture.memories, Append(ws, e))
  BY <1>3, <1>8 DEF Marked
<1>10. fixture' # None
  BY <1>6, ReplayAbsence
<1>11. FixtureGrown
  BY <1>1, <1>6, <1>9, <1>10 DEF FixtureGrown, Prolonged
<1>12. Whole(Append(ws, e))
  BY <1>5 DEF Whole
<1> QED
  BY <1>1, <1>6, <1>7, <1>11, <1>12 DEF FixtureServed

LEMMA FixtureAddFailsServes ==
    ASSUME ReplayInv, NEW r \in net, FixtureAddFails(r)
    PROVE  FixtureServed(r)
<1>1. /\ fixture # None /\ IsActive(fixture.memories[1])
      /\ fixture' = Superseded /\ Answer(r, FALSE, None)
  BY DEF FixtureAddFails, Admitted, Holds
<1>2. Len(fixture.memories) = 2
  BY <1>1, FixtureRows DEF ReplayLedger
<1>3. /\ fixture' \in Fixture /\ fixture' # None /\ fixture'.tenant = fixture.tenant
      /\ fixture'.receipts = fixture.receipts
      /\ Len(fixture'.memories) = 2
      /\ fixture'.memories[1].effect = "allow" /\ fixture'.memories[2].effect = "context"
      /\ Marked(fixture.memories, fixture'.memories)
  BY <1>1, <1>2, SupersededKeeps
<1>4. Whole(fixture'.memories) /\ ReplayLedger(fixture'.memories)
  BY <1>3 DEF ReplayLedger, Whole
<1>5. FixtureGrown
  BY <1>1, <1>3 DEF FixtureGrown, Prolonged
<1> QED
  BY <1>1, <1>3, <1>4, <1>5 DEF FixtureServed

LEMMA ActiveDenial ==
    ASSUME ReplayInv, fixture # None, ActiveOf("deny") # {}, ActiveOf("context") # {}
    PROVE  /\ FirstOf(ActiveOf("deny")) = 3 /\ 3 \in DOMAIN fixture.memories
           /\ FirstOf(ActiveOf("context")) = 2
           /\ fixture.memories[3].effect = "deny" /\ fixture.memories[3].supersedes = 1
           /\ ~ IsActive(fixture.memories[1])
<1>1. /\ ReplayLedger(fixture.memories) /\ Whole(fixture.memories)
      /\ Len(fixture.memories) \in {2, 3}
      /\ DOMAIN fixture.memories = 1 .. Len(fixture.memories)
  BY FixtureRows
<1>2. ActiveOf("deny") = {3} /\ Len(fixture.memories) = 3
  BY <1>1 DEF ActiveOf, ReplayLedger
<1>3. ActiveOf("context") = {2}
  BY <1>1, <1>2 DEF ActiveOf, ReplayLedger
<1>4. ASSUME NEW n \in Nat PROVE FirstOf({n}) = n
  BY DEF FirstOf
<1> QED
  BY <1>1, <1>2, <1>3, <1>4 DEF ReplayLedger

LEMMA FixtureReceiptType ==
    ASSUME ReplayInv, NEW r \in net, FixtureEvaluate(r)
    PROVE  /\ FixtureReceipt(r) \in ActionReceipt
           /\ FixtureReceipt(r).evidence = {3, 2}
           /\ FixtureReceipt(r).tenant = r.tenant
           /\ FixtureReceipt(r).decision = "deny"
           /\ FixtureReceipt(r) # None
<1> DEFINE x == FixtureReceipt(r)
<1>1. r.click \in ReceiptId /\ r.tenant \in Tenant /\ now + BrowserSkew \in Time
      /\ Publish \in Query
  BY Sent, StoreTypes, NumberedTypes DEF ReplayInv, Time
<1>2. FirstOf(ActiveOf("deny")) = 3 /\ FirstOf(ActiveOf("context")) = 2
  BY ActiveDenial DEF FixtureEvaluate, Admitted, Holds
<1>3. x = [id |-> r.click, tenant |-> r.tenant, query |-> Publish, decision |-> "deny",
           evidence |-> {3, 2}, created |-> now + BrowserSkew, archived |-> FALSE]
  BY <1>2 DEF FixtureReceipt
<1>4. {3, 2} \in SUBSET (Nat \ {0})
  OBVIOUS
<1>5. x \in ActionReceipt
  BY <1>1, <1>3, <1>4 DEF ActionReceipt, Decision
<1> HIDE DEF x
<1>6. x # None
  BY <1>5, ReplayAbsence
<1>7. x.evidence = {3, 2} /\ x.tenant = r.tenant /\ x.decision = "deny"
  BY <1>3
<1> QED
  BY <1>5, <1>6, <1>7 DEF x

LEMMA FixtureEvaluateServes ==
    ASSUME ReplayInv, NEW r \in net, FixtureEvaluate(r)
    PROVE  FixtureServed(r)
<1> DEFINE x  == FixtureReceipt(r)
           rs == fixture.receipts
<1>1. /\ fixture # None /\ r.for = "evaluating" /\ Answer(r, TRUE, x)
      /\ ActiveOf("deny") # {} /\ ActiveOf("context") # {}
      /\ fixture' = [Spend EXCEPT !.receipts = Append(Spend.receipts, x)]
  BY DEF FixtureEvaluate, Admitted, Holds
<1>2. /\ 3 \in DOMAIN fixture.memories
      /\ fixture.memories[3].effect = "deny" /\ fixture.memories[3].supersedes = 1
      /\ ~ IsActive(fixture.memories[1])
      /\ FirstOf(ActiveOf("deny")) = 3 /\ FirstOf(ActiveOf("context")) = 2
  BY <1>1, ActiveDenial
<1>3. x \in ActionReceipt /\ x.evidence = {3, 2} /\ x.tenant = r.tenant /\ x # None
  BY FixtureReceiptType
<1>4. /\ Spend \in Fixture /\ Spend.tenant = fixture.tenant
      /\ Spend.memories = fixture.memories /\ Spend.receipts = rs
      /\ rs \in Seq(ActionReceipt)
  BY <1>1, SpendKeeps, FixtureRows
<1> HIDE DEF x, rs
<1>5. /\ Append(rs, x) \in Seq(ActionReceipt)
      /\ Prolonged(rs, Append(rs, x))
      /\ \E i \in DOMAIN Append(rs, x) : Append(rs, x)[i] = x
  <2>1. /\ Append(rs, x) \in Seq(ActionReceipt)
        /\ Len(Append(rs, x)) = Len(rs) + 1
        /\ \A i \in 1 .. Len(rs) : Append(rs, x)[i] = rs[i]
        /\ Append(rs, x)[Len(rs) + 1] = x
    <3>1. rs \in Seq(ActionReceipt) /\ x \in ActionReceipt
      BY <1>3, <1>4
    <3> QED
      BY <3>1, AppendProperties
  <2>2. /\ DOMAIN rs = 1 .. Len(rs) /\ Len(rs) \in Nat
        /\ DOMAIN Append(rs, x) = 1 .. Len(Append(rs, x))
    BY <1>4, <2>1, LenProperties
  <2>3. Len(rs) + 1 \in DOMAIN Append(rs, x) /\ DOMAIN rs \subseteq DOMAIN Append(rs, x)
    BY <2>1, <2>2
  <2> QED
    BY <2>1, <2>2, <2>3 DEF Prolonged
<1>6. /\ fixture' \in Fixture /\ fixture' # None
      /\ fixture'.tenant = fixture.tenant
      /\ fixture'.memories = fixture.memories
      /\ fixture'.receipts = Append(rs, x)
  <2> DEFINE ss == Append(rs, x)
  <2>1. ss \in Seq(ActionReceipt) /\ fixture' = [Spend EXCEPT !.receipts = ss]
    BY <1>1, <1>4, <1>5
  <2> HIDE DEF ss
  <2>2. /\ fixture' \in Fixture /\ fixture'.receipts = ss
        /\ fixture'.tenant = fixture.tenant /\ fixture'.memories = fixture.memories
    BY <1>4, <2>1 DEF Fixture
  <2> QED
    BY <2>2, ReplayAbsence DEF ss
<1>7. FixtureGrown
  BY <1>1, <1>5, <1>6 DEF FixtureGrown, Marked, rs
<1>8. Founded(x, fixture'.memories, fixture'.receipts)
  BY <1>2, <1>3, <1>5, <1>6 DEF Founded, Denials
<1>9. Whole(fixture'.memories) /\ ReplayLedger(fixture'.memories)
  BY <1>1, <1>6, FixtureRows
<1> QED
  BY <1>1, <1>3, <1>6, <1>7, <1>8, <1>9 DEF FixtureServed

LEMMA FixtureServes ==
    ASSUME ReplayInv, NEW r \in net, FixtureServe(r)
    PROVE  FixtureServed(r)
<1>1. CASE FixtureCreateFails(r) \/ FixtureRefuses(r) \/ FixtureState(r) \/ FixtureAddRefuses(r)
           \/ FixtureEvaluateFails(r)
  <2>1. fixture' = fixture \/ (fixture # None /\ fixture' = Spend)
    BY <1>1 DEF FixtureCreateFails, FixtureRefuses, FixtureState, FixtureAddRefuses,
                FixtureEvaluateFails, Admitted, Holds
  <2>2. \E ok \in BOOLEAN : Answer(r, ok, None) /\ (ok => r.for \notin {"creating", "evaluating"})
    BY <1>1 DEF FixtureCreateFails, FixtureRefuses, FixtureState, FixtureAddRefuses,
                FixtureEvaluateFails, Admitted
  <2> QED
    BY <2>1, <2>2, FixtureSame
<1> QED
  BY <1>1, FixtureCreateServes, FixtureAddServes, FixtureAddFailsServes, FixtureEvaluateServes
  DEF FixtureServe

-----------------------------------------------------------------------------
(* What is recorded stays recorded *)

LEMMA SessionType ==
    ASSUME ReplayInv
    PROVE  /\ session # None => session \in Tenant /\ session \in Nat
           /\ clicks \in 1 .. MaxClicks /\ clicks \in Nat
           /\ static \in BOOLEAN
BY NumberedTypes DEF ReplayInv, ReplayTypeOK, PageTypeOK

LEMMA ShownType ==
    ASSUME ReplayInv, shown # None
    PROVE  shown.tenant \in Tenant /\ shown.tenant # None
BY NumberedTypes DEF ReplayInv, ReplayTypeOK, PageTypeOK, ActionReceipt

LEMMA RecordedGrows ==
    ASSUME ReplayInv, NEW x, Recorded(x), session # None,
           session' = session, static' = static,
           static => fixture # None /\ FixtureGrown,
           ~ static => Grown(session)
    PROVE  Recorded(x)'
<1>1. session \in Tenant /\ x.tenant = session /\ static \in BOOLEAN
  BY SessionType DEF Recorded
<1>2. ASSUME static, x.decision = "deny"
      PROVE  Founded(x, fixture'.memories, fixture'.receipts)
  <2>1. Founded(x, fixture.memories, fixture.receipts)
    BY <1>2 DEF Recorded, KeptMemories, KeptReceipts
  <2>2. 1 \in DOMAIN fixture.memories
    BY <1>2, FixtureRows
  <2>3. /\ Marked(fixture.memories, fixture'.memories)
        /\ Prolonged(fixture.receipts, fixture'.receipts)
    BY <1>2 DEF FixtureGrown
  <2> QED
    BY <2>1, <2>2, <2>3, FoundedGrows
<1>3. ASSUME ~ static, x.decision = "deny", Exists(session)'
      PROVE  Founded(x, memories'[session], receipts'[session])
  <2>1. /\ Exists(session)
        /\ Marked(memories[session], memories'[session])
        /\ Prolonged(receipts[session], receipts'[session])
  <3>1. sessions'[session] # None
    BY <1>3 DEF Exists
  <3> QED
    BY <1>3, <3>1 DEF Grown, Exists
  <2>2. Founded(x, memories[session], receipts[session])
    BY <1>3, <2>1 DEF Recorded, KeptMemories, KeptReceipts
  <2>3. 1 \in DOMAIN memories[session]
    <3>1. PICK i \in Denials(memories[session]) : TRUE
      BY <2>2 DEF Founded
    <3>2. i \in DOMAIN memories[session] /\ memories[session][i].effect = "deny"
      BY <3>1 DEF Denials
    <3>3. /\ Len(memories[session]) \in Nat
          /\ DOMAIN memories[session] = 1 .. Len(memories[session])
          /\ ReplayLedger(memories[session])
      BY <1>1, StoreTypes, LenProperties DEF ReplayInv
    <3>4. Len(memories[session]) = 3
      BY <3>2, <3>3, LedgerDenials
    <3> QED
      BY <3>3, <3>4
  <2> QED
    BY <2>1, <2>2, <2>3, FoundedGrows
<1> QED
  BY <1>1, <1>2, <1>3 DEF Recorded, KeptMemories, KeptReceipts

LEMMA RecordedSame ==
    ASSUME UNCHANGED <<session, static, fixture, sessions, memories, receipts>>,
           NEW x, Recorded(x)
    PROVE  Recorded(x)'
BY DEF Recorded, KeptMemories, KeptReceipts, Exists

-----------------------------------------------------------------------------
(* The answers *)

\* An answer takes its request away, and is awaited only if the page's last.
LEMMA AnswerInOrder ==
    ASSUME ReplayInv, NEW r \in net, NEW ok, NEW receipt, Answer(r, ok, receipt)
    PROVE  RequestsInOrder'
<1>1. RequestsInOrder
  BY DEF ReplayInv
<1>2. /\ net' = net \ {r} /\ UNCHANGED <<static, step, session, clicks>>
      /\ answer' = answer \/ (r.click = clicks)
  BY DEF Answer
<1>3. \A s \in net' : s \in net /\ s.click # r.click
  BY <1>1, <1>2 DEF RequestsInOrder
<1> QED
  BY <1>1, <1>2, <1>3 DEF RequestsInOrder

\* Whom the answer that the page takes is for.
LEMMA AnswerIsFor ==
    ASSUME ReplayInv, NEW r \in net, r.click = clicks, r.for = step
    PROVE  /\ step \in Awaiting /\ answer = None
           /\ r.tenant = IF step = "creating" THEN clicks ELSE session
<1>1. r.for \in Awaiting
  BY Sent DEF ReplayInv
<1> QED
  BY <1>1 DEF ReplayInv, RequestsInOrder, Awaiting

LEMMA ServiceStep ==
    ASSUME ReplayInv, ~ static, NEW r \in net, Serve(r), fixture' = fixture
    PROVE  ReplayInv'
<1>1. Served(r)
  BY ServiceServes
<1>2. PICK ok \in BOOLEAN, receipt \in ActionReceipt \cup {None} :
        /\ Answer(r, ok, receipt)
        /\ r.for = "creating" /\ ok => Whole(memories'[r.tenant])
        /\ r.for = "evaluating" /\ ok =>
              /\ receipt # None /\ receipt.tenant = r.tenant
              /\ receipt.decision = "deny" =>
                    Founded(receipt, memories'[r.tenant], receipts'[r.tenant])
  BY <1>1 DEF Served
<1>3. UNCHANGED <<static, step, label, session, shown, held, since, clicks>>
  BY <1>2 DEF Answer
<1>4. ReplayTypeOK'
  <2>1. PageTypeOK'
    BY <1>2, AnswerType DEF ReplayInv
  <2>2. StoreTypeOK' /\ FixtureTypeOK'
    BY <1>1 DEF Served, ReplayInv, ReplayTypeOK, FixtureTypeOK
  <2> QED
    BY <2>1, <2>2 DEF ReplayTypeOK
<1>5. RequestsInOrder'
  BY <1>2, AnswerInOrder
<1>6. ASSUME NEW x, Recorded(x), session # None PROVE Recorded(x)'
  <2>1. Grown(session)
    BY <1>1, <1>6, SessionType DEF Served, ReplayInv, RequestsInOrder
  <2> QED
    BY <1>3, <1>6, <2>1, RecordedGrows
<1>7. AnswerFits'
  <2>1. CASE answer' = answer
    <3>1. answer # None /\ step = "evaluating" /\ answer.ok => Recorded(answer.receipt)'
      BY <1>3, <1>6, <2>1 DEF ReplayInv, AnswerFits, StepFits
    <3> QED
      BY <1>3, <2>1, <3>1 DEF ReplayInv, AnswerFits
  <2>2. CASE r.click = clicks /\ r.for = step /\ answer' = [to |-> r, ok |-> ok, receipt |-> receipt]
    <3>1. r.tenant = IF step = "creating" THEN clicks ELSE session
      BY <2>2, AnswerIsFor
    <3>2. step = "evaluating" /\ ok => receipt # None /\ Recorded(receipt)'
      BY <1>2, <1>3, <2>2, <3>1 DEF Recorded, KeptMemories, KeptReceipts
    <3>3. answer'.to = r /\ answer'.ok = ok /\ answer'.receipt = receipt
      BY <2>2
    <3> QED
      BY <1>3, <2>2, <3>1, <3>2, <3>3 DEF AnswerFits
  <2> QED
    BY <1>2, <2>1, <2>2 DEF Answer
<1>8. StepFits'
  <2>1. StepFits
    BY DEF ReplayInv
  <2>2. step = "reading" => Recorded(held)'
    BY <1>3, <1>6, <2>1 DEF StepFits
  <2>3. step = "idle" /\ label = "Replay verified" => Recorded(shown)'
    <3>1. step = "idle" /\ label = "Replay verified" =>
             Recorded(shown) /\ shown # None /\ session # None
      BY <2>1, ShownType DEF StepFits
    <3> QED
      BY <1>3, <1>6, <3>1
  <2> QED
    BY <1>3, <2>1, <2>2, <2>3 DEF StepFits
<1>9. FixtureFits'
  BY <1>3 DEF FixtureFits
<1>10. SessionsWhole'
  <2>1. SessionsWhole /\ RequestsInOrder
    BY DEF ReplayInv
  <2>2. \A t \in Tenant : (r.for = "creating" => t # r.tenant) /\ sessions'[t] # None =>
            sessions[t] # None /\ (Whole(memories[t]) => Whole(memories'[t]))
    BY <1>1 DEF Served, Grown, Exists
  <2>3. ASSUME session # None, Exists(session)' PROVE Whole(memories'[session])
    <3>1. session \in Tenant /\ (r.for = "creating" => session # r.tenant)
      BY <2>1, <2>3, SessionType DEF RequestsInOrder
    <3>2. sessions'[session] # None
      BY <1>3, <2>3 DEF Exists
    <3>3. Exists(session) /\ (Whole(memories[session]) => Whole(memories'[session]))
      BY <2>2, <3>1, <3>2 DEF Exists
    <3> QED
      BY <2>1, <2>3, <3>3 DEF SessionsWhole
  <2>4. ASSUME NEW s \in net, s.for # "creating", Exists(s.tenant)'
        PROVE  Whole(memories'[s.tenant])
    <3>1. s.tenant \in Tenant /\ (r.for = "creating" => s.tenant # r.tenant)
      BY <2>1, <2>4, Sent DEF RequestsInOrder, ReplayInv
    <3> QED
      BY <2>1, <2>2, <2>4, <3>1 DEF SessionsWhole, Exists
  <2>5. ASSUME step = "creating", answer' # None, answer'.ok, Exists(clicks)'
        PROVE  Whole(memories'[clicks])
    <3>1. clicks \in Tenant
      BY SessionType, NumberedTypes
    <3>2. CASE answer' = answer
      <4>1. r.for = "creating" => clicks # r.tenant
        BY <2>1, <2>5, <3>2 DEF RequestsInOrder
      <4>2. sessions'[clicks] # None
        BY <1>3, <2>5 DEF Exists
      <4>3. Exists(clicks) /\ (Whole(memories[clicks]) => Whole(memories'[clicks]))
        BY <2>2, <3>1, <4>1, <4>2 DEF Exists
      <4> QED
        BY <2>1, <2>5, <3>2, <4>3 DEF SessionsWhole
    <3>3. CASE r.click = clicks /\ r.for = step /\ answer'.ok = ok
      <4>1. r.tenant = clicks
        BY <2>5, <3>3, AnswerIsFor
      <4> QED
        BY <1>2, <2>5, <3>3, <4>1
    <3> QED
      BY <1>2, <3>2, <3>3 DEF Answer
  <2>6. net' \subseteq net
    BY <1>2 DEF Answer
  <2> QED
    BY <1>3, <2>3, <2>4, <2>5, <2>6 DEF SessionsWhole, Exists
<1> QED
  BY <1>1, <1>4, <1>5, <1>7, <1>8, <1>9, <1>10 DEF ReplayInv, Served

\* A fixture is there for whoever holds its session.
LEMMA FixtureStep ==
    ASSUME ReplayInv, static, NEW r \in net, FixtureServe(r), UNCHANGED storeVars
    PROVE  ReplayInv'
<1>1. FixtureServed(r)
  BY FixtureServes
<1>2. PICK ok \in BOOLEAN, receipt \in ActionReceipt \cup {None} :
        /\ Answer(r, ok, receipt)
        /\ IF r.for = "creating" /\ ok THEN fixture' # None /\ fixture'.tenant = r.tenant
                                       ELSE FixtureGrown
        /\ r.for = "evaluating" /\ ok =>
              /\ receipt # None /\ receipt.tenant = r.tenant
              /\ Founded(receipt, fixture'.memories, fixture'.receipts)
  BY <1>1 DEF FixtureServed
<1>3. UNCHANGED <<static, step, label, session, shown, held, since, clicks>>
  BY <1>2 DEF Answer
<1>4. r.click = clicks /\ r.for = step /\ step # "idle" /\ answer = None
  BY DEF ReplayInv, RequestsInOrder
<1>5. answer' = [to |-> r, ok |-> ok, receipt |-> receipt]
  BY <1>2, <1>4 DEF Answer
<1>6. r.tenant = IF step = "creating" THEN clicks ELSE session
  BY <1>4, AnswerIsFor
<1>7. ReplayTypeOK'
  <2>1. PageTypeOK'
    BY <1>2, AnswerType DEF ReplayInv
  <2>2. StoreTypeOK' /\ FixtureTypeOK'
    BY <1>1 DEF FixtureServed, ReplayInv, ReplayTypeOK, FixtureTypeOK, StoreTypeOK, storeVars
  <2> QED
    BY <2>1, <2>2 DEF ReplayTypeOK
<1>8. RequestsInOrder'
  BY <1>2, AnswerInOrder
<1>9. session = IF fixture = None THEN None ELSE fixture.tenant
  BY <1>4 DEF ReplayInv, FixtureFits
<1>10. answer'.to = r /\ answer'.ok = ok /\ answer'.receipt = receipt
  BY <1>5
<1>11. AnswerFits'
  <2>1. step = "evaluating" /\ ok => receipt # None /\ Recorded(receipt)'
    BY <1>2, <1>3, <1>4, <1>6 DEF Recorded, KeptMemories, KeptReceipts
  <2> QED
    BY <1>3, <1>4, <1>6, <1>10, <2>1 DEF AnswerFits
<1>12. StepFits'
  <2>1. StepFits
    BY DEF ReplayInv
  <2>2. ASSUME step = "reading" PROVE Recorded(held)'
    <3>1. session # None /\ Recorded(held) /\ FixtureGrown /\ fixture # None
      BY <1>2, <1>4, <1>9, <2>1, <2>2 DEF StepFits
    <3>2. Recorded(held)
      BY <3>1
    <3> QED
      BY <1>3, <3>1, RecordedGrows
  <2> QED
    BY <1>3, <1>4, <2>1, <2>2 DEF StepFits
<1>13. FixtureFits'
  <2>1. answer' # None
    <3>1. [to |-> r, ok |-> ok, receipt |-> receipt] \in Answers
      BY Sent DEF Answers, ReplayInv
    <3> QED
      BY <1>5, <3>1, ReplayAbsence
  <2>2. CASE step = "creating" /\ ok
    BY <1>2, <1>3, <1>4, <1>6, <1>10, <2>1, <2>2 DEF FixtureFits
  <2>3. CASE ~ (step = "creating" /\ ok)
    <3>1. session = IF fixture' = None THEN None ELSE fixture'.tenant
      BY <1>2, <1>4, <1>9, <2>3 DEF FixtureGrown
    <3> QED
      BY <1>3, <1>10, <2>3, <3>1 DEF FixtureFits
  <2> QED
    BY <2>2, <2>3
<1>14. \A t \in Tenant : ReplayLedger(memories'[t])
  BY DEF ReplayInv, storeVars
<1>15. SessionsWhole'
  BY <1>3 DEF SessionsWhole
<1> QED
  BY <1>1, <1>7, <1>8, <1>11, <1>12, <1>13, <1>14, <1>15 DEF ReplayInv, FixtureServed

-----------------------------------------------------------------------------
(* The page *)

LEMMA NoneAwaited ==
    ASSUME ReplayInv, step \in Awaiting \cup {"pausing"}, answer # None \/ step = "pausing"
    PROVE  \A r \in net : r.click # clicks /\ ~ static
<1>1. step # "idle"
  BY DEF Awaiting
<1>2. ASSUME NEW r \in net, r.click = clicks PROVE FALSE
  BY <1>1, <1>2, Sent DEF ReplayInv, RequestsInOrder, Awaiting
<1> QED
  BY <1>2 DEF ReplayInv, RequestsInOrder

\* The page sends its next request when the one before is answered.
LEMMA SendInOrder ==
    ASSUME ReplayInv, NEW for \in Awaiting \ {"creating"}, NEW t \in Tenant, Sends(for, t),
           step \in Awaiting \cup {"pausing"}, answer # None \/ step = "pausing",
           static' = static, clicks' = clicks, session' = t,
           t = session \/ (step = "creating" /\ t = clicks)
    PROVE  RequestsInOrder'
<1> DEFINE q == Request(clicks, for, t)
<1>1. q.click = clicks /\ q.for = for /\ q.tenant = t
  BY SessionType, RequestType DEF ReplayInv
<1>2. /\ net' = net \cup {q} /\ step' = for /\ answer' = None
      /\ step' # "idle" /\ for # "creating"
  BY DEF Sends, Awaiting
<1> HIDE DEF q
<1>3. \A r \in net : r.click # clicks /\ ~ static
  BY NoneAwaited
<1>4. RequestsInOrder
  BY DEF ReplayInv
<1>5. \A r, s \in net' : r.click = s.click => r = s
  BY <1>1, <1>2, <1>3, <1>4 DEF RequestsInOrder
<1>6. ASSUME NEW r \in net', r.for = "creating"
      PROVE  /\ r.tenant = r.click /\ r.tenant # t
             /\ \A s \in net' : s.for # "creating" => s.tenant # r.tenant
  <2>1. r \in net /\ r.click # clicks
    BY <1>1, <1>2, <1>3, <1>6
  <2>2. r.tenant = r.click /\ r.tenant # t
    BY <1>4, <1>6, <2>1 DEF RequestsInOrder
  <2> QED
    BY <1>1, <1>2, <1>4, <1>6, <2>1, <2>2 DEF RequestsInOrder
<1>8. t <= clicks
  BY <1>4, SessionType, NumberedTypes DEF RequestsInOrder
<1>7. \A r \in net' : r.tenant <= r.click /\ r.click <= clicks
  BY <1>1, <1>2, <1>4, <1>8, SessionType DEF RequestsInOrder
<1> QED
  BY <1>1, <1>2, <1>3, <1>5, <1>6, <1>7, <1>8 DEF RequestsInOrder

\* The page comes to rest; of what it sent nothing is awaited any more.
LEMMA RestInOrder ==
    ASSUME ReplayInv, NEW text, Rests(text), session' = session,
           static => answer # None, step \in Awaiting
    PROVE  RequestsInOrder'
<1>1. ~ static \/ net = {}
  BY NoneAwaited
<1>2. RequestsInOrder /\ net' = net /\ step' = "idle" /\ clicks' = clicks /\ static' = static
  BY DEF ReplayInv, Rests
<1> QED
  BY <1>1, <1>2 DEF RequestsInOrder

LEMMA ClickStep ==
    ASSUME ReplayInv, Click, UNCHANGED <<storeVars, fixture>>
    PROVE  ReplayInv'
<1> DEFINE for == IF Reset THEN "creating" ELSE "revoking"
           t   == IF Reset THEN clicks + 1 ELSE session
           q   == Request(clicks + 1, for, t)
<1>1. /\ step = "idle" /\ clicks < MaxClicks
      /\ clicks' = clicks + 1 /\ step' = for /\ net' = net \cup {q}
      /\ UNCHANGED <<static, label, session, held, since, answer>>
      /\ ~ Reset => session # None /\ shown' = shown
      /\ Reset => shown' = None
  BY DEF Click, Reset, Run, Clicks, Wiped
<1>2. /\ clicks + 1 \in 1 .. MaxClicks /\ t \in Tenant /\ for \in {"creating", "revoking"}
      /\ for \in Awaiting
  BY <1>1, SessionType, NumberedTypes DEF Awaiting
<1>3. q.click = clicks + 1 /\ q.for = for /\ q.tenant = t
  <2> HIDE DEF for, t
  <2> QED
    BY <1>2, RequestType DEF ReplayInv
<1>4. PageTypeOK'
  BY PageStepType
<1>5. StoreTypeOK' /\ FixtureTypeOK'
  BY DEF ReplayInv, ReplayTypeOK, StoreTypeOK, FixtureTypeOK, storeVars
<1>6. answer = None
  <2>1. answer # None => answer.to.for \in Awaiting /\ answer.to.for = step
    BY DEF ReplayInv, ReplayTypeOK, PageTypeOK, Answers, Requests, AnswerFits
  <2> QED
    BY <1>1, <2>1 DEF Awaiting
<1>7. for = "creating" => t = clicks + 1 /\ Reset
  OBVIOUS
<1>8. for # "creating" => t = session
  OBVIOUS
<1> HIDE DEF for, t, q
<1>9. RequestsInOrder'
  <2>1. RequestsInOrder /\ clicks \in Nat
    BY SessionType DEF ReplayInv
  <2>2. \A r \in net : r.click # clicks + 1 /\ r.click <= clicks + 1 /\ ~ static /\ r.click \in Nat
    BY <1>1, <2>1, Sent DEF RequestsInOrder, ReplayInv
  <2>3. \A r, s \in net' : r.click = s.click => r = s
    BY <1>1, <1>3, <2>1, <2>2 DEF RequestsInOrder
  <2>4. ASSUME NEW r \in net', r.for = "creating"
        PROVE  /\ r.tenant = r.click /\ r.tenant # session
               /\ \A s \in net' : s.for # "creating" => s.tenant # r.tenant
    <3>1. CASE r \in net
      BY <1>1, <1>3, <1>8, <2>1, <2>4, <3>1 DEF RequestsInOrder
    <3>2. CASE r = q
      <4>1. r.tenant = clicks + 1 /\ r.click = clicks + 1
        BY <1>3, <1>7, <2>4, <3>2
      <4>2. session # clicks + 1
        BY <2>1, SessionType, NoneAssumption DEF RequestsInOrder
      <4>3. \A s \in net : s.tenant # clicks + 1
        BY <2>1, <2>2, Sent, NumberedTypes DEF RequestsInOrder, ReplayInv
      <4> QED
        BY <1>1, <2>4, <3>2, <4>1, <4>2, <4>3
    <3> QED
      BY <1>1, <3>1, <3>2
  <2>7. \A r \in net' : r.tenant <= r.click
    <3>1. q.tenant <= q.click
      <4>1. CASE for = "creating"
        BY <1>3, <1>7, <2>1, <4>1
      <4>2. CASE for # "creating"
        <5>1. t = session /\ session # None
          BY <1>2, <1>8, <4>2, NumberedTypes
        <5> QED
          BY <1>3, <2>1, <5>1, SessionType DEF RequestsInOrder
      <4> QED
        BY <4>1, <4>2
    <3> QED
      BY <1>1, <2>1, <3>1 DEF RequestsInOrder
  <2>5. session # None => session <= clicks + 1
    BY <2>1, SessionType DEF RequestsInOrder
  <2>6. step' # "idle"
    BY <1>1, <1>2
  <2> QED
    BY <1>1, <1>3, <1>6, <1>8, <2>2, <2>3, <2>4, <2>5, <2>6, <2>7 DEF RequestsInOrder
<1>10. AnswerFits'
  BY <1>1, <1>6 DEF AnswerFits
<1>11. StepFits'
  BY <1>1, <1>2, <1>7 DEF ReplayInv, StepFits, for
<1>12. FixtureFits'
  BY <1>1, <1>6 DEF ReplayInv, FixtureFits
<1>13. SessionsWhole'
  <2>1. SessionsWhole
    BY DEF ReplayInv
  <2>2. \A u : Exists(u)' = Exists(u)
    BY DEF Exists, storeVars
  <2>3. \A r \in net' : r \in net \/ r.for = "creating" \/ r.tenant = session
    BY <1>1, <1>3, <1>8
  <2>4. for # "creating" => session # None
    BY <1>1, <1>7 DEF for
  <2>5. \A r \in net' : r \in net \/ r.for = "creating" \/ (r.tenant = session /\ session # None)
    BY <1>1, <1>3, <1>8, <2>4
  <2> QED
    BY <1>1, <1>6, <2>1, <2>2, <2>5 DEF SessionsWhole, storeVars
<1> QED
  BY <1>4, <1>5, <1>9, <1>10, <1>11, <1>12, <1>13 DEF ReplayInv, ReplayTypeOK, storeVars

\* The page takes up a session when it is told of it, and asks only for its own.
LEMMA PageWhole ==
    ASSUME ReplayInv, Page, UNCHANGED storeVars
    PROVE  SessionsWhole'
<1>1. SessionsWhole /\ AnswerFits
  BY DEF ReplayInv
<1>2. static' = static /\ answer' = None
  BY DEF Page, Created, Loaded, Revoked, Restarted, Evaluated, Rendered, Failed, Rests, Sends
<1>3. \/ session' = session
      \/ step = "creating" /\ answer # None /\ answer.ok /\ session' = answer.to.tenant
  BY DEF Page, Created, Succeeded, Loaded, Revoked, Restarted, Evaluated, Rendered, Failed
<1>4. \/ session' = session
      \/ step = "creating" /\ answer # None /\ answer.ok /\ session' = clicks
  BY <1>1, <1>3 DEF AnswerFits
<1>5. \A r \in net' : r \in net \/ (r.tenant = session' /\ session' # None)
  <2>1. CASE Created
    <3>1. session' = clicks /\ session' # None
      BY <1>1, <2>1, SessionType, NumberedTypes DEF Created, Succeeded, AnswerFits
    <3> QED
      BY <2>1, <3>1 DEF Created, Sends, Request
  <2>2. CASE Restarted \/ Evaluated
    <3>1. session' = session /\ session # None
      BY <2>2, NumberedTypes DEF Restarted, Evaluated, Succeeded, ReplayInv, StepFits
    <3> QED
      BY <2>2, <3>1 DEF Restarted, Evaluated, Sends, Request
  <2>3. CASE Loaded \/ Revoked \/ Rendered \/ Failed
    BY <2>3 DEF Loaded, Revoked, Rendered, Failed, Rests
  <2> QED
    BY <2>1, <2>2, <2>3 DEF Page
<1>6. memories' = memories /\ \A u : Exists(u)' = Exists(u)
  BY DEF Exists, storeVars
<1>7. ASSUME ~ static, session' # None, Exists(session') PROVE Whole(memories[session'])
  BY <1>1, <1>4, <1>7 DEF SessionsWhole
<1> QED
  BY <1>1, <1>2, <1>5, <1>6, <1>7 DEF SessionsWhole, Exists

LEMMA PageStep ==
    ASSUME ReplayInv, Page, UNCHANGED <<storeVars, fixture>>
    PROVE  ReplayInv'
<1>1. PageTypeOK' /\ StoreTypeOK' /\ FixtureTypeOK'
  BY PageStepType DEF ReplayInv, ReplayTypeOK, StoreTypeOK, FixtureTypeOK, storeVars
<1>2. static' = static /\ clicks' = clicks
  BY DEF Page, Created, Loaded, Revoked, Restarted, Evaluated, Rendered, Failed, Rests
<1>3. /\ RequestsInOrder /\ AnswerFits /\ StepFits /\ FixtureFits
  BY DEF ReplayInv
<1>4. ASSUME RequestsInOrder', AnswerFits', StepFits', FixtureFits' PROVE ReplayInv'
  BY <1>1, <1>4, PageWhole DEF ReplayInv, ReplayTypeOK, storeVars
<1>5. ASSUME session' = session, NEW x, Recorded(x) PROVE Recorded(x)'
  BY <1>2, <1>5, RecordedSame DEF storeVars
<1>6. CASE Created
  <2>1. /\ step = "creating" /\ answer # None /\ answer.ok /\ session' = answer.to.tenant
        /\ Sends("loading", session') /\ UNCHANGED <<label, shown, held>>
    BY <1>6 DEF Created, Succeeded
  <2>2. session' = clicks /\ session' \in Tenant
    BY <1>3, <2>1, SessionType, NumberedTypes DEF AnswerFits
  <2>3. RequestsInOrder'
    <3> DEFINE t == clicks
    <3>1. t \in Tenant /\ Sends("loading", t) /\ session' = t
      BY <2>1, <2>2
    <3>2. "loading" \in Awaiting \ {"creating"} /\ step \in Awaiting
      BY <2>1 DEF Awaiting
    <3> QED
      BY <1>2, <2>1, <3>1, <3>2, SendInOrder
  <2>4. step' = "loading" /\ answer' = None
    BY <2>1 DEF Sends
  <2>5. FixtureFits'
    BY <1>2, <1>3, <2>1, <2>2, <2>4 DEF FixtureFits
  <2>6. StepFits'
    BY <1>3, <2>1, <2>2, <2>4, NumberedTypes DEF StepFits
  <2> QED
    BY <1>4, <2>3, <2>4, <2>5, <2>6 DEF AnswerFits
<1>7. CASE Revoked
  <2>1. /\ step = "revoking" /\ answer # None /\ step' = "pausing" /\ answer' = None
        /\ UNCHANGED <<static, label, session, shown, held, clicks, net>>
    BY <1>7 DEF Revoked, Succeeded
  <2>2. \A r \in net : r.click # clicks /\ ~ static
    BY <2>1, NoneAwaited DEF Awaiting
  <2>3. RequestsInOrder'
    BY <1>3, <2>1, <2>2 DEF RequestsInOrder
  <2>4. StepFits' /\ FixtureFits'
    BY <1>3, <2>1 DEF StepFits, FixtureFits
  <2> QED
    BY <1>4, <2>1, <2>3, <2>4 DEF AnswerFits
<1>8. CASE Restarted
  <2>1. /\ step = "pausing" /\ Sends("evaluating", session) /\ step' = "evaluating"
        /\ answer' = None /\ UNCHANGED <<static, label, session, shown, held, clicks>>
    BY <1>8 DEF Restarted, Sends
  <2>2. session # None
    BY <1>3, <2>1 DEF StepFits
  <2>3. RequestsInOrder'
    <3>1. session \in Tenant /\ session' = session /\ static' = static /\ clicks' = clicks
      BY <2>1, <2>2, SessionType
    <3>2. "evaluating" \in Awaiting \ {"creating"}
      BY DEF Awaiting
    <3> QED
      BY <2>1, <3>1, <3>2, SendInOrder
  <2>4. StepFits' /\ FixtureFits'
    BY <1>3, <2>1, <2>2 DEF StepFits, FixtureFits
  <2> QED
    BY <1>4, <2>1, <2>3, <2>4 DEF AnswerFits
<1>9. CASE Evaluated
  <2>1. /\ step = "evaluating" /\ answer # None /\ answer.ok /\ held' = answer.receipt
        /\ Sends("reading", session) /\ step' = "reading" /\ answer' = None
        /\ UNCHANGED <<static, label, session, shown, clicks>>
    BY <1>9 DEF Evaluated, Succeeded, Sends
  <2>2. session # None
    BY <1>3, <2>1 DEF StepFits
  <2>3. RequestsInOrder'
    <3>1. /\ session \in Tenant /\ session' = session /\ static' = static /\ clicks' = clicks
          /\ step \in Awaiting
      BY <2>1, <2>2, SessionType DEF Awaiting
    <3>2. "reading" \in Awaiting \ {"creating"}
      BY DEF Awaiting
    <3> QED
      BY <2>1, <3>1, <3>2, SendInOrder
  <2>4. held' # None /\ Recorded(held)'
    <3>1. answer.receipt # None /\ Recorded(answer.receipt)
      BY <1>3, <2>1 DEF AnswerFits
    <3>2. UNCHANGED <<session, static, fixture, sessions, memories, receipts>>
      BY <2>1 DEF storeVars
    <3> QED
      BY <2>1, <3>1, <3>2 DEF Recorded, KeptMemories, KeptReceipts, Exists
  <2>5. StepFits' /\ FixtureFits'
    BY <1>3, <2>1, <2>2, <2>4 DEF StepFits, FixtureFits
  <2> QED
    BY <1>4, <2>1, <2>3, <2>5 DEF AnswerFits
<1>10. CASE Loaded \/ Failed \/ Rendered
  <2>1. PICK text \in Labels :
          /\ Rests(text)
          /\ text = "Replay verified" =>
                Rendered /\ held.decision = "deny"
    BY <1>10 DEF Loaded, Failed, Rendered, Labels
  <2>2. /\ session' = session /\ step' = "idle" /\ answer' = None /\ label' = text
        /\ step \in Awaiting /\ (static => answer # None)
        /\ static => ~ (step = "creating" /\ answer # None /\ answer.ok)
        /\ ~ Rendered => shown' = shown
        /\ Rendered => step = "reading" /\ shown' = held
    BY <1>10, <2>1 DEF Loaded, Failed, GivesUp, Rendered, Succeeded, Displays, Awaiting, Rests
  <2>3. RequestsInOrder'
    BY <2>1, <2>2, RestInOrder
  <2>4. FixtureFits'
    BY <1>2, <1>3, <2>2 DEF FixtureFits
  <2>5. shown' # None => shown'.tenant = session
    BY <1>3, <2>2 DEF StepFits, Recorded
  <2>6. ASSUME text = "Replay verified"
        PROVE  shown' # None /\ shown'.decision = "deny" /\ Recorded(shown)'
    <3>1. Rendered /\ held # None /\ held.decision = "deny" /\ Recorded(held) /\ shown' = held
      BY <1>3, <2>1, <2>2, <2>6 DEF StepFits
    <3>2. UNCHANGED <<session, static, fixture, sessions, memories, receipts>>
      BY <1>2, <2>2 DEF storeVars
    <3> QED
      BY <3>1, <3>2 DEF Recorded, KeptMemories, KeptReceipts, Exists
  <2>7. StepFits'
    BY <1>3, <2>2, <2>5, <2>6 DEF StepFits
  <2> QED
    BY <1>4, <2>2, <2>3, <2>4, <2>7 DEF AnswerFits
<1> QED
  BY <1>6, <1>7, <1>8, <1>9, <1>10 DEF Page

-----------------------------------------------------------------------------
(* Every step *)

\* Time passes, and a session's rows expire.
LEMMA OtherStep ==
    ASSUME ReplayInv, Clock \/ Expiry \/ UNCHANGED vars \/ (\E r \in net : Lose(r) /\ UNCHANGED storeVars),
           fixture' = fixture
    PROVE  ReplayInv'
<1>1. /\ UNCHANGED <<static, step, label, session, shown, held, since, clicks, answer, fixture>>
      /\ net' \subseteq net
  BY DEF Clock, Expiry, vars, pageVars, Lose
<1>2. ReplayTypeOK'
  <2>1. StoreTypeOK'
    BY StoreTypes, TickType, ReapType DEF Clock, Expiry, vars, storeVars, StoreTypeOK
  <2>2. PageTypeOK'
    BY <1>1 DEF ReplayInv, ReplayTypeOK, PageTypeOK
  <2> QED
    BY <1>1, <2>1, <2>2 DEF ReplayInv, ReplayTypeOK, FixtureTypeOK
<1>3. RequestsInOrder'
  BY <1>1 DEF ReplayInv, RequestsInOrder
<1>4. /\ \A t \in Tenant : Grown(t)
      /\ \A t \in Tenant : ReplayLedger(memories'[t])
  <2>1. CASE UNCHANGED <<sessions, memories, receipts>>
    BY <2>1, Unchanging DEF ReplayInv, Exists
  <2>2. CASE \E t \in Tenant : Reap(t)
    <3>1. PICK t \in Tenant : Reap(t)
      BY <2>2
    <3>2. /\ sessions'[t] = None /\ memories'[t] = <<>>
          /\ \A u \in Tenant : u # t =>
                /\ sessions'[u] = sessions[u] /\ memories'[u] = memories[u]
                /\ receipts'[u] = receipts[u]
      BY <3>1, StoreTypes DEF Reap, StoreTypeOK
    <3>3. Grown(t)
      BY <3>2 DEF Grown, Exists
    <3>4. ASSUME NEW u \in Tenant, u # t PROVE Grown(u)
      BY <3>2, <3>4, Unchanging DEF Exists
    <3> QED
      BY <3>2, <3>3, <3>4, EmptySeq DEF ReplayInv, ReplayLedger
  <2> QED
    BY <2>1, <2>2 DEF Clock, Tick, Expiry, vars, storeVars
<1>5. ASSUME NEW x, Recorded(x), session # None PROVE Recorded(x)'
  <2>1. CASE static
    BY <1>1, <1>5, <2>1 DEF Recorded, KeptMemories, KeptReceipts
  <2>2. CASE ~ static
    BY <1>1, <1>4, <1>5, <2>2, SessionType, RecordedGrows
  <2> QED
    BY <2>1, <2>2
<1>6. AnswerFits'
  <2>1. answer # None /\ step = "evaluating" /\ answer.ok => Recorded(answer.receipt)'
    BY <1>1, <1>5 DEF ReplayInv, AnswerFits, StepFits
  <2> QED
    BY <1>1, <2>1 DEF ReplayInv, AnswerFits
<1>7. StepFits'
  <2>1. StepFits /\ (shown # None => session # None)
    BY ShownType DEF ReplayInv, StepFits
  <2>2. step = "reading" => Recorded(held)'
    BY <1>1, <1>5, <2>1 DEF StepFits
  <2>3. step = "idle" /\ label = "Replay verified" => Recorded(shown)'
    BY <1>1, <1>5, <2>1 DEF StepFits
  <2> QED
    BY <1>1, <2>1, <2>2, <2>3 DEF StepFits
<1>8. FixtureFits'
  BY <1>1 DEF ReplayInv, FixtureFits
<1>9. SessionsWhole'
  <2>1. SessionsWhole
    BY DEF ReplayInv
  <2>2. \A t \in Tenant :
            Exists(t)' => Exists(t) /\ (Whole(memories[t]) => Whole(memories'[t]))
    BY <1>4 DEF Grown
  <2>3. /\ session # None => session \in Tenant
        /\ \A r \in net : r.tenant \in Tenant
        /\ clicks \in Tenant
    BY SessionType, NumberedTypes, Sent DEF ReplayInv
  <2>4. ASSUME NEW t \in Tenant, Exists(t)', Exists(t) => Whole(memories[t])
        PROVE  Whole(memories'[t])
    BY <2>2, <2>4
  <2> QED
    BY <1>1, <2>1, <2>3, <2>4 DEF SessionsWhole, Exists
<1> QED
  BY <1>1, <1>2, <1>3, <1>4, <1>6, <1>7, <1>8, <1>9 DEF ReplayInv

LEMMA ReplayInvInit == Init => ReplayInv
<1> SUFFICES ASSUME Init PROVE ReplayInv
  OBVIOUS
<1>1. /\ static \in BOOLEAN /\ step = "creating" /\ label = "none"
      /\ session = None /\ shown = None /\ held = None /\ since = None
      /\ clicks = 1 /\ answer = None /\ net = {Request(1, "creating", 1)}
      /\ fixture = None
  BY DEF Init, PageInit, FixtureInit
<1>2. StoreTypeOK
  <2>1. <<>> \in Seq(Memory) /\ <<>> \in Seq(ActionReceipt)
    BY EmptySeq
  <2> QED
    BY <2>1, StoreAssumption DEF Init, StoreInit, StoreTypeOK
<1>3. 1 \in 1 .. MaxClicks /\ 1 \in Tenant
  BY NumberedTypes
<1>4. now \in 0 .. MaxTime /\ now + BrowserSkew \in Int
  BY <1>2, NumberedTypes, StoreAssumption DEF StoreTypeOK
<1>5. /\ Request(1, "creating", 1) \in Requests
      /\ Request(1, "creating", 1).click = 1
      /\ Request(1, "creating", 1).for = "creating"
      /\ Request(1, "creating", 1).tenant = 1
  BY <1>3, <1>4 DEF Request, Requests, Awaiting, Time
<1>6. ReplayTypeOK
  BY <1>1, <1>2, <1>3, <1>5
  DEF ReplayTypeOK, PageTypeOK, FixtureTypeOK, Awaiting, Labels
<1>7. RequestsInOrder
  BY <1>1, <1>3, <1>5, NumberedTypes DEF RequestsInOrder
<1>8. AnswerFits /\ StepFits /\ FixtureFits
  BY <1>1 DEF AnswerFits, StepFits, FixtureFits
<1>9. \A t \in Tenant : ReplayLedger(memories[t])
  BY EmptySeq DEF Init, StoreInit, ReplayLedger
<1>10. SessionsWhole
  BY <1>1, <1>5 DEF SessionsWhole
<1> QED
  BY <1>1, <1>6, <1>7, <1>8, <1>9, <1>10 DEF ReplayInv

LEMMA ReplayInvNext == ReplayInv /\ [Next]_vars => ReplayInv'
<1> SUFFICES ASSUME ReplayInv, [Next]_vars PROVE ReplayInv'
  OBVIOUS
<1>1. CASE OnPage
  BY <1>1, PageStep DEF OnPage
<1>2. CASE Clicked
  BY <1>2, ClickStep DEF Clicked
<1>3. CASE FromService
  BY <1>3, ServiceStep, OtherStep DEF FromService
<1>4. CASE FromFixture
  BY <1>4, FixtureStep DEF FromFixture
<1>5. CASE Clock \/ Expiry \/ UNCHANGED vars
  BY <1>5, OtherStep DEF Clock, Expiry, vars
<1> QED
  BY <1>1, <1>2, <1>3, <1>4, <1>5 DEF Next

\* Page, awaited answer and backend agree at every moment (createSession, runReplay).
THEOREM ReplayCorrect == Spec => []ReplayInv
BY ReplayInvInit, ReplayInvNext, PTL DEF Spec

\* No request, however late it is served, leaves anything that is not of its type.
THEOREM ReplayTypeCorrect == Spec => []ReplayTypeOK
<1>1. ReplayInv => ReplayTypeOK
  BY DEF ReplayInv
<1> QED
  BY <1>1, ReplayCorrect, PTL

\* "Replay verified" is said only of a denial that the session's backend has
\* recorded, and that took the place of its permission (runReplay).
THEOREM VerifiedCorrect == Spec => []VerifiedIsRecorded
<1>1. ReplayInv => VerifiedIsRecorded
  BY DEF ReplayInv, StepFits, Recorded, VerifiedIsRecorded
<1> QED
  BY <1>1, ReplayCorrect, PTL

\* The page shows nothing of a session it no longer holds (createSession).
THEOREM DisplayCorrect == Spec => []DisplayIsOfSession
<1>1. ReplayInv => DisplayIsOfSession
  BY DEF ReplayInv, StepFits, DisplayIsOfSession
<1> QED
  BY <1>1, ReplayCorrect, PTL

\* At rest, page and fixture have the same session (createFixture).
THEOREM FixtureCorrect == Spec => []FixtureIsOfSession
<1>1. ReplayInv => FixtureIsOfSession
  BY DEF ReplayInv, FixtureFits, FixtureIsOfSession
<1> QED
  BY <1>1, ReplayCorrect, PTL

\* A session's permission is revoked once, however often the replay is run, given
\* up and served late (runReplay).
THEOREM RevokedCorrect == Spec => []RevokedOnce
<1>1. ASSUME NEW ms, NEW n \in Nat, n = Len(ms), DOMAIN ms = 1 .. n, ReplayLedger(ms)
      PROVE  Cardinality(Denials(ms)) <= 1
  <2>1. Denials(ms) = {} \/ Denials(ms) = {3}
    BY <1>1, LedgerDenials DEF Denials
  <2>2. Cardinality({}) = 0 /\ Cardinality({3}) = 1
    BY FS_EmptySet, FS_Singleton
  <2> QED
    BY <2>1, <2>2
<1>2. ASSUME ReplayInv, NEW t \in Tenant PROVE Cardinality(Denials(memories[t])) <= 1
  <2>1. /\ Len(memories[t]) \in Nat /\ DOMAIN memories[t] = 1 .. Len(memories[t])
        /\ ReplayLedger(memories[t])
    BY <1>2, StoreTypes, LenProperties DEF ReplayInv
  <2> QED
    BY <1>1, <2>1
<1>3. ASSUME ReplayInv, fixture # None PROVE Cardinality(Denials(fixture.memories)) <= 1
  BY <1>1, <1>3, FixtureRows
<1>4. ReplayInv => RevokedOnce
  BY <1>2, <1>3 DEF RevokedOnce
<1> QED
  BY <1>4, ReplayCorrect, PTL

-----------------------------------------------------------------------------
(* The replay blocks *)

\* The pause covers what the browser's clock is ahead.
PauseCovers == BrowserSkew <= Pause

\* A denial of the action is relevant to it, and recalled if one other memory is.
DenialFound == RecallLimit >= 2 /\ Score[PermissionTopic][Publish] >= Floor

LEMMA DenyingLater ==
    ASSUME NEW ms \in Seq(Memory), NEW a \in Int, NEW b \in Int, a <= b, Denying(ms, a)
    PROVE  Denying(ms, b)
<1>1. Len(ms) = 3
  BY DEF Denying
<1>2. ms[3] \in Memory
  BY <1>1, ElementOfSeq
<1>3. ms[3].from \in Int
  BY <1>2 DEF Memory, Time
<1> QED
  BY <1>3 DEF Denying

\* The permission is superseded, so that of a session's three memories at most one
\* ranks above the denial.
LEMMA DenialDecides ==
    ASSUME DenialFound, NEW ms \in Seq(Memory), ReplayLedger(ms), NEW at \in Int, Denying(ms, at)
    PROVE  Decide(ms, Evidence(ms, Publish, at)) = "deny"
<1>1. /\ Len(ms) = 3 /\ DOMAIN ms = 1 .. 3
      /\ ~ IsActive(ms[1]) /\ ms[3].effect = "deny"
  <2>1. Len(ms) = 3
    BY DEF Denying
  <2>2. DOMAIN ms = 1 .. 3
    BY <2>1, LenProperties
  <2>3. ms # <<>>
    BY <2>1, EmptySeq
  <2> QED
    BY <2>1, <2>2, <2>3 DEF ReplayLedger
<1>2. 3 \in InForce(ms, at)
  BY <1>1 DEF Denying, InForce, ValidAt
<1>3. ms[3].topic = PermissionTopic /\ ms[3].created \in Int
  <2>1. 3 \in 1 .. Len(ms)
    BY <1>1
  <2>2. ms[3] \in Memory
    BY <2>1, ElementOfSeq
  <2> QED
    BY <2>2 DEF Denying, Memory, Time
<1>4. Score[PermissionTopic][Publish] \in Int
  BY ScoreAssumption, NumberedTypes
<1> DEFINE above == {j \in InForce(ms, at) : RanksAbove(ms, Publish, j, 3)}
<1>5. above \subseteq {2}
  <2>1. ~ RanksAbove(ms, Publish, 3, 3)
    BY <1>3, <1>4 DEF RanksAbove
  <2>2. 1 \notin InForce(ms, at) /\ InForce(ms, at) \subseteq 1 .. 3
    BY <1>1 DEF InForce
  <2> QED
    BY <2>1, <2>2
<1>6. Cardinality(above) < RecallLimit
  <2>1. IsFiniteSet({2}) /\ Cardinality({2}) = 1
    BY FS_Singleton
  <2>2. Cardinality(above) <= 1 /\ Cardinality(above) \in Nat
    BY <1>5, <2>1, FS_Subset, FS_CardinalityType
  <2> QED
    BY <2>2, LimitAssumption DEF DenialFound
<1>7. 3 \in Evidence(ms, Publish, at)
  BY <1>2, <1>3, <1>6 DEF Evidence, Recalled, IsRelevant, DenialFound
<1> QED
  BY <1>1, <1>7 DEF Decide

\* The rows a request leaves: as they were, those of a session's creation, or with the
\* denial it brings; and what an evaluation is answered.
LEMMA RowsServed ==
    ASSUME ReplayInv, ~ static, NEW r \in net, Serve(r)
    PROVE  /\ now' = now
           /\ \A t \in Tenant :
                \/ memories'[t] = memories[t]
                \/ r.for = "creating" /\ t = r.tenant /\ Len(memories'[t]) \in 0 .. 2
                \/ Len(memories[t]) = 2 /\ Denying(memories'[t], r.from)
           /\ \A t \in Tenant :
                Exists(t)' => Exists(t) \/ (r.for = "creating" /\ t = r.tenant)
           /\ \E ok \in BOOLEAN, receipt \in ActionReceipt \cup {None} :
                /\ Answer(r, ok, receipt)
                /\ r.for = "revoking" /\ ok => Denying(memories'[r.tenant], r.from)
                /\ r.for = "evaluating" /\ ok =>
                     /\ Exists(r.tenant)
                     /\ receipt.decision =
                          Decide(memories[r.tenant], Evidence(memories[r.tenant], Publish, now))
<1>1. r.tenant \in Tenant /\ StoreTypeOK /\ r.from \in Int
  BY Sent, StoreTypes DEF ReplayInv
<1>2. CASE ServeCreate(r) \/ FailCreate(r)
  <2>1. PICK n \in 0 .. 2, ok \in BOOLEAN : Opens(r, n) /\ Answer(r, ok, None)
    BY <1>2, Opened
  <2>2. r.for = "creating" /\ now' = now
    BY <2>1 DEF Opens
  <2> DEFINE ms == SubSeq(InitialMemories, 1, n)
  <2>3. Len(ms) \in 0 .. 2
    BY FirstMemories
  <2>4. /\ memories'[r.tenant] = ms
        /\ \A t \in Tenant : t # r.tenant => memories'[t] = memories[t] /\ sessions'[t] = sessions[t]
    BY <1>1, <2>1 DEF Opens, StoreTypeOK
  <2> HIDE DEF ms
  <2> QED
    BY <2>1, <2>2, <2>3, <2>4 DEF Exists
<1>3. CASE RefuseCreate(r) \/ RefuseCall(r) \/ ServeState(r) \/ FailCall(r)
  <2>1. now' = now /\ memories' = memories
    BY <1>3 DEF RefuseCreate, RefuseSession, RefuseCall, ServeState, FailCall, storeVars
  <2>2. \E ok \in BOOLEAN :
            Answer(r, ok, None) /\ (ok => r.for # "evaluating" /\ r.for # "revoking")
    BY <1>3 DEF RefuseCreate, RefuseCall, ServeState, FailCall
  <2>3. \A t \in Tenant : Exists(t)' => Exists(t)
    <3>1. CASE RefuseCreate(r) \/ RefuseCall(r)
      BY <3>1 DEF RefuseCreate, RefuseSession, RefuseCall, storeVars, Exists
    <3>2. CASE ServeState(r) \/ FailCall(r)
      <4>1. Authorized(r.tenant, r.tenant, TRUE) /\ sessions' = Spent(r.tenant)
        BY <3>2 DEF ServeState, FailCall
      <4>2. /\ Exists(r.tenant)
            /\ \A t \in Tenant : t # r.tenant => sessions'[t] = sessions[t]
        BY <1>1, <4>1, SpentType
      <4> QED
        BY <4>2 DEF Exists
    <3> QED
      BY <1>3, <3>1, <3>2
  <2> QED
    BY <2>1, <2>2, <2>3
<1>4. CASE ServeAdd(r)
  <2>1. /\ Len(memories[r.tenant]) = 2 /\ Len(memories'[r.tenant]) = 3
        /\ memories'[r.tenant][3] = NewMemoryRecord(Revocation(r))
    BY <1>4, RowsRevoked
  <2>2. Denying(memories'[r.tenant], r.from)
    BY <1>1, <2>1, RevocationType DEF Denying, IsActive
  <2>3. /\ \A t \in Tenant : t # r.tenant => memories'[t] = memories[t]
        /\ now' = now /\ Answer(r, TRUE, None) /\ r.for = "revoking"
    BY <1>1, <1>4 DEF ServeAdd, StoreTypeOK
  <2>4. \A t \in Tenant : Exists(t)' => Exists(t)
    <3>1. /\ Exists(r.tenant)
          /\ \A t \in Tenant : t # r.tenant => sessions'[t] = sessions[t]
      BY <1>1, <1>4, SpentType DEF ServeAdd
    <3> QED
      BY <3>1 DEF Exists
  <2> QED
    BY <2>1, <2>2, <2>3, <2>4
<1>5. CASE ServeEvaluate(r)
  <2>1. /\ now' = now /\ memories' = memories
        /\ Answer(r, TRUE, Verdict(r)) /\ r.for = "evaluating"
        /\ Authorized(r.tenant, r.tenant, TRUE) /\ sessions' = Spent(r.tenant)
    BY <1>5 DEF ServeEvaluate
  <2>2. /\ Exists(r.tenant)
        /\ \A t \in Tenant : t # r.tenant => sessions'[t] = sessions[t]
    BY <1>1, <2>1, SpentType
  <2>3. /\ Verdict(r) \in ActionReceipt
        /\ Verdict(r).decision =
              Decide(memories[r.tenant], Evidence(memories[r.tenant], Publish, now))
    BY <2>2, VerdictType
  <2>4. \A t \in Tenant : Exists(t)' => Exists(t)
    BY <2>2 DEF Exists
  <2>5. \E ok \in BOOLEAN, receipt \in ActionReceipt \cup {None} :
            /\ Answer(r, ok, receipt)
            /\ receipt.decision =
                  Decide(memories[r.tenant], Evidence(memories[r.tenant], Publish, now))
    BY <2>1, <2>3
  <2> QED
    BY <2>1, <2>2, <2>4, <2>5
<1> QED
  BY <1>2, <1>3, <1>4, <1>5 DEF Serve

\* What the pages' clock and the requests' dates are.
LEMMA DateTypes ==
    ASSUME ReplayInv
    PROVE  /\ now \in Int /\ now + BrowserSkew \in Int /\ BrowserSkew \in Int
           /\ \A r \in net : r.from \in Int
           /\ \A t \in Tenant : memories[t] \in Seq(Memory)
BY StoreTypes, Sent, NumberedTypes DEF ReplayInv

LEMMA BlockingDates ==
    ASSUME Blocking
    PROVE  Dated /\ DenialInTime /\ (step = "pausing" => since # None)
BY DEF Blocking

LEMMA BlockingEnds ==
    ASSUME Blocking
    PROVE  (step = "reading" => Blocks(held)) /\ (label = "Review required" => Cut)
BY DEF Blocking

LEMMA SinceType ==
    ASSUME ReplayInv, Blocking, step = "pausing"
    PROVE  since \in Int /\ since + BrowserSkew \in Int
<1>1. since \in 0 .. MaxTime /\ MaxTime \in Nat
  BY BlockingDates, StoreAssumption DEF ReplayInv, ReplayTypeOK, PageTypeOK
<1> QED
  BY <1>1, NumberedTypes

LEMMA BlockingServed ==
    ASSUME DenialFound, ReplayInv, Blocking, ~ static, NEW r \in net, Serve(r)
    PROVE  Blocking'
<1>1. /\ now' = now
      /\ \A t \in Tenant :
            \/ memories'[t] = memories[t]
            \/ r.for = "creating" /\ t = r.tenant /\ Len(memories'[t]) \in 0 .. 2
            \/ Len(memories[t]) = 2 /\ Denying(memories'[t], r.from)
      /\ \A t \in Tenant : Exists(t)' => Exists(t) \/ (r.for = "creating" /\ t = r.tenant)
  BY RowsServed
<1>2. PICK ok \in BOOLEAN, receipt \in ActionReceipt \cup {None} :
        /\ Answer(r, ok, receipt)
        /\ r.for = "revoking" /\ ok => Denying(memories'[r.tenant], r.from)
        /\ r.for = "evaluating" /\ ok =>
             /\ Exists(r.tenant)
             /\ receipt.decision =
                  Decide(memories[r.tenant], Evidence(memories[r.tenant], Publish, now))
  BY RowsServed
<1>3. /\ UNCHANGED <<static, step, label, session, held, since, clicks>>
      /\ net' \subseteq net
      /\ \/ answer' = answer
         \/ /\ r.click = clicks /\ r.for = step
            /\ answer'.ok = ok /\ answer'.receipt = receipt
  BY <1>2 DEF Answer
<1>4. /\ now \in Int /\ now + BrowserSkew \in Int /\ r.from \in Int
      /\ r.from <= now + BrowserSkew
      /\ \A t \in Tenant : memories[t] \in Seq(Memory) /\ memories'[t] \in Seq(Memory)
  BY DateTypes, ServiceServes DEF Served, StoreTypeOK, Blocking, Dated
<1>5. Cut' <=> Cut
  BY <1>1 DEF Cut
<1>6. Dated'
  <2>1. ASSUME NEW t \in Tenant, Len(memories'[t]) = 3
        PROVE  Denying(memories'[t], now + BrowserSkew)
    <3>1. CASE memories'[t] = memories[t]
      BY <2>1, <3>1 DEF Blocking, Dated
    <3>2. CASE Denying(memories'[t], r.from)
      BY <1>4, <3>2, DenyingLater
    <3>3. ~ Len(memories'[t]) \in 0 .. 2
      BY <2>1
    <3> QED
      BY <1>1, <3>1, <3>2, <3>3
  <2> QED
    BY <1>1, <1>3, <2>1 DEF Blocking, Dated
\* What the page's session has, it keeps.
<1>7. ASSUME session \in Tenant, Exists(session)'
      PROVE  /\ Exists(session)
             /\ \A at \in Int : Denying(memories[session], at) => Denying(memories'[session], at)
  <2>1. r.for = "creating" => r.tenant # session
    BY DEF ReplayInv, RequestsInOrder
  <2>2. Exists(session)
    <3>1. sessions'[session] # None
      BY <1>3, <1>7 DEF Exists
    <3> QED
      BY <1>1, <1>7, <2>1, <3>1 DEF Exists
  <2>3. ASSUME NEW at \in Int, Denying(memories[session], at)
        PROVE  memories'[session] = memories[session]
    BY <1>1, <1>7, <2>1, <2>3 DEF Denying
  <2> QED
    BY <2>2, <2>3
<1>8. step = "pausing" => since \in Int /\ since + BrowserSkew \in Int
  BY SinceType
<1>9. DenialInTime'
  <2> SUFFICES ASSUME session \in Tenant, Exists(session)'
               PROVE  /\ step = "revoking" /\ answer' # None /\ answer'.ok =>
                            Denying(memories'[session], now + BrowserSkew)
                      /\ step = "pausing" =>
                            since <= now /\ Denying(memories'[session], since + BrowserSkew)
                      /\ step = "evaluating" => Cut \/ Denying(memories'[session], now)
    BY <1>1, <1>3, <1>5 DEF DenialInTime
  <2>1. ASSUME step = "revoking", answer' # None, answer'.ok
        PROVE  Denying(memories'[session], now + BrowserSkew)
    <3>1. CASE answer' = answer
      BY <1>4, <1>7, <2>1, <3>1 DEF Blocking, DenialInTime
    <3>2. CASE r.click = clicks /\ r.for = step /\ ok
      <4>1. r.tenant = session
        BY <2>1, <3>2, AnswerIsFor
      <4> QED
        BY <1>2, <1>4, <2>1, <3>2, <4>1, DenyingLater
    <3> QED
      BY <1>3, <2>1, <3>1, <3>2
  <2> QED
    BY <1>4, <1>7, <1>8, <2>1 DEF Blocking, DenialInTime
<1>10. ASSUME step = "evaluating", answer' # None, answer'.ok PROVE Blocks(answer'.receipt)
  <2>1. CASE answer' = answer
    BY <1>10, <2>1 DEF Blocking
  <2>2. CASE r.click = clicks /\ r.for = step /\ ok /\ answer'.receipt = receipt
    <3>1. r.tenant = session
      BY <1>10, <2>2, AnswerIsFor
    <3>2. session \in Tenant
      BY <3>1, Sent DEF ReplayInv
    <3>3. Exists(session)
      BY <1>2, <1>10, <2>2, <3>1
    <3>4. Cut \/ Denying(memories[session], now)
      BY <1>10, <3>2, <3>3 DEF Blocking, DenialInTime
    <3>5. Denying(memories[session], now) => receipt.decision = "deny"
      BY <1>2, <1>4, <1>10, <2>2, <3>1, <3>2, DenialDecides DEF ReplayInv
    <3> QED
      BY <2>2, <3>4, <3>5 DEF Blocks
  <2> QED
    BY <1>3, <1>10, <2>1, <2>2
<1>11. (step = "evaluating" /\ answer # None /\ answer.ok => Blocks(answer.receipt))'
  BY <1>3, <1>5, <1>10 DEF Blocks
<1>12. step = "reading" => Blocks(held)'
  BY <1>3, <1>5 DEF Blocking, Blocks
<1> QED
  BY <1>3, <1>5, <1>6, <1>9, <1>11, <1>12 DEF Blocking

\* The fixture's receipts all deny, and its page has nothing to do with the store.
LEMMA BlockingFixture ==
    ASSUME ReplayInv, Blocking, static, NEW r \in net, FixtureServe(r), UNCHANGED storeVars
    PROVE  Blocking'
<1>1. UNCHANGED <<now, memories>>
  BY DEF storeVars
<1>2. \E ok \in BOOLEAN, receipt \in ActionReceipt \cup {None} :
        /\ Answer(r, ok, receipt)
        /\ r.for = "evaluating" /\ ok => receipt.decision = "deny"
  <2>1. CASE FixtureEvaluate(r)
    <3>1. FixtureReceipt(r).decision = "deny" /\ Answer(r, TRUE, FixtureReceipt(r))
      BY <2>1 DEF FixtureEvaluate, FixtureReceipt
    <3>2. FixtureReceipt(r) \in ActionReceipt
      BY <2>1, FixtureReceiptType
    <3> QED
      BY <3>1, <3>2
  <2>2. CASE ~ FixtureEvaluate(r)
    <3>1. \E ok \in BOOLEAN : Answer(r, ok, None) /\ (ok => r.for # "evaluating")
      BY <2>2 DEF FixtureServe, FixtureCreate, FixtureCreateFails, FixtureRefuses, FixtureState,
                  FixtureAdd, FixtureAddFails, FixtureAddRefuses, FixtureEvaluateFails, Admitted
    <3> QED
      BY <3>1
  <2> QED
    BY <2>1, <2>2
<1>3. PICK ok \in BOOLEAN, receipt \in ActionReceipt \cup {None} :
        /\ Answer(r, ok, receipt)
        /\ r.for = "evaluating" /\ ok => receipt.decision = "deny"
  BY <1>2
<1>4. /\ UNCHANGED <<static, step, label, session, held, since>>
      /\ net' \subseteq net
      /\ \/ answer' = answer
         \/ r.for = step /\ answer'.ok = ok /\ answer'.receipt = receipt
  BY <1>3 DEF Answer
<1>5. Cut' <=> Cut
  BY <1>1 DEF Cut
<1>6. Dated' /\ DenialInTime'
  BY <1>1, <1>4 DEF Blocking, Dated, DenialInTime
<1>7. (step = "evaluating" /\ answer # None /\ answer.ok => Blocks(answer.receipt))'
  <2>1. ASSUME step = "evaluating", answer' # None, answer'.ok
        PROVE  answer'.receipt.decision = "deny" \/ Cut'
    <3>1. CASE answer' = answer
      <4>1. Blocks(answer.receipt)
        BY <2>1, <3>1 DEF Blocking
      <4> QED
        BY <1>5, <3>1, <4>1 DEF Blocks
    <3>2. CASE r.for = step /\ answer'.ok = ok /\ answer'.receipt = receipt
      BY <1>3, <2>1, <3>2
    <3> QED
      BY <1>4, <3>1, <3>2
  <2> QED
    BY <1>4, <2>1 DEF Blocks
<1>8. (step = "reading" => Blocks(held))' /\ (label = "Review required" => Cut)'
  BY <1>4, <1>5, BlockingEnds DEF Blocks
<1> QED
  BY <1>4, <1>6, <1>7, <1>8 DEF Blocking

\* Time passes, sessions expire, and requests are lost.
LEMMA BlockingOther ==
    ASSUME ReplayInv, Blocking,
           Clock \/ Expiry \/ UNCHANGED vars \/ (\E r \in net : Lose(r) /\ UNCHANGED storeVars)
    PROVE  Blocking'
<1>1. /\ UNCHANGED <<static, step, label, session, held, since, answer>>
      /\ net' \subseteq net
  BY DEF Clock, Expiry, vars, pageVars, Lose
<1>2. /\ now \in Int /\ now' \in Int /\ now <= now' /\ BrowserSkew \in Int
      /\ now + BrowserSkew <= now' + BrowserSkew /\ now' + BrowserSkew \in Int
      /\ \A r \in net : r.from \in Int
  BY DateTypes DEF Clock, Tick, Expiry, Reap, vars, storeVars
<1>3. Cut => Cut'
  BY <1>2, StoreTypes, StoreAssumption DEF Cut, Clock, Tick, Expiry, Reap, vars, storeVars
<1>4. \A t \in Tenant :
         /\ memories'[t] = memories[t] \/ Len(memories'[t]) = 0
         /\ Exists(t)' => Exists(t) /\ memories'[t] = memories[t]
  <2>1. CASE UNCHANGED <<sessions, memories>>
    BY <2>1 DEF Exists
  <2>2. CASE \E t \in Tenant : Reap(t)
    <3>1. PICK t \in Tenant : Reap(t)
      BY <2>2
    <3>2. /\ sessions'[t] = None /\ memories'[t] = <<>>
          /\ \A u \in Tenant : u # t => sessions'[u] = sessions[u] /\ memories'[u] = memories[u]
      BY <3>1, StoreTypes DEF Reap, StoreTypeOK
    <3> QED
      BY <3>2, EmptySeq DEF Exists
  <2> QED
    BY <2>1, <2>2 DEF Clock, Tick, Expiry, vars, storeVars
<1>5. \A t \in Tenant : memories[t] \in Seq(Memory)
  BY DateTypes
<1>6. Dated'
  <2>1. \A r \in net' : r.from <= now' + BrowserSkew
    BY <1>1, <1>2, BlockingDates DEF Dated
  <2>2. ASSUME NEW t \in Tenant, Len(memories'[t]) = 3
        PROVE  Denying(memories'[t], now' + BrowserSkew)
    <3>1. memories'[t] = memories[t] /\ Denying(memories[t], now + BrowserSkew)
      <4>1. memories'[t] = memories[t] /\ Len(memories[t]) = 3
        BY <1>4, <2>2
      <4> QED
        BY <4>1, BlockingDates DEF Dated
    <3> QED
      BY <1>2, <1>5, <3>1, DateTypes, DenyingLater
  <2> QED
    BY <2>1, <2>2 DEF Dated
<1>7. DenialInTime'
  <2> SUFFICES ASSUME ~ static, session \in Tenant, Exists(session)'
               PROVE  /\ step = "revoking" /\ answer # None /\ answer.ok =>
                            Denying(memories[session], now' + BrowserSkew)
                      /\ step = "pausing" =>
                            since <= now' /\ Denying(memories[session], since + BrowserSkew)
                      /\ step = "evaluating" => Cut' \/ Denying(memories[session], now')
    <3>1. session \in Tenant /\ Exists(session)' => memories'[session] = memories[session]
      <4>1. Exists(session)' => sessions'[session] # None
        BY <1>1 DEF Exists
      <4> QED
        BY <1>4, <4>1 DEF Exists
    <3> QED
      BY <1>1, <3>1 DEF DenialInTime
  <2>1. Exists(session)
    <3>1. sessions'[session] # None
      BY <1>1 DEF Exists
    <3> QED
      BY <1>4, <3>1 DEF Exists
  <2>2. step = "pausing" => since \in Int
    BY SinceType
  <2>3. DenialInTime
    BY BlockingDates
  <2>4. memories[session] \in Seq(Memory)
    BY <1>5
  <2>5. \A a, b \in Int :
            a <= b /\ Denying(memories[session], a) => Denying(memories[session], b)
    BY <2>4, DenyingLater
  <2> QED
    BY <1>2, <1>3, <2>1, <2>2, <2>3, <2>5 DEF DenialInTime
<1>8. (step = "evaluating" /\ answer # None /\ answer.ok => Blocks(answer.receipt))'
  BY <1>1, <1>3 DEF Blocking, Blocks
<1>9. (step = "reading" => Blocks(held))' /\ (label = "Review required" => Cut)'
  BY <1>1, <1>3 DEF Blocking, Blocks
<1> QED
  BY <1>1, <1>6, <1>7, <1>8, <1>9 DEF Blocking

\* What every step of the page leaves: the store, the clock, and the dates of what it
\* sends.
LEMMA PageFrame ==
    ASSUME ReplayInv, Blocking, UNCHANGED storeVars,
           \A r \in net' : r \in net \/ r.from = now + BrowserSkew
    PROVE  /\ now' = now /\ memories' = memories /\ sessions' = sessions
           /\ Cut' <=> Cut
           /\ Dated'
<1>1. now' = now /\ memories' = memories /\ sessions' = sessions
  BY DEF storeVars
<1>2. Cut' <=> Cut
  BY <1>1 DEF Cut
<1>3. \A r \in net' : r.from <= now' + BrowserSkew
  BY <1>1, DateTypes, BlockingDates DEF Dated
<1> QED
  BY <1>1, <1>2, <1>3, BlockingDates DEF Dated

LEMMA BlockingClick ==
    ASSUME ReplayInv, Blocking, Click, UNCHANGED storeVars
    PROVE  Blocking'
<1>1. /\ \A r \in net' : r \in net \/ r.from = now + BrowserSkew
      /\ label' = label /\ step = "idle" /\ step' \in {"creating", "revoking"}
      /\ answer' = answer
  BY DEF Click, Reset, Run, Clicks, Request
<1>2. answer = None
  <2>1. answer # None => answer.to.for \in Awaiting /\ answer.to.for = step
    BY DEF ReplayInv, ReplayTypeOK, PageTypeOK, Answers, Requests, AnswerFits
  <2> QED
    BY <1>1, <2>1 DEF Awaiting
<1>3. (Cut' <=> Cut) /\ Dated'
  BY <1>1, PageFrame
<1> QED
  BY <1>1, <1>2, <1>3 DEF Blocking, DenialInTime

\* The denial is recorded, and dated, before the pause begins; after the pause, it is
\* in force.
LEMMA BlockingPage ==
    ASSUME PauseCovers, ReplayInv, Blocking, Page, UNCHANGED storeVars
    PROVE  Blocking'
<1>1. \A r \in net' : r \in net \/ r.from = now + BrowserSkew
  <2>1. net' = net \/ \E for, t : net' = net \cup {Request(clicks, for, t)}
    BY DEF Page, Created, Loaded, Revoked, Restarted, Evaluated, Rendered, Failed, Sends, Rests
  <2>2. \A for, t : Request(clicks, for, t).from = now + BrowserSkew
    BY DEF Request
  <2> QED
    BY <2>1, <2>2
<1>2. /\ now' = now /\ memories' = memories /\ sessions' = sessions
      /\ (Cut' <=> Cut) /\ Dated'
  BY <1>1, PageFrame
<1>3. CASE Created
  BY <1>2, <1>3 DEF Created, Sends, Blocking, DenialInTime
<1>4. CASE Loaded \/ Failed
  BY <1>2, <1>4 DEF Loaded, Failed, Rests, Blocking, DenialInTime
<1>5. CASE Revoked
  <2>1. /\ step = "revoking" /\ answer # None /\ answer.ok /\ step' = "pausing" /\ since' = now
        /\ UNCHANGED <<static, label, session>>
    BY <1>5 DEF Revoked, Succeeded
  <2>2. now \in Int /\ now # None
    BY DateTypes, NoneAssumption
  <2>3. ~ static /\ session \in Tenant /\ Exists(session) =>
            Denying(memories[session], now + BrowserSkew)
    BY <2>1 DEF Blocking, DenialInTime
  <2>4. DenialInTime'
    BY <1>2, <2>1, <2>2, <2>3 DEF DenialInTime, Exists
  <2> QED
    BY <1>2, <2>1, <2>2, <2>4 DEF Blocking
<1>6. CASE Restarted
  <2>1. /\ step = "pausing" /\ step' = "evaluating" /\ answer' = None
        /\ now >= since + Pause \/ now = MaxTime
        /\ UNCHANGED <<static, label, session>>
    BY <1>6 DEF Restarted, Sends
  <2>2. /\ since \in Int /\ now \in Int /\ BrowserSkew \in Int /\ Pause \in Int
        /\ since + BrowserSkew \in Int
    BY <2>1, DateTypes, NumberedTypes, SinceType
  <2>3. ASSUME ~ static, session \in Tenant, Exists(session)
        PROVE  Cut \/ Denying(memories[session], now)
    <3>1. since <= now /\ Denying(memories[session], since + BrowserSkew)
      BY <2>1, <2>3 DEF Blocking, DenialInTime
    <3>2. CASE Cut
      BY <3>2
    <3>3. CASE ~ Cut
      <4>1. since + BrowserSkew <= now
        BY <2>1, <2>2, <3>1, <3>3 DEF Cut, PauseCovers
      <4> QED
        BY <2>2, <2>3, <3>1, <4>1, DateTypes, DenyingLater
    <3> QED
      BY <3>2, <3>3
  <2>4. DenialInTime'
    BY <1>2, <2>1, <2>3 DEF DenialInTime, Exists
  <2> QED
    BY <1>2, <2>1, <2>4 DEF Blocking
<1>7. CASE Evaluated
  <2>1. /\ step = "evaluating" /\ answer # None /\ answer.ok /\ step' = "reading"
        /\ held' = answer.receipt /\ label' = label
    BY <1>7 DEF Evaluated, Succeeded, Sends
  <2>2. Blocks(held)'
    BY <1>2, <2>1 DEF Blocking, Blocks
  <2> QED
    BY <1>2, <2>1, <2>2 DEF Blocking, DenialInTime
<1>8. CASE Rendered
  <2>1. /\ step = "reading" /\ step' = "idle"
        /\ label' = IF held.decision = "deny" THEN "Replay verified" ELSE "Review required"
    BY <1>8 DEF Rendered, Succeeded, Rests
  <2>2. label' = "Review required" => Cut
    BY <2>1 DEF Blocking, Blocks
  <2> QED
    BY <1>2, <2>1, <2>2 DEF Blocking, DenialInTime
<1> QED
  BY <1>3, <1>4, <1>5, <1>6, <1>7, <1>8 DEF Page

LEMMA BlockingInit == Init => Blocking
<1> SUFFICES ASSUME Init PROVE Blocking
  OBVIOUS
<1>1. /\ step = "creating" /\ label = "none" /\ answer = None
      /\ net = {Request(1, "creating", 1)}
      /\ \A t \in Tenant : memories[t] = <<>>
  BY DEF Init, PageInit, StoreInit
<1>2. now + BrowserSkew \in Int
  BY NumberedTypes DEF Init, StoreInit
<1>3. Dated
  BY <1>1, <1>2, EmptySeq DEF Dated, Request
<1> QED
  BY <1>1, <1>3 DEF Blocking, DenialInTime

LEMMA BlockingNext ==
    ASSUME PauseCovers, DenialFound
    PROVE  ReplayInv /\ Blocking /\ [Next]_vars => Blocking'
<1> SUFFICES ASSUME ReplayInv, Blocking, [Next]_vars PROVE Blocking'
  OBVIOUS
<1>1. CASE OnPage
  BY <1>1, BlockingPage DEF OnPage
<1>2. CASE Clicked
  BY <1>2, BlockingClick DEF Clicked
<1>3. CASE FromService
  BY <1>3, BlockingServed, BlockingOther DEF FromService
<1>4. CASE FromFixture
  BY <1>4, BlockingFixture DEF FromFixture
<1>5. CASE Clock \/ Expiry \/ UNCHANGED vars
  BY <1>5, BlockingOther
<1> QED
  BY <1>1, <1>2, <1>3, <1>4, <1>5 DEF Next

\* As long as the pause covers what the browser's clock is ahead, and the denial is
\* relevant to the action, the denial a replay records is in force when the replay
\* evaluates, and the evaluation denies (runReplay).
THEOREM BlockingCorrect ==
    ASSUME PauseCovers, DenialFound
    PROVE  Spec => []Blocking
BY ReplayCorrect, BlockingInit, BlockingNext, PTL DEF Spec

\* "The active denial blocks publication" (README.md): where the browser's clock is
\* not ahead, no replay ends in a review, for any pause, and however many replays
\* were given up and served late.
THEOREM BlocksCorrect ==
    ASSUME BrowserSkew <= 0, DenialFound
    PROVE  Spec => []ReplayBlocks
<1>1. PauseCovers
  BY NumberedTypes DEF PauseCovers
<1>2. Blocking => ReplayBlocks
  <2>1. ~ Cut
    BY NumberedTypes DEF Cut
  <2> QED
    BY <2>1, BlockingEnds DEF ReplayBlocks
<1>3. Spec => []Blocking
  BY <1>1, BlockingCorrect
<1> QED
  BY <1>2, <1>3, PTL

=============================================================================

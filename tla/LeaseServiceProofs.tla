------------------------- MODULE LeaseServiceProofs -------------------------
(***************************************************************************)
(* The service keeps its state well typed, and records a receipt only      *)
(* while it is true, for every number of requests, tenants and memories,   *)
(* every limit and every clock skew.                                       *)
(*                                                                         *)
(* TypeInv is inductive by itself.  That a commit is current needs more:   *)
(* what a view says must relate to the ledger at every moment between the  *)
(* retrieval and the guarded insert (ViewsSound), and nobody may reopen a  *)
(* tenant under a request that still uses it (TenantsFresh).               *)
(*                                                                         *)
(* The second part is what belongs to whom: each request leaves at most    *)
(* one receipt, the requests admitted to a session never outnumber its     *)
(* budget, and only those who hold its token change it.  All three follow  *)
(* from one invariant (Owned): a receipt's author never saves again, and a *)
(* request past its authorization holds the token of the tenant it names.  *)
(***************************************************************************)
EXTENDS LeaseService, LeaseStoreProofs, FiniteSetTheorems

TypeInv == TypeOK /\ \A r \in Request : ArgumentsOK(r)

-----------------------------------------------------------------------------
(* Types *)

\* A request keeps its arguments while only other requests move.
LEMMA OthersKeepArguments ==
    ASSUME TypeInv, NEW r \in Request,
           \A s \in Request : s # r =>
               /\ pc'[s] = pc[s] /\ call'[s] = call[s] /\ tries'[s] = tries[s]
               /\ view'[s] = view[s] /\ response'[s] = response[s],
           ArgumentsOK(r)'
    PROVE  \A s \in Request : ArgumentsOK(s)'
<1>1. ASSUME NEW s \in Request, s # r PROVE ArgumentsOK(s)'
  <2>1. ArgumentsOK(s)
    BY DEF TypeInv
  <2> QED
    BY <1>1, <2>1 DEF ArgumentsOK
<1> QED
  BY <1>1

LEMMA CallOf ==
    ASSUME TypeInv, NEW r \in Request, pc[r] # "idle"
    PROVE  call[r] \in Call
BY DEF TypeInv, TypeOK, ArgumentsOK

\* A request that fails keeps what it was called with.
LEMMA FailType ==
    ASSUME TypeInv, StoreTypeOK', NEW r \in Request, pc[r] # "idle", Fail(r),
           objects' \in SUBSET ActionReceipt
    PROVE  TypeInv'
<1>1. TypeOK'
  BY DEF TypeInv, TypeOK, Fail, Goto, Ended
<1>2. ArgumentsOK(r)'
  BY DEF TypeInv, TypeOK, ArgumentsOK, Fail, Goto
<1>3. \A s \in Request : ArgumentsOK(s)'
  BY <1>2, OthersKeepArguments DEF TypeInv, TypeOK, Fail, Goto
<1> QED
  BY <1>1, <1>3 DEF TypeInv

LEMMA StoreUnchangedType ==
    ASSUME StoreTypeOK, UNCHANGED storeVars
    PROVE  StoreTypeOK'
BY DEF StoreTypeOK, storeVars

\* A request that arrives brings arguments of the right types.
LEMMA ArriveType ==
    ASSUME TypeInv, NEW r \in Request, NEW asked \in Call, NEW label, Arrive(r, asked, label),
           \/ label = "open" /\ asked.draft \in MemoryCreate /\ asked.draft.until # None
           \/ /\ label = "authorize"
              /\ asked.op \in {"add", "state", "evaluate"}
              /\ asked.op = "add" => asked.draft \in MemoryCreate
              /\ asked.op = "evaluate" => asked.query \in Query
    PROVE  TypeInv'
<1>1. StoreTypeOK'
  BY StoreUnchangedType DEF TypeInv, TypeOK, Arrive
<1>2. TypeOK'
  BY <1>1 DEF TypeInv, TypeOK, Arrive, Goto, Underway
<1>3. asked # None
  BY AbsentAssumption
<1>4. ArgumentsOK(r)'
  BY <1>3 DEF TypeInv, TypeOK, ArgumentsOK, Arrive, HasRoom, Goto
<1>5. \A s \in Request : ArgumentsOK(s)'
  BY <1>4, OthersKeepArguments DEF TypeInv, TypeOK, Arrive, Goto
<1> QED
  BY <1>2, <1>5 DEF TypeInv

\* receive: the drafts of clients, and of the service itself, are well formed.
LEMMA ReceiveType ==
    ASSUME TypeInv, NEW r \in Request, Receive(r)
    PROVE  TypeInv'
<1>1. now \in Int /\ HostNow \in Int
  BY ServiceAssumption DEF TypeInv, TypeOK, StoreTypeOK, HostNow
<1>2. CASE ReceiveCreate(r)
  <2>1. PICK t \in Tenant :
          Arrive(r, [op |-> "create", tenant |-> t, token |-> t, query |-> None,
                     draft |-> InitialPermission(HostNow + TTL)], "open")
    BY <1>2 DEF ReceiveCreate
  <2> DEFINE d == InitialPermission(HostNow + TTL)
             asked == [op |-> "create", tenant |-> t, token |-> t, query |-> None, draft |-> d]
  <2>2. d \in MemoryCreate /\ d.until # None
    BY <1>1, ServiceAssumption, NoneAssumption
       DEF InitialPermission, MemoryCreate, Effect, Time
  <2> HIDE DEF d
  <2>3. asked \in Call /\ asked.draft = d
    BY <2>2 DEF Call, Operation, Token
  <2>4. Arrive(r, asked, "open")
    BY <2>1 DEF d
  <2> HIDE DEF asked
  <2> QED
    BY <2>2, <2>3, <2>4, ArriveType
<1>3. CASE ReceiveAdd(r)
  <2>1. PICK t \in Issued, token \in Issued, c \in ClientDraft,
             id \in KnownMemories \cup {None} :
          Arrive(r,
            [op |-> "add", tenant |-> t, token |-> token, query |-> None,
             draft |-> [effect |-> c.effect, topic |-> c.topic, from |-> HostNow + c.delay,
                        until |-> IF c.length = None THEN None ELSE HostNow + c.delay + c.length,
                        supersedes |-> id]], "authorize")
    BY <1>3 DEF ReceiveAdd
  <2> DEFINE d == [effect |-> c.effect, topic |-> c.topic, from |-> HostNow + c.delay,
                   until |-> IF c.length = None THEN None ELSE HostNow + c.delay + c.length,
                   supersedes |-> id]
             asked == [op |-> "add", tenant |-> t, token |-> token, query |-> None, draft |-> d]
  <2>2. t \in Tenant /\ token \in Tenant
    BY DEF Issued
  <2>3. id \in MemoryId \cup {None}
    <3>1. ASSUME id \in KnownMemories PROVE id \in MemoryId
      <4>1. PICK u \in Tenant : \E i \in DOMAIN memories[u] : id = <<u, i>>
        BY <3>1 DEF KnownMemories, Issued
      <4>2. PICK i \in DOMAIN memories[u] : id = <<u, i>>
        BY <4>1
      <4>3. memories[u] \in Seq(Memory)
        BY DEF TypeInv, TypeOK, StoreTypeOK
      <4>4. i \in Nat \ {0}
        BY <4>3, LenProperties
      <4> QED
        BY <4>2, <4>4 DEF MemoryId
    <3> QED
      BY <3>1
  <2>4. c \in ClientDrafts
    BY ServiceAssumption
  <2>5. c.effect \in Effect /\ c.topic \in Topic /\ c.delay \in Int /\ c.length \in (Nat \ {0}) \cup {None}
    BY <2>4 DEF ClientDrafts
  <2>6. d \in MemoryCreate
    BY <1>1, <2>3, <2>5 DEF MemoryCreate, Time
  <2> HIDE DEF d
  <2>7. asked \in Call /\ asked.draft = d /\ asked.op = "add"
    BY <2>2, <2>6 DEF Call, Operation, Token
  <2>8. Arrive(r, asked, "authorize")
    BY <2>1 DEF d
  <2> HIDE DEF asked
  <2> QED
    BY <2>6, <2>7, <2>8, ArriveType
<1>4. CASE ReceiveState(r)
  <2>1. PICK t \in Issued, token \in Issued :
          Arrive(r, [op |-> "state", tenant |-> t, token |-> token,
                     query |-> None, draft |-> None], "authorize")
    BY <1>4 DEF ReceiveState
  <2> DEFINE asked == [op |-> "state", tenant |-> t, token |-> token,
                       query |-> None, draft |-> None]
  <2>2. asked \in Call /\ asked.op = "state"
    BY DEF Call, Operation, Token, Issued
  <2>3. Arrive(r, asked, "authorize")
    BY <2>1
  <2> HIDE DEF asked
  <2> QED
    BY <2>2, <2>3, ArriveType
<1>5. CASE ReceiveEvaluate(r)
  <2>1. PICK t \in Issued, token \in Issued, q \in Query :
          Arrive(r, [op |-> "evaluate", tenant |-> t, token |-> token,
                     query |-> q, draft |-> None], "authorize")
    BY <1>5 DEF ReceiveEvaluate
  <2> DEFINE asked == [op |-> "evaluate", tenant |-> t, token |-> token,
                       query |-> q, draft |-> None]
  <2>2. asked \in Call /\ asked.op = "evaluate" /\ asked.query \in Query
    BY DEF Call, Operation, Token, Issued
  <2>3. Arrive(r, asked, "authorize")
    BY <2>1
  <2> HIDE DEF asked
  <2> QED
    BY <2>2, <2>3, ArriveType
<1> QED
  BY <1>2, <1>3, <1>4, <1>5 DEF Receive

\* create_demo_session
LEMMA CreateStepsType ==
    ASSUME TypeInv, NEW r \in Request,
           OpenSession(r) \/ OpenRefused(r) \/ RecordPermission(r) \/ RecordAudience(r)
    PROVE  TypeInv'
<1>1. now \in Int /\ HostNow \in Int
  BY ServiceAssumption DEF TypeInv, TypeOK, StoreTypeOK, HostNow
<1>2. ArgumentsOK(r) /\ StoreTypeOK /\ TypeOK
  BY DEF TypeInv, TypeOK
<1>3. CASE OpenSession(r)
  <2> DEFINE c == call[r]
  <2>1. c \in Call /\ c.tenant \in Tenant /\ c.token \in Token
    BY <1>3, CallOf DEF OpenSession, Call
  <2>2. c.draft \in MemoryCreate /\ c.draft.until \in Time /\ c.draft.until # None
    BY <1>2, <1>3 DEF OpenSession, ArgumentsOK, MemoryCreate
  <2>3. StoreTypeOK'
    BY <1>2, <1>3, <2>1, <2>2, ServiceAssumption, CreateSessionType DEF OpenSession
  <2>4. CASE HostNow < c.draft.until
    <3> DEFINE d == InitialPermission(c.draft.until)
               asked == [c EXCEPT !.draft = d]
    <3>1. d \in MemoryCreate
      BY <1>1, <2>2, ServiceAssumption DEF InitialPermission, MemoryCreate, Effect, Time
    <3> HIDE DEF d
    <3>2. asked \in Call /\ asked.draft = d
      BY <2>1, <3>1 DEF Call
    <3>3. call' = [call EXCEPT ![r] = asked]
      BY <1>3, <2>4 DEF OpenSession, d
    <3> HIDE DEF asked
    <3>4. pc' = [pc EXCEPT ![r] = "grant"] /\ UNCHANGED <<tries, view, response, objects>>
      BY <1>3, <2>4 DEF OpenSession, Goto
    <3>5. TypeOK'
      BY <1>2, <2>3, <3>2, <3>3, <3>4 DEF TypeOK, Underway
    <3>6. asked # None
      BY <3>2, AbsentAssumption
    <3>7. ArgumentsOK(r)'
      BY <1>2, <3>1, <3>2, <3>3, <3>4, <3>6 DEF TypeOK, ArgumentsOK
    <3>8. \A s \in Request : ArgumentsOK(s)'
      BY <1>2, <3>3, <3>4, <3>7, OthersKeepArguments DEF TypeOK
    <3> QED
      BY <3>5, <3>8 DEF TypeInv
  <2>5. CASE ~ (HostNow < c.draft.until)
    <3>1. Fail(r) /\ UNCHANGED objects /\ pc[r] # "idle"
      BY <1>3, <2>5 DEF OpenSession
    <3> QED
      BY <2>3, <3>1, FailType DEF TypeInv, TypeOK
  <2> QED
    BY <2>4, <2>5
<1>4. CASE OpenRefused(r)
  <2>1. StoreTypeOK'
    BY <1>2, <1>4, RefuseSessionType DEF OpenRefused
  <2> QED
    BY <1>2, <1>4, <2>1, FailType DEF OpenRefused, TypeOK
<1>5. CASE RecordPermission(r) \/ RecordAudience(r)
  <2>1. call[r] \in Call /\ call[r].tenant \in Tenant /\ call[r].draft \in MemoryCreate
    BY <1>2, <1>5, CallOf DEF RecordPermission, RecordAudience, Call, ArgumentsOK
  <2>2. StoreTypeOK'
    BY <1>2, <1>5, <2>1, AddMemoryType DEF RecordPermission, RecordAudience
  <2>3. CASE RecordPermission(r)
    <3> DEFINE asked == [call[r] EXCEPT !.draft = AudienceFact]
    <3>1. AudienceFact \in MemoryCreate
      BY <1>1, ServiceAssumption DEF AudienceFact, MemoryCreate, Effect, Time
    <3>2. asked \in Call /\ asked.draft = AudienceFact
      BY <2>1, <3>1 DEF Call
    <3>3. call' = [call EXCEPT ![r] = asked]
      BY <2>3 DEF RecordPermission
    <3> HIDE DEF asked
    <3>4. pc' = [pc EXCEPT ![r] = "context"] /\ UNCHANGED <<tries, view, response, objects>>
      BY <2>3 DEF RecordPermission, Goto
    <3>5. TypeOK'
      BY <1>2, <2>2, <3>2, <3>3, <3>4 DEF TypeOK, Underway
    <3>6. asked # None
      BY <3>2, AbsentAssumption
    <3>7. ArgumentsOK(r)'
      BY <1>2, <3>1, <3>2, <3>3, <3>4, <3>6 DEF TypeOK, ArgumentsOK
    <3>8. \A s \in Request : ArgumentsOK(s)'
      BY <1>2, <3>3, <3>4, <3>7, OthersKeepArguments DEF TypeOK
    <3> QED
      BY <3>5, <3>8 DEF TypeInv
  <2>4. CASE RecordAudience(r)
    <3>1. pc' = [pc EXCEPT ![r] = "done"] /\ UNCHANGED <<call, tries, view, response, objects>>
      BY <2>4 DEF RecordAudience, Goto
    <3>2. TypeOK'
      BY <1>2, <2>2, <3>1 DEF TypeOK, Ended
    <3>3. ArgumentsOK(r)'
      BY <1>2, <2>4, <3>1 DEF RecordAudience, TypeOK, ArgumentsOK
    <3>4. \A s \in Request : ArgumentsOK(s)'
      BY <1>2, <3>1, <3>3, OthersKeepArguments DEF TypeOK
    <3> QED
      BY <3>2, <3>4 DEF TypeInv
  <2> QED
    BY <1>5, <2>3, <2>4
<1> QED
  BY <1>3, <1>4, <1>5

\* add_memory and get_state
LEMMA ClientStepsType ==
    ASSUME TypeInv, NEW r \in Request,
           \/ Authorize(r) \/ AuthorizeRefused(r)
           \/ Record(r) \/ RecordRefused(r) \/ RecordAnswerLost(r) \/ ListState(r)
    PROVE  TypeInv'
<1>1. ArgumentsOK(r) /\ StoreTypeOK /\ TypeOK
  BY DEF TypeInv, TypeOK
<1>2. pc[r] # "idle" /\ call[r] \in Call /\ call[r].tenant \in Tenant /\ call[r].token \in Token
  BY CallOf DEF Authorize, AuthorizeRefused, Record, RecordRefused, RecordAnswerLost,
       ListState, Call
<1>3. CASE Authorize(r)
  <2>1. StoreTypeOK'
    BY <1>1, <1>2, <1>3, AuthorizeSessionType DEF Authorize
  <2> DEFINE next == AfterAuthorize(call[r].op)
  <2>2. /\ next \in {"record", "list", "recall"}
        /\ next = "record" => call[r].draft \in MemoryCreate
        /\ next = "recall" => call[r].query \in Query
    BY <1>1, <1>3 DEF Authorize, ArgumentsOK, AfterAuthorize
  <2> HIDE DEF next
  <2>3. pc' = [pc EXCEPT ![r] = next] /\ UNCHANGED <<call, tries, view, response, objects>>
    BY <1>3 DEF Authorize, Goto, next
  <2>4. TypeOK'
    BY <1>1, <2>1, <2>2, <2>3 DEF TypeOK, Underway
  <2>5. tries[r] < MaxTries
    BY <1>1, <1>3 DEF Authorize, ArgumentsOK, MaxTries
  <2>6. ArgumentsOK(r)'
    BY <1>1, <1>2, <2>2, <2>3, <2>5 DEF TypeOK, ArgumentsOK
  <2>7. \A s \in Request : ArgumentsOK(s)'
    BY <1>1, <2>3, <2>6, OthersKeepArguments DEF TypeOK
  <2> QED
    BY <2>4, <2>7 DEF TypeInv
<1>4. CASE AuthorizeRefused(r) \/ RecordRefused(r)
  <2>1. StoreTypeOK' /\ Fail(r) /\ UNCHANGED objects
    BY <1>1, <1>4, StoreUnchangedType DEF AuthorizeRefused, RecordRefused
  <2> QED
    BY <1>1, <1>2, <2>1, FailType DEF TypeOK
<1>5. CASE Record(r)
  <2>1. call[r].draft \in MemoryCreate
    BY <1>1, <1>5 DEF Record, ArgumentsOK
  <2>2. StoreTypeOK'
    BY <1>1, <1>2, <1>5, <2>1, AddMemoryType DEF Record
  <2>3. pc' = [pc EXCEPT ![r] = "done"] /\ UNCHANGED <<call, tries, view, response, objects>>
    BY <1>5 DEF Record, Goto
  <2>4. TypeOK'
    BY <1>1, <2>2, <2>3 DEF TypeOK, Ended
  <2>5. ArgumentsOK(r)'
    BY <1>1, <1>2, <2>3 DEF TypeOK, ArgumentsOK
  <2>6. \A s \in Request : ArgumentsOK(s)'
    BY <1>1, <2>3, <2>5, OthersKeepArguments DEF TypeOK
  <2> QED
    BY <2>4, <2>6 DEF TypeInv
<1>6. CASE ListState(r)
  <2>1. StoreTypeOK'
    BY <1>1, <1>6, StoreUnchangedType DEF ListState
  <2>2. pc' = [pc EXCEPT ![r] = "done"] /\ UNCHANGED <<call, tries, view, response, objects>>
    BY <1>6 DEF ListState, Goto
  <2>3. TypeOK'
    BY <1>1, <2>1, <2>2 DEF TypeOK, Ended
  <2>4. ArgumentsOK(r)'
    BY <1>1, <1>2, <2>2 DEF TypeOK, ArgumentsOK
  <2>5. \A s \in Request : ArgumentsOK(s)'
    BY <1>1, <2>2, <2>4, OthersKeepArguments DEF TypeOK
  <2> QED
    BY <2>3, <2>5 DEF TypeInv
<1>7. CASE RecordAnswerLost(r)
  <2>1. call[r].draft \in MemoryCreate
    BY <1>1, <1>7 DEF RecordAnswerLost, ArgumentsOK
  <2>2. StoreTypeOK' /\ Fail(r) /\ UNCHANGED objects
    BY <1>1, <1>2, <1>7, <2>1, AddMemoryType DEF RecordAnswerLost
  <2> QED
    BY <1>1, <1>2, <2>2, FailType DEF TypeOK
<1> QED
  BY <1>3, <1>4, <1>5, <1>6, <1>7

\* evaluate_action
LEMMA EvaluateStepsType ==
    ASSUME TypeInv, NEW r \in Request,
           \/ Recall(r) \/ RecallRefused(r)
           \/ Save(r) \/ SaveRefused(r) \/ GiveUp(r)
           \/ PutObject(r) \/ PutAnswerLost(r) \/ NoArchive(r)
           \/ Attach(r) \/ AttachAnswerLost(r)
    PROVE  TypeInv'
<1>1. ArgumentsOK(r) /\ StoreTypeOK /\ TypeOK
  BY DEF TypeInv, TypeOK
<1>2. pc[r] # "idle" /\ call[r] # None /\ call[r] \in Call /\ call[r].tenant \in Tenant
  BY CallOf, AbsentAssumption
     DEF Recall, RecallRefused, Save, SaveRefused, GiveUp, Refused, PutObject,
          PutAnswerLost,
         NoArchive, Attach, AttachAnswerLost, Call
<1>3. CASE Recall(r)
  <2> DEFINE found == RecallActive(call[r].tenant, call[r].query)
  <2>1. call[r].query \in Query /\ tries[r] < MaxTries
    BY <1>1, <1>3 DEF Recall, ArgumentsOK
  <2>2. found \in View
    <3>1. Exists(call[r].tenant)
      BY <1>3 DEF Recall
    <3>2. found = [evidence |-> found.evidence, decision |-> found.decision,
                   version |-> found.version, before |-> found.before, at |-> found.at]
      BY DEF RecallActive
    <3> QED
      BY <1>1, <1>2, <2>1, <3>1, <3>2, RecallActiveType DEF View
  <2> HIDE DEF found
  <2>3. found # None
    BY <2>2, AbsentAssumption
  <2>4. StoreTypeOK'
    BY <1>1, <1>3, StoreUnchangedType DEF Recall
  <2>5. /\ view' = [view EXCEPT ![r] = found]
        /\ pc' = [pc EXCEPT ![r] = "save"]
        /\ UNCHANGED <<call, tries, response, objects>>
    BY <1>3 DEF Recall, Goto, found
  <2>6. TypeOK'
    BY <1>1, <2>2, <2>4, <2>5 DEF TypeOK, Underway
  <2>7. ArgumentsOK(r)'
    BY <1>1, <1>2, <2>1, <2>3, <2>5 DEF TypeOK, ArgumentsOK
  <2>8. \A s \in Request : ArgumentsOK(s)'
    BY <1>1, <2>5, <2>7, OthersKeepArguments DEF TypeOK
  <2> QED
    BY <2>6, <2>8 DEF TypeInv
<1>4. CASE RecallRefused(r) \/ GiveUp(r)
  <2>1. StoreTypeOK' /\ Fail(r) /\ UNCHANGED objects
    BY <1>1, <1>4, StoreUnchangedType DEF RecallRefused, GiveUp
  <2> QED
    BY <1>1, <1>2, <2>1, FailType DEF TypeOK
<1>5. CASE Save(r)
  <2> DEFINE made == BuildReceipt(r)
  <2>1. made \in ActionReceipt
    <3>1. view[r] \in View
      BY <1>1, <1>5 DEF Save, ArgumentsOK, TypeOK
    <3>2. call[r].query \in Query /\ tries[r] + 1 \in 1 .. MaxTries
      BY <1>1, <1>5 DEF Save, ArgumentsOK, TypeOK, MaxTries
    <3>3. <<r, tries[r] + 1>> \in ReceiptId
      BY <3>2, ServiceAssumption
    <3> QED
      BY <1>2, <3>1, <3>2, <3>3 DEF BuildReceipt, ActionReceipt, View
  <2> HIDE DEF made
  <2>2. made # None
    BY <2>1, AbsentAssumption
  <2>3. StoreTypeOK'
    BY <1>1, <1>5, <2>1, SaveReceiptType DEF Save, made
  <2>4. /\ response' = [response EXCEPT ![r] = made]
        /\ view' = [view EXCEPT ![r] = None]
        /\ pc' = [pc EXCEPT ![r] = "put"]
        /\ UNCHANGED <<call, tries, objects>>
    BY <1>5 DEF Save, Goto, made
  <2>5. TypeOK'
    BY <1>1, <2>1, <2>3, <2>4 DEF TypeOK, Underway
  <2>6. ArgumentsOK(r)'
    BY <1>1, <1>2, <2>2, <2>4 DEF TypeOK, ArgumentsOK
  <2>7. \A s \in Request : ArgumentsOK(s)'
    BY <1>1, <2>4, <2>6, OthersKeepArguments DEF TypeOK
  <2> QED
    BY <2>5, <2>7 DEF TypeInv
<1>6. CASE SaveRefused(r)
  <2>1. StoreTypeOK'
    BY <1>1, <1>6, StoreUnchangedType DEF SaveRefused
  <2>2. call[r].query \in Query /\ tries[r] + 1 \in 0 .. MaxTries /\ tries[r] + 1 < MaxTries
    BY <1>1, <1>6 DEF SaveRefused, Refused, ArgumentsOK, TypeOK, MaxTries
  <2>3. /\ tries' = [tries EXCEPT ![r] = tries[r] + 1]
        /\ view' = [view EXCEPT ![r] = None]
        /\ pc' = [pc EXCEPT ![r] = "recall"]
        /\ UNCHANGED <<call, response, objects>>
    BY <1>6 DEF SaveRefused, Goto
  <2>4. TypeOK'
    BY <1>1, <2>1, <2>2, <2>3 DEF TypeOK, Underway
  <2>5. ArgumentsOK(r)'
    BY <1>1, <1>2, <2>2, <2>3 DEF TypeOK, ArgumentsOK
  <2>6. \A s \in Request : ArgumentsOK(s)'
    BY <1>1, <2>3, <2>5, OthersKeepArguments DEF TypeOK
  <2> QED
    BY <2>4, <2>6 DEF TypeInv
<1>7. ASSUME \/ PutObject(r) \/ PutAnswerLost(r) \/ NoArchive(r)
             \/ Attach(r) \/ AttachAnswerLost(r)
      PROVE  response[r] \in ActionReceipt /\ Canonical(response[r]) \in ActionReceipt
  <2>1. response[r] \in ActionReceipt
    BY <1>1, <1>7 DEF PutObject, PutAnswerLost, RecordAnswerLost, NoArchive, Attach,
         AttachAnswerLost, ArgumentsOK, TypeOK
  <2> QED
    BY <2>1 DEF Canonical, ActionReceipt
<1>8. CASE PutObject(r) \/ NoArchive(r)
  <2> PICK label \in {"attach", "done"} : pc' = [pc EXCEPT ![r] = label]
    BY <1>8 DEF PutObject, NoArchive, Goto
  <2>1. StoreTypeOK'
    BY <1>1, <1>8, StoreUnchangedType DEF PutObject, NoArchive
  <2>2. UNCHANGED <<call, tries, view, response>> /\ objects' \in SUBSET ActionReceipt
    BY <1>1, <1>7, <1>8 DEF PutObject, NoArchive, TypeOK
  <2>3. TypeOK'
    BY <1>1, <2>1, <2>2 DEF TypeOK, Underway, Ended
  <2>4. response[r] # None
    BY <1>7, <1>8, AbsentAssumption
  <2>5. ArgumentsOK(r)'
    BY <1>1, <1>2, <2>2, <2>4 DEF TypeOK, ArgumentsOK
  <2>6. \A s \in Request : ArgumentsOK(s)'
    BY <1>1, <2>2, <2>5, OthersKeepArguments DEF TypeOK
  <2> QED
    BY <2>3, <2>6 DEF TypeInv
<1>9. CASE PutAnswerLost(r)
  <2>1. StoreTypeOK' /\ objects' \in SUBSET ActionReceipt
    BY <1>1, <1>7, <1>9, StoreUnchangedType DEF PutAnswerLost, TypeOK
  <2> QED
    BY <1>2, <1>9, <2>1, FailType DEF PutAnswerLost
<1>10. CASE Attach(r)
  <2>1. StoreTypeOK'
    BY <1>1, <1>10, AttachReceiptArchiveType DEF Attach
  <2> DEFINE answered == [response[r] EXCEPT !.archived = TRUE]
  <2>2. answered \in ActionReceipt
    BY <1>7, <1>10 DEF ActionReceipt
  <2>3. /\ response' = [response EXCEPT ![r] = answered]
        /\ pc' = [pc EXCEPT ![r] = "done"]
        /\ UNCHANGED <<call, tries, view, objects>>
    BY <1>10 DEF Attach, Goto
  <2> HIDE DEF answered
  <2>4. TypeOK'
    BY <1>1, <2>1, <2>2, <2>3 DEF TypeOK, Ended
  <2>5. ArgumentsOK(r)'
    BY <1>1, <1>2, <2>3 DEF TypeOK, ArgumentsOK
  <2>6. \A s \in Request : ArgumentsOK(s)'
    BY <1>1, <2>3, <2>5, OthersKeepArguments DEF TypeOK
  <2> QED
    BY <2>4, <2>6 DEF TypeInv
<1>11. CASE AttachAnswerLost(r)
  <2>1. StoreTypeOK' /\ objects' \in SUBSET ActionReceipt
    BY <1>1, <1>11, AttachReceiptArchiveType DEF AttachAnswerLost, TypeOK
  <2> QED
    BY <1>2, <1>11, <2>1, FailType DEF AttachAnswerLost
<1> QED
  BY <1>3, <1>4, <1>5, <1>6, <1>8, <1>9, <1>10, <1>11

\* Failures, the clock and row expiry.
LEMMA OutsideStepsType ==
    ASSUME TypeInv
    PROVE  /\ \A r \in Request : Abort(r) => TypeInv'
           /\ Environment => TypeInv'
           /\ UNCHANGED vars => TypeInv'
<1>1. ASSUME NEW r \in Request, Abort(r) PROVE TypeInv'
  <2>1. StoreTypeOK' /\ Fail(r) /\ UNCHANGED objects /\ pc[r] # "idle"
    BY <1>1, StoreUnchangedType DEF Abort, Underway, TypeInv, TypeOK
  <2> QED
    BY <2>1, FailType DEF TypeInv, TypeOK
<1>2. ASSUME UNCHANGED serviceVars, StoreTypeOK' PROVE TypeInv'
  <2>1. TypeOK'
    BY <1>2 DEF TypeInv, TypeOK, serviceVars
  <2>2. \A r \in Request : ArgumentsOK(r)'
    BY <1>2 DEF TypeInv, ArgumentsOK, serviceVars
  <2> QED
    BY <2>1, <2>2 DEF TypeInv
<1>3. ASSUME Environment PROVE TypeInv'
  BY <1>2, <1>3, TickType, ReapType DEF Environment, TypeInv, TypeOK
<1>4. ASSUME UNCHANGED vars PROVE TypeInv'
  BY <1>2, <1>4, StoreUnchangedType DEF vars, storeVars, serviceVars, TypeInv, TypeOK
<1> QED
  BY <1>1, <1>3, <1>4

LEMMA InitType == Init => TypeInv
<1> SUFFICES ASSUME Init PROVE TypeInv
  OBVIOUS
<1>1. <<>> \in Seq(Memory) /\ <<>> \in Seq(ActionReceipt)
  BY EmptySeq
<1>2. StoreTypeOK
  BY <1>1, StoreAssumption DEF Init, StoreInit, StoreTypeOK
<1>3. TypeOK
  BY <1>2 DEF Init, TypeOK, MaxTries
<1>4. \A r \in Request : ArgumentsOK(r)
  BY DEF Init, ArgumentsOK
<1> QED
  BY <1>3, <1>4 DEF TypeInv

LEMMA NextType == TypeInv /\ [Next]_vars => TypeInv'
<1> SUFFICES ASSUME TypeInv, [Next]_vars PROVE TypeInv'
  OBVIOUS
<1>1. ASSUME NEW r \in Request, Step(r) PROVE TypeInv'
  BY <1>1, CreateStepsType, ClientStepsType, EvaluateStepsType DEF Step
<1>2. CASE Rest
  BY <1>2, OutsideStepsType DEF Rest
<1> QED
  BY <1>1, <1>2, ReceiveType, OutsideStepsType DEF Next

\* Every request, at every step, works on values of the right types: no budget
\* below zero, no position outside the ledger, no call without its arguments.
THEOREM TypeCorrect == Spec => []TypeOK
<1>1. Spec => []TypeInv
  BY InitType, NextType, PTL DEF Spec
<1>2. TypeInv => TypeOK
  BY DEF TypeInv
<1> QED
  BY <1>1, <1>2, PTL

-----------------------------------------------------------------------------
(* Fresh tenants *)

\* Only an arriving request changes who was asked about what.
CallsKept ==
    \A s \in Request :
        /\ call'[s] # None <=> call[s] # None
        /\ call[s] # None => /\ call'[s].tenant = call[s].tenant
                             /\ call'[s].token = call[s].token
                             /\ call'[s].op = call[s].op
                             /\ call'[s].query = call[s].query
        /\ pc'[s] = "open" => pc[s] = "open"

LEMMA StepKeepsCalls ==
    ASSUME TypeInv, NEW r \in Request, Step(r) \/ Abort(r)
    PROVE  CallsKept
<1>1. TypeOK
  BY DEF TypeInv
<1>2. CASE OpenSession(r) \/ RecordPermission(r)
  <2>1. call[r] \in Call
    BY <1>2, CallOf DEF OpenSession, RecordPermission
  <2>2. \/ call' = call
        \/ \E d : call' = [call EXCEPT ![r].draft = d]
    BY <1>2 DEF OpenSession, RecordPermission, Fail
  <2>3. \E label \in {"grant", "context", "failed"} : pc' = [pc EXCEPT ![r] = label]
    BY <1>2 DEF OpenSession, RecordPermission, Fail, Goto
  <2>4. CASE call' = call
    BY <1>1, <2>3, <2>4 DEF CallsKept, TypeOK
  <2>5. ASSUME NEW d, call' = [call EXCEPT ![r].draft = d] PROVE CallsKept
    <3> DEFINE asked == [call[r] EXCEPT !.draft = d]
    <3>1. /\ asked.tenant = call[r].tenant /\ asked.token = call[r].token
          /\ asked.op = call[r].op
          /\ asked.query = call[r].query
      BY <2>1 DEF Call
    <3>2. asked # None
      <4>1. TypeInv'
        BY <1>2, CreateStepsType
      <4>2. pc'[r] # "idle"
        BY <1>1, <2>3 DEF TypeOK
      <4>3. call'[r] # None
        BY <4>1, <4>2 DEF TypeInv, ArgumentsOK
      <4> QED
        BY <1>1, <2>5, <4>3 DEF TypeOK
    <3>3. call' = [call EXCEPT ![r] = asked]
      BY <2>5
    <3>4. call[r] # None
      BY <2>1, AbsentAssumption
    <3> HIDE DEF asked
    <3> QED
      BY <1>1, <2>3, <3>1, <3>2, <3>3, <3>4 DEF CallsKept, TypeOK
  <2> QED
    BY <2>2, <2>4, <2>5
<1>3. CASE ~ (OpenSession(r) \/ RecordPermission(r))
  <2>1. call' = call
    BY <1>3 DEF Step, Abort, OpenRefused, RecordAudience, Authorize, AuthorizeRefused,
         Record,
                RecordRefused, ListState, Recall, RecallRefused, Save, SaveRefused, GiveUp,
                PutObject, PutAnswerLost, RecordAnswerLost, NoArchive, Attach,
                AttachAnswerLost, Fail
  <2>2. \/ Authorize(r)
        \/ \E label \in {"failed", "done", "save", "put", "recall", "attach"} :
              pc' = [pc EXCEPT ![r] = label]
    BY <1>3 DEF Step, Abort, OpenRefused, RecordAudience, AuthorizeRefused, Record,
                RecordRefused, ListState, Recall, RecallRefused, Save, SaveRefused, GiveUp,
                PutObject, PutAnswerLost, RecordAnswerLost, NoArchive, Attach,
                AttachAnswerLost, Fail, Goto
  <2>3. CASE Authorize(r)
    <3>1. AfterAuthorize(call[r].op) # "open"
      BY <2>3 DEF TypeInv, ArgumentsOK, Authorize, AfterAuthorize
    <3> QED
      BY <1>1, <2>1, <2>3, <3>1 DEF CallsKept, TypeOK, Authorize, Goto
  <2> QED
    BY <1>1, <2>1, <2>2, <2>3 DEF CallsKept, TypeOK
<1> QED
  BY <1>2, <1>3

LEMMA InitFresh == Init => TenantsFresh
BY DEF Init, TenantsFresh

LEMMA NextFresh ==
    ASSUME TypeInv, TenantsFresh, [Next]_vars
    PROVE  TenantsFresh'
<1>1. ASSUME CallsKept PROVE TenantsFresh'
  <2>1. ASSUME NEW r \in Request, NEW s \in Request,
               pc'[r] = "open", s # r, call'[s] # None
        PROVE  call'[s].tenant # call'[r].tenant
    <3>1. pc[r] = "open" /\ call[s] # None
      BY <1>1, <2>1 DEF CallsKept
    <3>2. call[r] # None
      BY <3>1, CallOf, AbsentAssumption
    <3> QED
      BY <1>1, <2>1, <3>1, <3>2 DEF CallsKept, TenantsFresh
  <2>2. ASSUME NEW s \in Request, call'[s] # None
        PROVE  \E c \in Request : /\ call'[c] # None
                                  /\ call'[c].op = "create"
                                  /\ call'[c].tenant = call'[s].tenant
    BY <1>1, <2>2 DEF CallsKept, TenantsFresh
  <2> QED
    BY <2>1, <2>2 DEF TenantsFresh
<1>2. ASSUME UNCHANGED serviceVars PROVE TenantsFresh'
  BY <1>2 DEF TenantsFresh, serviceVars
<1>3. ASSUME NEW r \in Request, Receive(r) PROVE TenantsFresh'
  <2> DEFINE asked == call'[r]
             label == pc'[r]
  <2>1. /\ label \in {"open", "authorize"}
        /\ pc' = [pc EXCEPT ![r] = label]
        /\ call' = [call EXCEPT ![r] = asked]
        /\ \/ label = "open" /\ asked.op = "create" /\ Fresh(asked.tenant)
           \/ label = "authorize" /\ asked.tenant \in Issued
    <3>1. CASE ReceiveCreate(r)
      <4>1. PICK t \in Tenant :
              /\ Fresh(t)
              /\ Arrive(r, [op |-> "create", tenant |-> t, token |-> t, query |-> None,
                            draft |-> InitialPermission(HostNow + TTL)], "open")
        BY <3>1 DEF ReceiveCreate
      <4> QED
        BY <4>1 DEF Arrive, Goto, TypeInv, TypeOK
    <3>2. CASE ReceiveAdd(r)
      <4>1. PICK t \in Issued, token \in Issued : \E d :
              Arrive(r, [op |-> "add", tenant |-> t, token |-> token, query |-> None,
                         draft |-> d], "authorize")
        BY <3>2 DEF ReceiveAdd
      <4> QED
        BY <4>1 DEF Arrive, Goto, TypeInv, TypeOK
    <3>3. CASE ReceiveState(r)
      <4>1. PICK t \in Issued, token \in Issued :
              Arrive(r, [op |-> "state", tenant |-> t, token |-> token,
                         query |-> None, draft |-> None], "authorize")
        BY <3>3 DEF ReceiveState
      <4> QED
        BY <4>1 DEF Arrive, Goto, TypeInv, TypeOK
    <3>4. CASE ReceiveEvaluate(r)
      <4>1. PICK t \in Issued, token \in Issued, q \in Query :
              Arrive(r, [op |-> "evaluate", tenant |-> t, token |-> token,
                         query |-> q, draft |-> None], "authorize")
        BY <3>4 DEF ReceiveEvaluate
      <4> QED
        BY <4>1 DEF Arrive, Goto, TypeInv, TypeOK
    <3> QED
      BY <1>3, <3>1, <3>2, <3>3, <3>4 DEF Receive
  <2>2. /\ pc'[r] = label /\ call'[r] = asked /\ call'[r] # None
        /\ \A s \in Request : s # r => pc'[s] = pc[s] /\ call'[s] = call[s]
    <3>1. \A s \in Request : s # r => pc'[s] = pc[s] /\ call'[s] = call[s]
      BY <2>1 DEF TypeInv, TypeOK
    <3>2. call'[r] # None
      BY <1>3, <2>1, ReceiveType DEF TypeInv, ArgumentsOK
    <3> QED
      BY <3>1, <3>2
  <2> HIDE DEF asked, label
  <2>3. pc[r] = "idle" /\ call[r] = None
    BY <1>3 DEF Receive, ReceiveCreate, ReceiveAdd, ReceiveState, ReceiveEvaluate,
                Arrive, HasRoom, TypeInv, ArgumentsOK
  <2>4. CASE label = "open"
    <3>1. Fresh(asked.tenant) /\ asked.op = "create"
      BY <2>1, <2>4
    <3>2. \A s \in Request : call[s] # None => call[s].tenant # asked.tenant
      BY <3>1 DEF TenantsFresh, Fresh
    <3>3. \A s \in Request : pc[s] = "open" => call[s] # None
      BY DEF TypeInv, ArgumentsOK
    <3> QED
      BY <2>2, <2>3, <2>4, <3>1, <3>2, <3>3 DEF TenantsFresh
  <2>5. CASE label = "authorize"
    <3>1. PICK c \in Request :
            pc[c] = "done" /\ call[c].op = "create" /\ call[c].tenant = asked.tenant
      BY <2>1, <2>5 DEF Issued
    <3>2. call[c] # None /\ c # r
      BY <2>3, <3>1 DEF TypeInv, ArgumentsOK
    <3>3. \A s \in Request : pc[s] = "open" => call[s].tenant # asked.tenant
      BY <3>1, <3>2 DEF TenantsFresh
    <3> QED
      BY <2>2, <2>3, <2>5, <3>1, <3>2, <3>3 DEF TenantsFresh
  <2> QED
    BY <2>1, <2>4, <2>5
<1>4. CASE Environment \/ Rest \/ UNCHANGED vars
  BY <1>2, <1>4 DEF Environment, Rest, vars, serviceVars
<1> QED
  BY <1>1, <1>3, <1>4, StepKeepsCalls DEF Next

-----------------------------------------------------------------------------
(* Sound views *)

\* What a step may do to a tenant's ledger: leave it, forget it, or advance it.
Kept(t) ==
    /\ memories'[t] = memories[t]
    /\ sessions'[t] # None => Exists(t) /\ sessions'[t].version = sessions[t].version

Forgotten(t) == sessions'[t] = None

Advanced(t) == Exists(t) /\ sessions'[t].version = sessions[t].version + 1

Reopened(t) == \E r \in Request : pc[r] = "open" /\ call[r].tenant = t

LEMMA AddMemoryEffect ==
    ASSUME StoreTypeOK, NEW u \in Tenant, NEW d, AddMemory(u, d), NEW t \in Tenant
    PROVE  Kept(t) \/ Advanced(t)
<1>1. CASE t = u
  <2>1. Exists(u) /\ sessions[u] \in Session
    BY SessionIfExists DEF AddMemory, AddAccepted
  <2>2. sessions'[u] = [sessions[u] EXCEPT !.version = sessions[u].version + 1]
    BY DEF AddMemory, StoreTypeOK
  <2> QED
    BY <1>1, <2>1, <2>2 DEF Advanced, Session
<1>2. CASE t # u
  BY <1>2 DEF AddMemory, StoreTypeOK, Kept, Exists
<1> QED
  BY <1>1, <1>2

LEMMA AuthorizeEffect ==
    ASSUME StoreTypeOK, NEW u \in Tenant, NEW token, AuthorizeSession(u, token, TRUE),
           NEW t \in Tenant
    PROVE  Kept(t)
<1>1. sessions[u] \in Session /\ Exists(u)
  BY SessionIfExists DEF AuthorizeSession, Authorized
<1>2. sessions' = [sessions EXCEPT ![u] = [sessions[u] EXCEPT !.uses = sessions[u].uses - 1]]
  BY DEF AuthorizeSession
<1>3. [sessions[u] EXCEPT !.uses = sessions[u].uses - 1].version = sessions[u].version
  BY <1>1 DEF Session
<1> QED
  BY <1>1, <1>2, <1>3 DEF AuthorizeSession, StoreTypeOK, Kept, Exists

\* No step but a session's opening touches a ledger without advancing its version.
LEMMA LedgerEffect ==
    ASSUME TypeInv, [Next]_vars, NEW t \in Tenant
    PROVE  Kept(t) \/ Forgotten(t) \/ Advanced(t) \/ Reopened(t)
<1>1. StoreTypeOK
  BY DEF TypeInv, TypeOK
<1>2. ASSUME UNCHANGED <<sessions, memories>> PROVE Kept(t)
  BY <1>2 DEF Kept, Exists
<1>3. ASSUME NEW r \in Request, Receive(r) \/ Abort(r) PROVE Kept(t)
  BY <1>2, <1>3 DEF Receive, ReceiveCreate, ReceiveAdd, ReceiveState, ReceiveEvaluate,
                    Arrive, Abort, storeVars
<1>4. ASSUME NEW r \in Request, Step(r) PROVE Kept(t) \/ Advanced(t) \/ Reopened(t)
  <2>1. pc[r] # "idle" /\ call[r].tenant \in Tenant
    BY <1>4, CallOf DEF Step, OpenSession, OpenRefused, RecordPermission, RecordAudience,
         Authorize, AuthorizeRefused, Record, RecordRefused, ListState, Recall,
         RecallRefused,
         Save, SaveRefused, GiveUp, Refused, PutObject, PutAnswerLost, RecordAnswerLost,
         NoArchive, Attach, AttachAnswerLost, Call
  <2>2. CASE OpenSession(r)
    <3>1. t # call[r].tenant => Kept(t)
      BY <1>1, <2>2 DEF OpenSession, CreateSession, StoreTypeOK, Kept, Exists
    <3> QED
      BY <2>2, <3>1 DEF OpenSession, Reopened
  <2>3. CASE RecordPermission(r) \/ RecordAudience(r) \/ Record(r) \/ RecordAnswerLost(r)
    BY <1>1, <2>1, <2>3, AddMemoryEffect DEF RecordPermission, RecordAudience, Record,
         RecordAnswerLost
  <2>4. CASE Authorize(r)
    BY <1>1, <2>1, <2>4, AuthorizeEffect DEF Authorize
  <2>5. CASE OpenRefused(r) \/ Save(r) \/ Attach(r) \/ AttachAnswerLost(r)
    BY <1>2, <2>5 DEF OpenRefused, RefuseSession, Save, SaveReceipt, Attach,
         AttachAnswerLost,
         AttachReceiptArchive
  <2>6. CASE \/ AuthorizeRefused(r) \/ RecordRefused(r) \/ ListState(r) \/ Recall(r)
             \/ RecallRefused(r) \/ SaveRefused(r) \/ GiveUp(r) \/ PutObject(r)
             \/ PutAnswerLost(r) \/ NoArchive(r)
    BY <1>2, <2>6 DEF AuthorizeRefused, RecordRefused, ListState, Recall, RecallRefused,
                      SaveRefused, GiveUp, PutObject, PutAnswerLost, NoArchive, storeVars
  <2> QED
    BY <1>4, <2>2, <2>3, <2>4, <2>5, <2>6 DEF Step
<1>5. ASSUME NEW u \in Tenant, Reap(u) PROVE Kept(t) \/ Forgotten(t)
  BY <1>1, <1>5 DEF Reap, StoreTypeOK, Kept, Forgotten, Exists
<1>6. ASSUME Tick PROVE Kept(t)
  BY <1>2, <1>6 DEF Tick
<1>7. CASE Rest \/ UNCHANGED vars
  BY <1>2, <1>7 DEF Rest, vars
<1> QED
  BY <1>3, <1>4, <1>5, <1>6, <1>7 DEF Next, Environment

LEMMA ClockOnlyAdvances ==
    ASSUME TypeInv, [Next]_vars
    PROVE  now \in Int /\ now' \in Int /\ now <= now'
<1>1. now \in Int
  BY DEF TypeInv, TypeOK, StoreTypeOK
<1>2. ASSUME NEW r \in Request, Receive(r) \/ Abort(r) PROVE now' = now
  BY <1>2 DEF Receive, ReceiveCreate, ReceiveAdd, ReceiveState, ReceiveEvaluate, Arrive,
              Abort, storeVars
<1>3. ASSUME NEW r \in Request, Step(r) PROVE now' = now
  <2>1. CASE \/ OpenSession(r) \/ OpenRefused(r) \/ RecordPermission(r) \/ RecordAudience(r)
             \/ Authorize(r) \/ Record(r) \/ RecordAnswerLost(r) \/ Save(r)
             \/ Attach(r) \/ AttachAnswerLost(r)
    BY <2>1 DEF OpenSession, OpenRefused, RecordPermission, RecordAudience, Authorize,
         Record,
         RecordAnswerLost, Save, Attach, AttachAnswerLost, CreateSession, RefuseSession,
         AuthorizeSession, AddMemory, SaveReceipt,
         AttachReceiptArchive
  <2>2. CASE \/ AuthorizeRefused(r) \/ RecordRefused(r) \/ ListState(r) \/ Recall(r)
             \/ RecallRefused(r) \/ SaveRefused(r) \/ GiveUp(r) \/ PutObject(r)
             \/ PutAnswerLost(r) \/ NoArchive(r)
    BY <2>2 DEF AuthorizeRefused, RecordRefused, ListState, Recall, RecallRefused,
         SaveRefused, GiveUp, PutObject, PutAnswerLost, NoArchive, storeVars
  <2> QED
    BY <1>3, <2>1, <2>2 DEF Step
<1>4. ASSUME Environment PROVE now' = now \/ now' = now + 1
  BY <1>4 DEF Environment, Tick, Reap
<1>5. CASE Rest \/ UNCHANGED vars
  BY <1>1, <1>5 DEF Rest, vars
<1> QED
  BY <1>1, <1>2, <1>3, <1>4, <1>5 DEF Next

\* A view to be saved was just retrieved, or was there before with the same request.
LEMMA ViewOrigin ==
    ASSUME TypeInv, [Next]_vars, NEW s \in Request, pc'[s] = "save"
    PROVE  \/ Recall(s)
           \/ pc[s] = "save" /\ view'[s] = view[s] /\ call'[s] = call[s]
<1>1. TypeOK
  BY DEF TypeInv
<1>2. ASSUME NEW r \in Request, Receive(r) PROVE pc[s] = "save" /\ view'[s] = view[s] /\ call'[s] = call[s]
  <2>1. PICK label \in {"open", "authorize"} : pc' = [pc EXCEPT ![r] = label]
    BY <1>2 DEF Receive, ReceiveCreate, ReceiveAdd, ReceiveState, ReceiveEvaluate, Arrive,
         Goto
  <2>2. s # r
    BY <1>1, <2>1 DEF TypeOK
  <2>3. call'[s] = call[s] /\ view'[s] = view[s]
    BY <1>1, <1>2, <2>2
       DEF TypeOK, Receive, ReceiveCreate, ReceiveAdd, ReceiveState, ReceiveEvaluate, Arrive
  <2> QED
    BY <1>1, <2>1, <2>2, <2>3 DEF TypeOK
<1>3. ASSUME NEW r \in Request, Step(r) \/ Abort(r), ~ Recall(r)
      PROVE  pc[s] = "save" /\ view'[s] = view[s] /\ call'[s] = call[s]
  <2>1. pc'[r] # "save"
    <3>1. CASE Authorize(r)
      <4>1. AfterAuthorize(call[r].op) # "save"
        BY <3>1 DEF TypeInv, ArgumentsOK, Authorize, AfterAuthorize
      <4> QED
        BY <1>1, <3>1, <4>1 DEF TypeOK, Authorize, Goto
    <3>2. CASE ~ Authorize(r)
      BY <1>1, <1>3, <3>2 DEF TypeOK, Step, Abort, OpenSession, OpenRefused,
           RecordPermission,
           RecordAudience, AuthorizeRefused, Record, RecordRefused, ListState,
           RecallRefused,
           Save, SaveRefused, GiveUp, PutObject, PutAnswerLost, RecordAnswerLost,
           NoArchive, Attach, AttachAnswerLost, Fail, Goto
    <3> QED
      BY <3>1, <3>2
  <2>2. s # r
    BY <2>1
  <2>3. pc'[s] = pc[s]
    BY <1>1, <1>3, <2>2 DEF TypeOK, Step, Abort, OpenSession, OpenRefused, RecordPermission,
         RecordAudience, Authorize, AuthorizeRefused, Record, RecordRefused, ListState,
         RecallRefused, Save, SaveRefused, GiveUp, PutObject, PutAnswerLost,
         RecordAnswerLost, NoArchive,
         Attach, AttachAnswerLost, Fail, Goto
  <2>4. view'[s] = view[s] /\ call'[s] = call[s]
    BY <1>1, <1>3, <2>2 DEF TypeOK, Step, Abort, OpenSession, OpenRefused, RecordPermission,
         RecordAudience, Authorize, AuthorizeRefused, Record, RecordRefused, ListState,
         RecallRefused, Save, SaveRefused, GiveUp, PutObject, PutAnswerLost,
         RecordAnswerLost, NoArchive,
         Attach, AttachAnswerLost, Fail, Goto
  <2> QED
    BY <2>3, <2>4
<1>4. ASSUME NEW r \in Request, Recall(r), s # r
      PROVE  pc[s] = "save" /\ view'[s] = view[s] /\ call'[s] = call[s]
  BY <1>1, <1>4 DEF TypeOK, Recall, Goto
<1>5. CASE Environment \/ Rest \/ UNCHANGED vars
  BY <1>5 DEF Environment, Rest, vars, serviceVars
<1> QED
  BY <1>2, <1>3, <1>4, <1>5 DEF Next

LEMMA InitViews == Init => ViewsSound
BY DEF Init, ViewsSound

LEMMA NextViews ==
    ASSUME TypeInv, TenantsFresh, ViewsSound, [Next]_vars
    PROVE  ViewsSound'
<1> SUFFICES ASSUME NEW s \in Request, pc'[s] = "save", Exists(call[s].tenant)'
             PROVE  ViewSound(s)'
  BY DEF ViewsSound
<1>1. TypeInv'
  BY NextType
<1>2. CASE Recall(s)
  <2> DEFINE t == call[s].tenant
  <2>1. view'[s] = RecallActive(t, call[s].query)
    BY <1>2 DEF Recall, TypeInv, TypeOK
  <2>2. UNCHANGED <<now, sessions, memories, call>>
    BY <1>2 DEF Recall, storeVars
  <2>3. sessions[t].version \in Nat /\ now \in Int
    <3>1. t \in Tenant /\ Exists(t) /\ StoreTypeOK
      BY <1>2, CallOf DEF Recall, Call, TypeInv, TypeOK
    <3>2. sessions[t] \in Session
      BY <3>1, SessionIfExists
    <3> QED
      BY <3>1, <3>2 DEF Session, StoreTypeOK
  <2> QED
    BY <2>1, <2>2, <2>3 DEF ViewSound, RecallActive
<1>3. CASE pc[s] = "save" /\ view'[s] = view[s] /\ call'[s] = call[s]
  <2> DEFINE t == call[s].tenant
             v == view[s]
  <2>1. /\ t \in Tenant
        /\ v \in View
        /\ StoreTypeOK /\ StoreTypeOK'
        /\ call[s] # None
    BY <1>1, <1>3, CallOf, AbsentAssumption DEF Call, TypeInv, TypeOK, ArgumentsOK
  <2>2. v.at \in Int /\ v.version \in Nat
    BY <2>1 DEF View, Time
  <2>3. now \in Int /\ now' \in Int /\ now <= now'
    BY ClockOnlyAdvances
  <2>4. ~ Reopened(t)
    BY <1>3, <2>1 DEF Reopened, TenantsFresh
  <2>5. ~ Forgotten(t)
    BY <1>3 DEF Forgotten, Exists
  <2>6. CASE Kept(t)
    <3>1. Exists(t) /\ sessions'[t].version = sessions[t].version /\ memories'[t] = memories[t]
      BY <1>3, <2>6 DEF Kept, Exists
    <3>2. ViewSound(s)
      BY <1>3, <3>1 DEF ViewsSound
    <3>3. v.at <= now'
      BY <2>2, <2>3, <3>2 DEF ViewSound
    <3> QED
      BY <1>3, <3>1, <3>2, <3>3 DEF ViewSound
  <2>7. CASE Advanced(t)
    <3>1. sessions[t].version \in Nat
      BY <2>1, <2>7, SessionIfExists DEF Advanced, Session
    <3>2. ViewSound(s)
      BY <1>3, <2>7 DEF ViewsSound, Advanced
    <3>3. v.at <= now' /\ v.version < sessions'[t].version
      BY <2>2, <2>3, <2>7, <3>1, <3>2 DEF ViewSound, Advanced
    <3>4. v.version <= sessions'[t].version /\ v.version # sessions'[t].version
      BY <2>2, <2>7, <3>1, <3>3 DEF Advanced
    <3> QED
      BY <1>3, <3>3, <3>4 DEF ViewSound
  <2> QED
    BY <2>1, <2>4, <2>5, <2>6, <2>7, LedgerEffect
<1> QED
  BY <1>2, <1>3, ViewOrigin

-----------------------------------------------------------------------------
(* Commits *)

\* Between its retrieval and its guarded insert a request's view stays sound:
\* the inductive invariant of the service, for every instance.
THEOREM InvCorrect == Spec => []Inv
<1>1. Init => Inv
  BY InitType, InitFresh, InitViews DEF Inv, TypeInv
<1>2. Inv /\ [Next]_vars => Inv'
  BY NextType, NextFresh, NextViews DEF Inv, TypeInv
<1> QED
  BY <1>1, <1>2, PTL DEF Spec

\* Only the guarded insert adds a receipt.
LEMMA OnlySaveCommits ==
    ASSUME TypeInv, Next, NEW t \in Tenant, Commits(t)
    PROVE  \E r \in Request : Save(r)
<1>1. Len(receipts[t]) \in Nat /\ StoreTypeOK
  BY LenProperties DEF TypeInv, TypeOK, StoreTypeOK
<1>2. receipts'[t] # receipts[t] /\ receipts'[t] # <<>> /\ Len(receipts'[t]) # Len(receipts[t])
  BY <1>1, EmptySeq DEF Commits
<1>3. ASSUME NEW r \in Request, Receive(r) \/ Abort(r) PROVE FALSE
  BY <1>2, <1>3 DEF Receive, ReceiveCreate, ReceiveAdd, ReceiveState, ReceiveEvaluate,
       Arrive,
                    Abort, storeVars
<1>4. ASSUME NEW r \in Request, Step(r), ~ Save(r) PROVE FALSE
  <2>1. CASE \/ OpenRefused(r) \/ RecordPermission(r) \/ RecordAudience(r)
             \/ Authorize(r) \/ Record(r) \/ RecordAnswerLost(r)
    BY <1>2, <2>1 DEF OpenRefused, RecordPermission, RecordAudience, Authorize, Record,
         RecordAnswerLost, RefuseSession, AuthorizeSession, AddMemory
  <2>2. CASE \/ AuthorizeRefused(r) \/ RecordRefused(r) \/ ListState(r) \/ Recall(r)
             \/ RecallRefused(r) \/ SaveRefused(r) \/ GiveUp(r) \/ PutObject(r)
             \/ PutAnswerLost(r) \/ NoArchive(r)
    BY <1>2, <2>2 DEF AuthorizeRefused, RecordRefused, ListState, Recall, RecallRefused,
         SaveRefused, GiveUp, PutObject, PutAnswerLost, NoArchive, storeVars
  <2>3. CASE OpenSession(r)
    BY <1>1, <1>2, <2>3 DEF OpenSession, CreateSession, StoreTypeOK
  <2>4. CASE Attach(r) \/ AttachAnswerLost(r)
    BY <1>1, <1>2, <2>4, AttachReceiptArchiveType DEF Attach, AttachAnswerLost
  <2> QED
    BY <1>4, <2>1, <2>2, <2>3, <2>4 DEF Step
<1>5. ASSUME Environment PROVE FALSE
  BY <1>1, <1>2, <1>5 DEF Environment, Tick, Reap, StoreTypeOK
<1>6. ASSUME Rest PROVE FALSE
  BY <1>2, <1>6 DEF Rest, vars
<1> QED
  BY <1>3, <1>4, <1>5, <1>6 DEF Next

\* The receipt a guarded insert records is current at that moment.
LEMMA SaveIsCurrent ==
    ASSUME Inv, NEW r \in Request, Save(r), NEW t \in Tenant, Commits(t)
    PROVE  /\ Committed(t).evidence = Evidence(memories[t], Committed(t).query, now)
           /\ Committed(t).decision = Decide(memories[t], Committed(t).evidence)
<1> DEFINE u == call[r].tenant
           v == view[r]
           made == BuildReceipt(r)
<1>1. TypeInv /\ TypeOK /\ StoreTypeOK
  BY DEF Inv, TypeInv, TypeOK
<1>2. u \in Tenant /\ v \in View /\ call[r].query \in Query
  BY <1>1, CallOf DEF Save, Call, TypeInv, TypeOK, ArgumentsOK
<1>3. made.tenant = u /\ made.query = call[r].query
        /\ made.evidence = v.evidence /\ made.decision = v.decision
  BY DEF BuildReceipt
<1>4. SaveAccepted(u, v.version, v.before)
  BY <1>3 DEF Save, SaveReceipt
<1>5. receipts' = [receipts EXCEPT ![u] = Append(receipts[u], made)]
  BY <1>3 DEF Save, SaveReceipt
<1> HIDE DEF made
<1>6. t = u
  <2>1. CASE t # u
    <3>1. receipts'[t] = receipts[t]
      BY <1>1, <1>5, <2>1 DEF StoreTypeOK
    <3>2. Len(receipts[t]) \in Nat
      BY <1>1, LenProperties DEF StoreTypeOK
    <3> QED
      BY <3>1, <3>2 DEF Commits
  <2> QED
    BY <2>1
<1>7. Committed(t) = made
  <2>1. receipts[u] \in Seq(ActionReceipt)
    BY <1>1, <1>2 DEF StoreTypeOK
  <2>2. receipts'[t] = Append(receipts[u], made)
    BY <1>1, <1>2, <1>5, <1>6 DEF StoreTypeOK
  <2>3. made \in ActionReceipt
    <3>1. tries[r] + 1 \in 1 .. MaxTries
      BY <1>1 DEF Save, TypeInv, TypeOK, ArgumentsOK, MaxTries
    <3>2. <<r, tries[r] + 1>> \in ReceiptId
      BY <3>1, ServiceAssumption
    <3> QED
      BY <1>2, <3>2 DEF made, BuildReceipt, ActionReceipt, View
  <2> QED
    BY <2>1, <2>2, <2>3, AppendProperties DEF Committed
<1>8. ViewSound(r) /\ v.version = sessions[u].version
  BY <1>4 DEF Inv, ViewsSound, Save, SaveAccepted
<1>9. /\ v.evidence = Evidence(memories[u], call[r].query, v.at)
      /\ v.decision = Decide(memories[u], v.evidence)
      /\ v.before = NextTransition(memories[u], v.at)
      /\ v.at <= now
  BY <1>8 DEF ViewSound
<1>10. Evidence(memories[u], call[r].query, now) = Evidence(memories[u], call[r].query, v.at)
  <2>1. memories[u] \in Seq(Memory) /\ now \in Int /\ v.at \in Int
    BY <1>1, <1>2 DEF StoreTypeOK, View, Time
  <2>2. NextTransition(memories[u], v.at) # None => now < NextTransition(memories[u], v.at)
    BY <1>4, <1>9 DEF SaveAccepted
  <2> QED
    BY <1>9, <2>1, <2>2, StableUntilTransition
<1> QED
  BY <1>3, <1>6, <1>7, <1>9, <1>10

\* However retrievals, additions, replacements, expiries, failures and the clock
\* interleave, every receipt that evaluate_action records holds the evidence and
\* the decision that the ledger gives at the instant of the guarded insert.
THEOREM CommitsAreCurrent == Spec => CommitIsCurrent
<1>1. Inv /\ [Next]_vars => [CommittedAreCurrent]_vars
  <2> SUFFICES ASSUME Inv, Next PROVE CommittedAreCurrent
    OBVIOUS
  <2>1. TypeInv
    BY DEF Inv, TypeInv
  <2>2. ASSUME NEW t \in Tenant, Commits(t)
        PROVE  /\ Committed(t).evidence = Evidence(memories[t], Committed(t).query, now)
               /\ Committed(t).decision = Decide(memories[t], Committed(t).evidence)
    BY <2>1, <2>2, OnlySaveCommits, SaveIsCurrent
  <2> QED
    BY <2>2 DEF CommittedAreCurrent
<1> QED
  BY <1>1, InvCorrect, PTL DEF Spec, CommitIsCurrent

-----------------------------------------------------------------------------
(* What belongs to whom *)

\* A request that has saved its receipt, or will never save one.
Spent == {"put", "attach", "done", "failed"}

\* A request whose next call acts on its tenant without asking again.
Acting == Underway \ {"authorize"}

Author(t, i) == receipts[t][i].id[1]

ReceiptsOwned ==
    \A t \in Tenant :
        /\ \A i \in DOMAIN receipts[t] :
              /\ Author(t, i) \in Request
              /\ pc[Author(t, i)] \in Spent
              /\ call[Author(t, i)].tenant = t
        /\ \A i, j \in DOMAIN receipts[t] : Author(t, i) = Author(t, j) => i = j

ResponsesOwned ==
    \A r \in Request : pc[r] \in {"put", "attach"} => response[r].id[1] = r

TokensOwned ==
    /\ \A t \in Tenant : Exists(t) => sessions[t].token = t
    /\ \A r \in Request : pc[r] \in Acting => call[r].token = call[r].tenant

CreatorsCreate ==
    \A r \in Request : pc[r] \in {"open", "grant", "context"} => call[r].op = "create"

BudgetKept ==
    \A t \in Tenant :
        /\ IsFiniteSet(Admitted(t))
        /\ Exists(t) => Cardinality(Admitted(t)) + sessions[t].uses <= UseLimit

Owned ==
    /\ TypeInv
    /\ TenantsFresh
    /\ ReceiptsOwned
    /\ ResponsesOwned
    /\ TokensOwned
    /\ CreatorsCreate
    /\ BudgetKept

-----------------------------------------------------------------------------
(* What a step does to the requests *)

\* A request that arrives either opens a session of its own or asks to be
\* authorized; nobody else is touched.
LEMMA ArrivalEffect ==
    ASSUME TypeInv, NEW r \in Request, Receive(r)
    PROVE  /\ UNCHANGED <<storeVars, view, response>>
           /\ call[r] = None /\ pc[r] = "idle"
           /\ \A s \in Request : s # r => pc'[s] = pc[s] /\ call'[s] = call[s]
           /\ \/ pc'[r] = "open" /\ call'[r].op = "create" /\ call'[r].token = call'[r].tenant
              \/ pc'[r] = "authorize"
<1>1. /\ UNCHANGED <<storeVars, view, response>>
      /\ pc[r] = "idle"
      /\ \E asked, label : call' = [call EXCEPT ![r] = asked] /\ pc' = [pc EXCEPT ![r] = label]
  BY DEF Receive, ReceiveCreate, ReceiveAdd, ReceiveState, ReceiveEvaluate, Arrive,
       HasRoom, Goto
<1>2. call[r] = None
  BY <1>1 DEF TypeInv, ArgumentsOK
<1>3. \/ pc'[r] = "open" /\ call'[r].op = "create" /\ call'[r].token = call'[r].tenant
      \/ pc'[r] = "authorize"
  <2>1. CASE ReceiveCreate(r)
    BY <2>1 DEF ReceiveCreate, Arrive, Goto, TypeInv, TypeOK
  <2>2. CASE ReceiveAdd(r) \/ ReceiveState(r) \/ ReceiveEvaluate(r)
    BY <2>2 DEF ReceiveAdd, ReceiveState, ReceiveEvaluate, Arrive, Goto, TypeInv, TypeOK
  <2> QED
    BY <2>1, <2>2 DEF Receive
<1> QED
  BY <1>1, <1>2, <1>3 DEF TypeInv, TypeOK

\* What a request was asked does not change once it has been asked.
LEMMA CallsStay ==
    ASSUME TypeInv, [Next]_vars, NEW s \in Request, call[s] # None
    PROVE  /\ call'[s] # None
           /\ call'[s].tenant = call[s].tenant
           /\ call'[s].token = call[s].token
           /\ call'[s].op = call[s].op
<1>1. ASSUME NEW r \in Request, Receive(r) PROVE call'[s] = call[s]
  BY <1>1, ArrivalEffect
<1>2. ASSUME NEW r \in Request, Step(r) \/ Abort(r) PROVE CallsKept
  BY <1>2, StepKeepsCalls
<1>3. CASE Environment \/ Rest \/ UNCHANGED vars
  BY <1>3 DEF Environment, Rest, vars, serviceVars
<1> QED
  BY <1>1, <1>2, <1>3 DEF Next, CallsKept

\* Where a step, or an end by failure, takes a request.
Moves(r) ==
    /\ \A s \in Request : s # r => pc'[s] = pc[s]
    /\ pc[r] \in Underway
    /\ \/ pc'[r] = "failed"
       \/ pc[r] = "open" /\ pc'[r] = "grant"
       \/ pc[r] = "grant" /\ pc'[r] = "context"
       \/ pc[r] \in {"context", "record", "list", "put", "attach"} /\ pc'[r] = "done"
       \/ Authorize(r) /\ pc'[r] \in {"record", "list", "recall"}
       \/ pc[r] = "recall" /\ pc'[r] = "save"
       \/ pc[r] = "save" /\ pc'[r] = "recall"
       \/ Save(r) /\ pc'[r] = "put"
       \/ pc[r] = "put" /\ pc'[r] = "attach"

LEMMA StepMoves ==
    ASSUME TypeInv, NEW r \in Request, Step(r) \/ Abort(r)
    PROVE  Moves(r)
<1>1. pc \in [Request -> {"idle"} \cup Underway \cup Ended]
  BY DEF TypeInv, TypeOK
<1>2. CASE Authorize(r)
  <2>1. AfterAuthorize(call[r].op) \in {"record", "list", "recall"}
    BY <1>2 DEF TypeInv, ArgumentsOK, Authorize, AfterAuthorize
  <2> QED
    BY <1>1, <1>2, <2>1 DEF Authorize, Goto, Moves, Underway
<1>3. CASE OpenSession(r) \/ OpenRefused(r) \/ RecordPermission(r) \/ RecordAudience(r)
  BY <1>1, <1>3 DEF OpenSession, OpenRefused, RecordPermission, RecordAudience, Fail, Goto,
                    Moves, Underway
<1>4. CASE \/ AuthorizeRefused(r) \/ Record(r) \/ RecordRefused(r) \/ RecordAnswerLost(r)
           \/ ListState(r) \/ Abort(r)
  BY <1>1, <1>4 DEF AuthorizeRefused, Record, RecordRefused, RecordAnswerLost, ListState,
       Abort, Fail, Goto,
                    Moves, Underway
<1>5. CASE Recall(r) \/ RecallRefused(r) \/ Save(r) \/ SaveRefused(r) \/ GiveUp(r)
  BY <1>1, <1>5 DEF Recall, RecallRefused, Save, SaveRefused, GiveUp, Refused, Fail, Goto,
                    Moves, Underway
<1>6. CASE \/ PutObject(r) \/ PutAnswerLost(r) \/ NoArchive(r)
           \/ Attach(r) \/ AttachAnswerLost(r)
  BY <1>1, <1>6 DEF PutObject, PutAnswerLost, RecordAnswerLost, NoArchive, Attach,
       AttachAnswerLost, Fail, Goto, Moves, Underway
<1> QED
  BY <1>2, <1>3, <1>4, <1>5, <1>6 DEF Step

\* A step is a request's arrival, a request's move, or nobody's.
LEMMA WhoMoves ==
    ASSUME TypeInv, [Next]_vars
    PROVE  \/ \E r \in Request : Receive(r)
           \/ \E r \in Request : Moves(r) /\ (Step(r) \/ Abort(r))
           \/ UNCHANGED serviceVars /\ (Environment \/ UNCHANGED vars)
<1>1. CASE Rest \/ UNCHANGED vars
  BY <1>1 DEF Rest, vars, serviceVars
<1> QED
  BY <1>1, StepMoves DEF Next, Environment

LEMMA SpentStay ==
    ASSUME TypeInv, [Next]_vars, NEW s \in Request, pc[s] \in Spent
    PROVE  pc'[s] \in Spent
<1>1. ASSUME NEW r \in Request, Receive(r) PROVE pc'[s] \in Spent
  BY <1>1, ArrivalEffect DEF Spent
<1>2. ASSUME NEW r \in Request, Moves(r) PROVE pc'[s] \in Spent
  BY <1>2 DEF Moves, Spent, Authorize, Save, Underway
<1>3. CASE UNCHANGED serviceVars
  BY <1>3 DEF serviceVars
<1> QED
  BY <1>1, <1>2, <1>3, WhoMoves

-----------------------------------------------------------------------------
(* Operations *)

\* The operation a request was asked for, where its next call depends on it.
OperationsFit ==
    \A r \in Request :
        /\ pc[r] \in {"recall", "save"} => call[r].op = "evaluate"
        /\ pc[r] = "record" => call[r].op = "add"
        /\ pc[r] = "list" => call[r].op = "state"

LEMMA OperationsStayFit ==
    ASSUME TypeInv, OperationsFit, [Next]_vars
    PROVE  OperationsFit'
<1>1. \A s \in Request : pc[s] # "idle" => call[s] # None
  BY DEF TypeInv, ArgumentsOK
<1>2. \A s \in Request : pc[s] # "idle" => call'[s].op = call[s].op
  BY <1>1, CallsStay
<1>3. ASSUME NEW r \in Request, Receive(r) PROVE OperationsFit'
  BY <1>3, ArrivalEffect DEF OperationsFit
<1>4. ASSUME NEW r \in Request, Moves(r) PROVE OperationsFit'
  <2>1. Authorize(r) => /\ pc'[r] = "recall" => call[r].op = "evaluate"
                        /\ pc'[r] = "record" => call[r].op = "add"
                        /\ pc'[r] = "list" => call[r].op = "state"
    BY DEF Authorize, Goto, TypeInv, TypeOK, ArgumentsOK, AfterAuthorize
  <2>2. /\ pc'[r] \in {"recall", "save"} => call[r].op = "evaluate"
        /\ pc'[r] = "record" => call[r].op = "add"
        /\ pc'[r] = "list" => call[r].op = "state"
    BY <1>4, <2>1 DEF Moves, OperationsFit
  <2>3. pc[r] # "idle"
    BY <1>4 DEF Moves, Underway
  <2> QED
    BY <1>2, <1>4, <2>2, <2>3 DEF Moves, OperationsFit
<1>5. CASE UNCHANGED serviceVars
  BY <1>5 DEF OperationsFit, serviceVars
<1> QED
  BY <1>3, <1>4, <1>5, WhoMoves

-----------------------------------------------------------------------------
(* Receipts *)

\* A step leaves a tenant's receipts, or all but their archive keys, or forgets
\* them; or it is the save of a request that had saved nothing.
RowsEffect(t) ==
    \/ receipts'[t] = <<>>
    \/ /\ DOMAIN receipts'[t] = DOMAIN receipts[t]
       /\ \A i \in DOMAIN receipts[t] : receipts'[t][i].id = receipts[t][i].id
    \/ \E r \in Request :
        /\ Save(r)
        /\ call[r].tenant = t
        /\ receipts'[t] = Append(receipts[t], BuildReceipt(r))

LEMMA AttachKeepsIds ==
    ASSUME StoreTypeOK, NEW id, AttachReceiptArchive(id), NEW t \in Tenant
    PROVE  /\ DOMAIN receipts'[t] = DOMAIN receipts[t]
           /\ \A i \in DOMAIN receipts[t] : receipts'[t][i].id = receipts[t][i].id
<1>1. receipts'[t] = [i \in DOMAIN receipts[t] |->
            IF receipts[t][i].id = id THEN [receipts[t][i] EXCEPT !.archived = TRUE]
            ELSE receipts[t][i]]
  BY DEF AttachReceiptArchive
<1>2. ASSUME NEW i \in DOMAIN receipts[t]
      PROVE  receipts'[t][i].id = receipts[t][i].id
  <2>1. receipts[t] \in Seq(ActionReceipt)
    BY DEF StoreTypeOK
  <2>2. receipts[t][i] \in ActionReceipt
    BY <2>1, <1>2, ElementOfSeq, LenProperties
  <2> QED
    BY <1>1, <1>2, <2>2 DEF ActionReceipt
<1> QED
  BY <1>1, <1>2

LEMMA ReceiptsEffect ==
    ASSUME TypeInv, [Next]_vars, NEW t \in Tenant
    PROVE  RowsEffect(t)
<1>1. StoreTypeOK
  BY DEF TypeInv, TypeOK
<1>2. ASSUME receipts' = receipts PROVE RowsEffect(t)
  BY <1>2 DEF RowsEffect
<1>3. ASSUME NEW r \in Request, Receive(r) PROVE RowsEffect(t)
  BY <1>2, <1>3, ArrivalEffect DEF storeVars
<1>4. ASSUME NEW r \in Request, Step(r) \/ Abort(r) PROVE RowsEffect(t)
  <2>1. CASE OpenSession(r)
    BY <1>1, <2>1 DEF OpenSession, CreateSession, StoreTypeOK, RowsEffect
  <2>2. CASE Save(r)
    BY <1>1, <2>2 DEF Save, SaveReceipt, BuildReceipt, StoreTypeOK, RowsEffect
  <2>3. CASE Attach(r) \/ AttachAnswerLost(r)
    BY <1>1, <2>3, AttachKeepsIds DEF Attach, AttachAnswerLost, RowsEffect
  <2>4. CASE \/ OpenRefused(r) \/ RecordPermission(r) \/ RecordAudience(r)
             \/ Authorize(r) \/ Record(r) \/ RecordAnswerLost(r)
    BY <1>2, <2>4 DEF OpenRefused, RecordPermission, RecordAudience, Authorize, Record,
         RecordAnswerLost, RefuseSession, AuthorizeSession, AddMemory
  <2>5. CASE \/ AuthorizeRefused(r) \/ RecordRefused(r) \/ ListState(r) \/ Recall(r)
             \/ RecallRefused(r) \/ SaveRefused(r) \/ GiveUp(r) \/ PutObject(r)
             \/ PutAnswerLost(r) \/ NoArchive(r) \/ Abort(r)
    BY <1>2, <2>5 DEF AuthorizeRefused, RecordRefused, ListState, Recall, RecallRefused,
         SaveRefused, GiveUp, PutObject, PutAnswerLost, NoArchive, Abort, storeVars
  <2> QED
    BY <1>4, <2>1, <2>2, <2>3, <2>4, <2>5 DEF Step
<1>5. CASE Environment
  BY <1>1, <1>2, <1>5 DEF Environment, Tick, Reap, StoreTypeOK, RowsEffect
<1>6. CASE UNCHANGED vars
  BY <1>2, <1>6 DEF vars
<1> QED
  BY <1>3, <1>4, <1>5, <1>6, WhoMoves

LEMMA ReceiptsStayOwned ==
    ASSUME Owned, [Next]_vars
    PROVE  ReceiptsOwned'
<1>1. TypeInv /\ StoreTypeOK
  BY DEF Owned, TypeInv, TypeOK
<1>2. \A c \in Request : pc[c] \in Spent => pc'[c] \in Spent /\ call'[c].tenant = call[c].tenant
  <2>1. \A c \in Request : pc[c] \in Spent => call[c] # None
    BY <1>1 DEF TypeInv, ArgumentsOK, Spent
  <2> QED
    BY <1>1, <2>1, SpentStay, CallsStay
<1> DEFINE Fits(t) ==
        /\ \A i \in DOMAIN receipts'[t] :
              /\ receipts'[t][i].id[1] \in Request
              /\ pc'[receipts'[t][i].id[1]] \in Spent
              /\ call'[receipts'[t][i].id[1]].tenant = t
        /\ \A i, j \in DOMAIN receipts'[t] :
              receipts'[t][i].id[1] = receipts'[t][j].id[1] => i = j
<1>3. ASSUME NEW t \in Tenant PROVE Fits(t)
  <2>1. /\ \A i \in DOMAIN receipts[t] :
              /\ receipts[t][i].id[1] \in Request
              /\ pc[receipts[t][i].id[1]] \in Spent
              /\ call[receipts[t][i].id[1]].tenant = t
        /\ \A i, j \in DOMAIN receipts[t] :
              receipts[t][i].id[1] = receipts[t][j].id[1] => i = j
    BY DEF Owned, ReceiptsOwned, Author
  <2>2. CASE receipts'[t] = <<>>
    BY <2>2
  <2>3. CASE /\ DOMAIN receipts'[t] = DOMAIN receipts[t]
             /\ \A i \in DOMAIN receipts[t] : receipts'[t][i].id = receipts[t][i].id
    BY <1>2, <2>1, <2>3
  <2>4. ASSUME NEW r \in Request, Save(r), call[r].tenant = t,
               receipts'[t] = Append(receipts[t], BuildReceipt(r))
        PROVE  Fits(t)
    <3> DEFINE rows == receipts[t]
               n    == Len(rows)
    <3>1. n \in Nat /\ DOMAIN rows = 1 .. n
      BY <1>1, LenProperties DEF StoreTypeOK
    <3>2. /\ DOMAIN receipts'[t] = 1 .. (n + 1)
          /\ \A i \in 1 .. n : receipts'[t][i] = rows[i]
          /\ receipts'[t][n + 1].id[1] = r
      BY <1>1, <2>4, <3>1 DEF StoreTypeOK, BuildReceipt
    <3>3. pc[r] = "save" /\ pc'[r] = "put"
      BY <1>1, <2>4 DEF Save, Goto, TypeInv, TypeOK
    <3>4. call'[r] = call[r]
      BY <2>4 DEF Save
    <3>5. \A i \in 1 .. n : rows[i].id[1] # r
      BY <2>1, <3>1, <3>3 DEF Spent
    <3> HIDE DEF rows, n
    <3>6. \A i \in 1 .. n : /\ rows[i].id[1] \in Request
                            /\ pc[rows[i].id[1]] \in Spent
                            /\ call[rows[i].id[1]].tenant = t
      BY <2>1, <3>1 DEF rows
    <3>7. \A i, j \in 1 .. n : rows[i].id[1] = rows[j].id[1] => i = j
      BY <2>1, <3>1 DEF rows
    <3>8. \A i \in 1 .. (n + 1) : i \in 1 .. n \/ i = n + 1
      BY <3>1
    <3>9. pc'[r] \in Spent /\ call'[r].tenant = t
      BY <2>4, <3>3, <3>4 DEF Spent
    <3>10. \A i \in 1 .. (n + 1) : /\ receipts'[t][i].id[1] \in Request
                                   /\ pc'[receipts'[t][i].id[1]] \in Spent
                                   /\ call'[receipts'[t][i].id[1]].tenant = t
      BY <1>2, <3>2, <3>6, <3>8, <3>9
    <3>11. \A i, j \in 1 .. (n + 1) :
              receipts'[t][i].id[1] = receipts'[t][j].id[1] => i = j
      BY <3>2, <3>5, <3>7, <3>8
    <3> QED
      BY <3>2, <3>10, <3>11
  <2> QED
    BY <1>1, <2>2, <2>3, <2>4, ReceiptsEffect DEF RowsEffect
<1> QED
  BY <1>3 DEF ReceiptsOwned, Author

LEMMA ResponsesStayOwned ==
    ASSUME Owned, [Next]_vars
    PROVE  ResponsesOwned'
<1>1. TypeInv /\ TypeOK
  BY DEF Owned, TypeInv
<1>2. ASSUME NEW r \in Request, Receive(r) PROVE ResponsesOwned'
  BY <1>1, <1>2, ArrivalEffect DEF Owned, ResponsesOwned
<1>3. ASSUME NEW r \in Request, Moves(r), Step(r) \/ Abort(r) PROVE ResponsesOwned'
  <2>1. \A s \in Request : s # r => pc'[s] = pc[s] /\ response'[s] = response[s]
    BY <1>1, <1>3 DEF Moves, TypeOK, Step, Abort, OpenSession, OpenRefused,
         RecordPermission,
         RecordAudience, Authorize, AuthorizeRefused, Record, RecordRefused, ListState,
         Recall,
         RecallRefused, Save, SaveRefused, GiveUp, PutObject, PutAnswerLost,
         RecordAnswerLost, NoArchive, Attach, AttachAnswerLost,
         Fail
  <2>2. CASE Save(r)
    <3>1. response'[r].id[1] = r
      BY <1>1, <2>2 DEF Save, TypeOK, BuildReceipt
    <3> QED
      BY <2>1, <3>1 DEF Owned, ResponsesOwned
  <2>3. CASE PutObject(r)
    <3>1. pc[r] = "put" /\ response'[r] = response[r]
      BY <2>3 DEF PutObject
    <3> QED
      BY <2>1, <3>1 DEF Owned, ResponsesOwned
  <2>4. CASE ~ Save(r) /\ ~ PutObject(r)
    <3>1. pc'[r] \notin {"put", "attach"}
      <4>1. pc[r] = "put" => pc'[r] # "attach"
        BY <1>1, <1>3, <2>4 DEF Step, Abort, OpenSession, OpenRefused, RecordPermission,
           RecordAudience, Authorize, AuthorizeRefused, Record, RecordRefused, ListState,
           Recall,
           RecallRefused, SaveRefused, GiveUp, Refused, PutAnswerLost, RecordAnswerLost,
           NoArchive, Attach, AttachAnswerLost,
           Fail, Goto, TypeOK
      <4> QED
        BY <1>3, <2>4, <4>1 DEF Moves
    <3> QED
      BY <2>1, <3>1 DEF Owned, ResponsesOwned
  <2> QED
    BY <2>2, <2>3, <2>4
<1>4. CASE UNCHANGED serviceVars
  BY <1>4 DEF Owned, ResponsesOwned, serviceVars
<1> QED
  BY <1>1, <1>2, <1>3, <1>4, WhoMoves

-----------------------------------------------------------------------------
(* Sessions *)

\* A step leaves a session's token and uses, takes one use for the request it
\* authorizes, opens the session, or forgets it.
SessionEffect(t) ==
    \/ sessions'[t] = None
    \/ /\ Exists(t)
       /\ sessions'[t].token = sessions[t].token
       /\ sessions'[t].uses = sessions[t].uses
    \/ \E r \in Request :
        /\ Authorize(r)
        /\ call[r].tenant = t
        /\ Exists(t)
        /\ sessions'[t].token = sessions[t].token
        /\ sessions'[t].uses = sessions[t].uses - 1
    \/ \E r \in Request :
        /\ OpenSession(r)
        /\ call[r].tenant = t
        /\ sessions'[t].token = call[r].token
        /\ sessions'[t].uses = UseLimit

LEMMA AdditionKeepsSession ==
    ASSUME StoreTypeOK, NEW u \in Tenant, NEW d, AddMemory(u, d), NEW t \in Tenant
    PROVE  /\ sessions'[t] = None <=> sessions[t] = None
           /\ Exists(t) => /\ sessions'[t].token = sessions[t].token
                           /\ sessions'[t].uses = sessions[t].uses
<1>1. CASE t = u
  <2>1. Exists(u) /\ sessions[u] \in Session
    BY SessionIfExists DEF AddMemory, AddAccepted
  <2>2. sessions'[u] = [sessions[u] EXCEPT !.version = sessions[u].version + 1]
    BY DEF AddMemory, StoreTypeOK
  <2>3. sessions'[u] \in Session
    BY <2>1, <2>2 DEF Session
  <2> QED
    BY <1>1, <2>1, <2>2, <2>3, AbsentAssumption DEF Session, Exists
<1>2. CASE t # u
  BY <1>2 DEF AddMemory, StoreTypeOK, Exists
<1> QED
  BY <1>1, <1>2

LEMMA SessionsEffect ==
    ASSUME TypeInv, [Next]_vars, NEW t \in Tenant
    PROVE  SessionEffect(t)
<1>1. StoreTypeOK
  BY DEF TypeInv, TypeOK
<1>2. ASSUME sessions'[t] = sessions[t] PROVE SessionEffect(t)
  BY <1>2 DEF SessionEffect, Exists
<1>3. ASSUME NEW r \in Request, Receive(r) PROVE SessionEffect(t)
  BY <1>2, <1>3, ArrivalEffect DEF storeVars
<1>4. ASSUME NEW r \in Request, Step(r) \/ Abort(r), pc[r] # "idle" PROVE SessionEffect(t)
  <2>1. call[r].tenant \in Tenant
    BY <1>4, CallOf DEF Call
  <2>2. CASE OpenSession(r)
    <3>1. sessions' = [sessions EXCEPT ![call[r].tenant] =
            [token |-> call[r].token, expires |-> call[r].draft.until,
             uses |-> UseLimit, version |-> 0]]
      BY <2>2 DEF OpenSession, CreateSession
    <3>2. CASE t = call[r].tenant
      BY <1>1, <2>2, <3>1, <3>2 DEF StoreTypeOK, SessionEffect
    <3>3. CASE t # call[r].tenant
      BY <1>1, <1>2, <3>1, <3>3 DEF StoreTypeOK
    <3> QED
      BY <3>2, <3>3
  <2>3. CASE Authorize(r)
    <3>1. /\ Exists(call[r].tenant)
          /\ sessions' = [sessions EXCEPT ![call[r].tenant].uses = @ - 1]
      BY <2>3 DEF Authorize, AuthorizeSession, Authorized
    <3>2. CASE t = call[r].tenant
      <4>1. sessions[t] \in Session
        BY <1>1, <3>1, <3>2, SessionIfExists
      <4>2. /\ sessions'[t].uses = sessions[t].uses - 1
            /\ sessions'[t].token = sessions[t].token
        BY <1>1, <3>1, <3>2, <4>1 DEF StoreTypeOK, Session
      <4> QED
        BY <2>3, <3>1, <3>2, <4>2 DEF SessionEffect
    <3>3. CASE t # call[r].tenant
      BY <1>1, <1>2, <3>1, <3>3 DEF StoreTypeOK
    <3> QED
      BY <3>2, <3>3
  <2>4. CASE RecordPermission(r) \/ RecordAudience(r) \/ Record(r) \/ RecordAnswerLost(r)
    <3>1. AddMemory(call[r].tenant, call[r].draft)
      BY <2>4 DEF RecordPermission, RecordAudience, Record, RecordAnswerLost
    <3> QED
      BY <1>1, <2>1, <3>1, AdditionKeepsSession DEF SessionEffect, Exists
  <2>5. CASE OpenRefused(r) \/ Save(r) \/ Attach(r) \/ AttachAnswerLost(r)
    BY <1>2, <2>5 DEF OpenRefused, RefuseSession, Save, SaveReceipt, Attach,
         AttachAnswerLost,
         AttachReceiptArchive
  <2>6. CASE \/ AuthorizeRefused(r) \/ RecordRefused(r) \/ ListState(r) \/ Recall(r)
             \/ RecallRefused(r) \/ SaveRefused(r) \/ GiveUp(r) \/ PutObject(r)
             \/ PutAnswerLost(r) \/ NoArchive(r) \/ Abort(r)
    BY <1>2, <2>6 DEF AuthorizeRefused, RecordRefused, ListState, Recall, RecallRefused,
         SaveRefused, GiveUp, PutObject, PutAnswerLost, NoArchive, Abort, storeVars
  <2> QED
    BY <1>4, <2>2, <2>3, <2>4, <2>5, <2>6 DEF Step
<1>5. CASE Environment
  BY <1>1, <1>2, <1>5 DEF Environment, Tick, Reap, StoreTypeOK, SessionEffect
<1>6. CASE UNCHANGED vars
  BY <1>2, <1>6 DEF vars
<1> QED
  BY <1>3, <1>4, <1>5, <1>6, WhoMoves DEF Moves, Underway

LEMMA CreatorsStay ==
    ASSUME Owned, [Next]_vars
    PROVE  CreatorsCreate'
<1>1. TypeInv
  BY DEF Owned
<1>2. \A s \in Request : pc[s] # "idle" => call'[s].op = call[s].op
  BY <1>1, CallsStay DEF TypeInv, ArgumentsOK
<1>3. ASSUME NEW s \in Request, pc[s] \in {"open", "grant", "context"}
      PROVE  call'[s].op = "create"
  BY <1>2, <1>3 DEF Owned, CreatorsCreate
<1>4. ASSUME NEW r \in Request, Receive(r) PROVE CreatorsCreate'
  BY <1>1, <1>3, <1>4, ArrivalEffect DEF CreatorsCreate
<1>5. ASSUME NEW r \in Request, Moves(r) PROVE CreatorsCreate'
  BY <1>3, <1>5 DEF CreatorsCreate, Moves
<1>6. CASE UNCHANGED serviceVars
  BY <1>6 DEF Owned, CreatorsCreate, serviceVars
<1> QED
  BY <1>1, <1>4, <1>5, <1>6, WhoMoves

LEMMA TokensStayOwned ==
    ASSUME Owned, [Next]_vars
    PROVE  TokensOwned'
<1>1. TypeInv
  BY DEF Owned
<1>2. \A s \in Request : pc[s] # "idle" => call[s] # None
  BY <1>1 DEF TypeInv, ArgumentsOK
<1>3. ASSUME NEW t \in Tenant, Exists(t)' PROVE sessions'[t].token = t
  <2>1. \A r \in Request : OpenSession(r) => call[r].token = call[r].tenant
    BY DEF Owned, TokensOwned, OpenSession, Acting, Underway
  <2> QED
    BY <1>1, <1>3, <2>1, SessionsEffect DEF SessionEffect, Exists, Owned, TokensOwned
<1>4. \A s \in Request : Authorize(s) => call[s].token = call[s].tenant
  <2>1. ASSUME NEW s \in Request, Authorize(s) PROVE call[s].token = call[s].tenant
    <3>1. call[s].tenant \in Tenant
      BY <1>1, <2>1, CallOf DEF Authorize, Call
    <3> QED
      BY <2>1, <3>1 DEF Authorize, AuthorizeSession, Authorized, Owned, TokensOwned
  <2> QED
    BY <2>1
<1>5. ASSUME NEW s \in Request, pc[s] \in Acting \/ Authorize(s)
      PROVE  call'[s].token = call'[s].tenant
  <2>1. call[s].token = call[s].tenant
    BY <1>4, <1>5 DEF Owned, TokensOwned
  <2>2. call[s] # None
    BY <1>2, <1>5 DEF Acting, Underway, Authorize
  <2> QED
    BY <1>1, <2>1, <2>2, CallsStay
<1>6. ASSUME NEW s \in Request, pc'[s] \in Acting PROVE call'[s].token = call'[s].tenant
  <2>1. ASSUME NEW r \in Request, Receive(r) PROVE call'[s].token = call'[s].tenant
    BY <1>1, <1>5, <1>6, <2>1, ArrivalEffect DEF Acting
  <2>2. ASSUME NEW r \in Request, Moves(r) PROVE call'[s].token = call'[s].tenant
    BY <1>5, <1>6, <2>2 DEF Moves, Acting, Underway, Save
  <2>3. CASE UNCHANGED serviceVars
    BY <1>5, <1>6, <2>3 DEF serviceVars
  <2> QED
    BY <1>1, <2>1, <2>2, <2>3, WhoMoves
<1> QED
  BY <1>3, <1>6 DEF TokensOwned

-----------------------------------------------------------------------------
(* The budget *)

\* Nobody is admitted but by the authorization that takes a use.
LEMMA NewlyAdmitted ==
    ASSUME Owned, [Next]_vars, NEW t \in Tenant, NEW s \in Request, s \in Admitted(t)'
    PROVE  s \in Admitted(t) \/ (Authorize(s) /\ call[s].tenant = t)
<1> DEFINE inside == {"record", "list", "recall", "save", "put", "attach", "done"}
<1>1. /\ call'[s] # None /\ call'[s].op # "create" /\ call'[s].tenant = t
      /\ pc'[s] \in inside
  BY DEF Admitted
<1>2. TypeInv
  BY DEF Owned
<1>3. ASSUME NEW r \in Request, Receive(r) PROVE s \in Admitted(t)
  BY <1>1, <1>2, <1>3, ArrivalEffect DEF Admitted
<1>4. ASSUME NEW r \in Request, Moves(r)
      PROVE  s \in Admitted(t) \/ (Authorize(s) /\ call[s].tenant = t)
  <2>1. pc[s] \in inside \/ pc[s] = "context" \/ Authorize(s)
    BY <1>1, <1>4 DEF Moves, Save
  <2>2. call[s] # None
    BY <1>2, <2>1 DEF TypeInv, ArgumentsOK, Authorize
  <2>3. call[s].op # "create" /\ call[s].tenant = t
    BY <1>1, <1>2, <2>2, CallsStay
  <2>4. pc[s] # "context"
    BY <2>3 DEF Owned, CreatorsCreate
  <2> QED
    BY <2>1, <2>2, <2>3, <2>4 DEF Admitted
<1>5. CASE UNCHANGED serviceVars
  BY <1>1, <1>5 DEF Admitted, serviceVars
<1> QED
  BY <1>2, <1>3, <1>4, <1>5, WhoMoves

\* A step authorizes one request at most.
LEMMA OneAuthorization ==
    ASSUME TypeInv, NEW r \in Request, Authorize(r), NEW s \in Request, Authorize(s)
    PROVE  s = r
<1>1. pc \in [Request -> {"idle"} \cup Underway \cup Ended]
  BY DEF TypeInv, TypeOK
<1>2. pc' = [pc EXCEPT ![r] = AfterAuthorize(call[r].op)]
  BY DEF Authorize, Goto
<1>3. AfterAuthorize(call[s].op) # "authorize"
  BY DEF Authorize, TypeInv, ArgumentsOK, AfterAuthorize
<1>4. pc[s] = "authorize" /\ pc'[s] = AfterAuthorize(call[s].op)
  BY <1>1 DEF Authorize, Goto
<1> QED
  BY <1>1, <1>2, <1>3, <1>4

LEMMA BudgetStaysKept ==
    ASSUME Owned, [Next]_vars
    PROVE  BudgetKept'
<1>1. TypeInv /\ StoreTypeOK /\ StoreTypeOK'
  BY NextType DEF Owned, TypeInv, TypeOK
<1>2. SUFFICES ASSUME NEW t \in Tenant
               PROVE  /\ IsFiniteSet(Admitted(t)')
                      /\ Exists(t)' => Cardinality(Admitted(t)') + sessions'[t].uses <= UseLimit
  BY DEF BudgetKept
<1> DEFINE old == Admitted(t)
           new == Admitted(t)'
<1>3. /\ IsFiniteSet(old) /\ Cardinality(old) \in Nat
      /\ Exists(t) => Cardinality(old) + sessions[t].uses <= UseLimit
  BY FS_CardinalityType DEF Owned, BudgetKept
<1>4. UseLimit \in Nat
  BY ServiceAssumption
<1>5. Exists(t) => sessions[t].uses \in Nat
  BY <1>1, SessionIfExists DEF Session
<1>6. new \subseteq Request
  BY DEF Admitted
<1>7. ASSUME NEW r \in Request, Authorize(r), call[r].tenant = t
      PROVE  /\ new \subseteq old \cup {r}
             /\ Exists(t) /\ sessions'[t].uses = sessions[t].uses - 1
  <2>1. \A s \in Request : Authorize(s) => s = r
    BY <1>1, <1>7, OneAuthorization
  <2>2. new \subseteq old \cup {r}
    BY <1>6, <2>1, NewlyAdmitted
  <2>3. Exists(t) /\ sessions' = [sessions EXCEPT ![t].uses = @ - 1]
    BY <1>7 DEF Authorize, AuthorizeSession, Authorized
  <2>4. sessions[t] \in Session
    BY <1>1, <2>3, SessionIfExists
  <2> QED
    BY <1>1, <2>2, <2>3, <2>4 DEF StoreTypeOK, Session
<1>8. CASE \E r \in Request : Authorize(r) /\ call[r].tenant = t
  <2>1. PICK r \in Request : Authorize(r) /\ call[r].tenant = t
    BY <1>8
  <2> HIDE DEF old, new
  <2>2. /\ IsFiniteSet(old \cup {r}) /\ Cardinality(old \cup {r}) \in Nat
        /\ Cardinality(old \cup {r}) <= Cardinality(old) + 1
    <3>1. IsFiniteSet(old)
      BY <1>3
    <3>2. /\ IsFiniteSet(old \cup {r})
          /\ Cardinality(old \cup {r}) = IF r \in old THEN Cardinality(old) ELSE Cardinality(old) + 1
      BY <3>1, FS_AddElement
    <3> QED
      BY <1>3, <3>2
  <2>3. /\ IsFiniteSet(new) /\ Cardinality(new) \in Nat
        /\ Cardinality(new) <= Cardinality(old \cup {r})
    <3>1. new \in SUBSET (old \cup {r})
      BY <1>7, <2>1
    <3>2. IsFiniteSet(new) /\ Cardinality(new) <= Cardinality(old \cup {r})
      BY <2>2, <3>1, FS_Subset
    <3> QED
      BY <3>2, FS_CardinalityType
  <2>4. Exists(t) /\ sessions'[t].uses = sessions[t].uses - 1
    BY <1>7, <2>1
  <2>5. Cardinality(new) + sessions'[t].uses <= UseLimit
    BY <1>3, <1>4, <1>5, <2>2, <2>3, <2>4
  <2> QED
    BY <2>3, <2>5 DEF new
<1>9. CASE ~ \E r \in Request : Authorize(r) /\ call[r].tenant = t
  <2>1. new \subseteq old
    BY <1>6, <1>9, NewlyAdmitted
  <2>2. ASSUME NEW r \in Request, OpenSession(r), call[r].tenant = t PROVE old = {}
    <3>1. ASSUME NEW s \in old PROVE FALSE
      <4>1. s \in Request /\ call[s] # None /\ call[s].tenant = t /\ pc[s] # "open"
        BY <3>1 DEF Admitted
      <4>2. pc[r] = "open"
        BY <2>2 DEF OpenSession
      <4> QED
        BY <2>2, <4>1, <4>2 DEF Owned, TenantsFresh
    <3> QED
      BY <3>1
  <2>3. \/ sessions'[t] = None
        \/ Exists(t) /\ sessions'[t].uses = sessions[t].uses
        \/ old = {} /\ sessions'[t].uses = UseLimit
    BY <1>1, <1>9, <2>2, SessionsEffect DEF SessionEffect
  <2> HIDE DEF old, new
  <2>4. IsFiniteSet(new) /\ Cardinality(new) \in Nat /\ Cardinality(new) <= Cardinality(old)
    <3>1. new \in SUBSET old
      BY <2>1
    <3>2. IsFiniteSet(new) /\ Cardinality(new) <= Cardinality(old)
      BY <1>3, <3>1, FS_Subset
    <3> QED
      BY <3>2, FS_CardinalityType
  <2>5. old = {} => Cardinality(old) = 0
    BY FS_EmptySet
  <2>6. Exists(t)' => Cardinality(new) + sessions'[t].uses <= UseLimit
    BY <1>3, <1>4, <1>5, <2>3, <2>4, <2>5 DEF Exists
  <2> QED
    BY <2>4, <2>6 DEF new
<1> QED
  BY <1>8, <1>9

-----------------------------------------------------------------------------
(* The invariant *)

LEMMA InitOwned == Init => Owned
<1> SUFFICES ASSUME Init PROVE Owned
  OBVIOUS
<1>1. \A t \in Tenant : Admitted(t) = {}
  BY DEF Init, Admitted
<1>2. BudgetKept
  <2>1. \A t \in Tenant : ~ Exists(t)
    BY DEF Init, StoreInit, Exists
  <2> QED
    BY <1>1, <2>1, FS_EmptySet DEF BudgetKept
<1>3. ReceiptsOwned
  BY DEF Init, StoreInit, ReceiptsOwned
<1>4. ResponsesOwned /\ TokensOwned /\ CreatorsCreate
  BY DEF Init, StoreInit, Exists, ResponsesOwned, TokensOwned, CreatorsCreate, Acting,
       Underway
<1> QED
  BY <1>2, <1>3, <1>4, InitType, InitFresh DEF Owned

LEMMA NextOwned ==
    ASSUME Owned, [Next]_vars
    PROVE  Owned'
<1>1. TypeInv' /\ TenantsFresh'
  BY NextType, NextFresh DEF Owned
<1> QED
  BY <1>1, ReceiptsStayOwned, ResponsesStayOwned, TokensStayOwned, CreatorsStay,
     BudgetStaysKept DEF Owned

\* Receipts, responses, tokens and budgets belong to the requests and tenants
\* they should, at every step of every interleaving of requests.
THEOREM OwnedCorrect == Spec => []Owned
<1>1. Owned /\ [Next]_vars => Owned'
  BY NextOwned
<1> QED
  BY <1>1, InitOwned, PTL DEF Spec

LEMMA OwnedReceiptIsOnly ==
    ASSUME Owned
    PROVE  AtMostOneReceipt
<1>1. ASSUME NEW r \in Request, NEW t \in Tenant
      PROVE  Cardinality({i \in DOMAIN receipts[t] : receipts[t][i].id[1] = r}) <= 1
  <2> DEFINE mine == {i \in DOMAIN receipts[t] : receipts[t][i].id[1] = r}
  <2>1. \A i, j \in mine : i = j
    BY DEF Owned, ReceiptsOwned, Author
  <2> SUFFICES Cardinality(mine) <= 1
    OBVIOUS
  <2> HIDE DEF mine
  <2>2. CASE mine = {}
    <3>1. Cardinality({}) = 0
      BY FS_EmptySet
    <3> QED
      BY <2>2, <3>1
  <2>3. CASE mine # {}
    <3>1. PICK i \in mine : TRUE
      BY <2>3
    <3>2. mine = {i}
      BY <2>1, <3>1
    <3>3. Cardinality({i}) = 1
      BY FS_Singleton
    <3> QED
      BY <3>2, <3>3
  <2> QED
    BY <2>2, <2>3
<1>2. ASSUME NEW r \in Request, pc[r] \in {"recall", "save"}, NEW row \in ReceiptsOf(r)
      PROVE  FALSE
  <2>1. PICK t \in Tenant : \E i \in DOMAIN receipts[t] :
            row = receipts[t][i] /\ receipts[t][i].id[1] = r
    BY <1>2 DEF ReceiptsOf, Rows
  <2> QED
    BY <1>2, <2>1 DEF Owned, ReceiptsOwned, Author, Spent
<1> QED
  BY <1>1, <1>2 DEF AtMostOneReceipt

\* However often evaluate_action retries, and wherever it fails, a request leaves
\* at most one receipt, and does not retry once it has left one.
THEOREM OneReceiptCorrect == Spec => []AtMostOneReceipt
BY OwnedReceiptIsOnly, OwnedCorrect, PTL

\* The requests admitted to a session and the uses it has left never exceed its
\* budget, whatever requests are served concurrently (authorize_session).
THEOREM BudgetCorrect == Spec => []BudgetNeverOverspent
<1>1. Owned => BudgetNeverOverspent
  BY DEF Owned, BudgetKept, BudgetNeverOverspent
<1> QED
  BY <1>1, OwnedCorrect, PTL

-----------------------------------------------------------------------------
(* Isolation *)

\* Attaching an archive key to a request's receipt leaves other tenants' rows.
LEMMA AttachIsLocal ==
    ASSUME Owned, NEW r \in Request, Attach(r) \/ AttachAnswerLost(r),
           NEW t \in Tenant, t # call[r].tenant
    PROVE  receipts'[t] = receipts[t]
<1>1. StoreTypeOK
  BY DEF Owned, TypeInv, TypeOK
<1>2. response[r].id[1] = r
  BY DEF Attach, AttachAnswerLost, Owned, ResponsesOwned
<1>3. ASSUME NEW i \in DOMAIN receipts[t] PROVE receipts[t][i].id # response[r].id
  BY <1>2 DEF Owned, ReceiptsOwned, Author
<1>4. receipts'[t] = [i \in DOMAIN receipts[t] |-> receipts[t][i]]
  BY <1>3 DEF Attach, AttachAnswerLost, AttachReceiptArchive
<1> QED
  BY <1>1, <1>4 DEF StoreTypeOK

LEMMA StepsAreLocal ==
    ASSUME Owned, NEW r \in Request, Step(r), NEW t \in Tenant, t # call[r].tenant
    PROVE  UNCHANGED TenantRows(t)
<1>1. StoreTypeOK
  BY DEF Owned, TypeInv, TypeOK
<1>2. CASE OpenSession(r)
  BY <1>1, <1>2 DEF OpenSession, CreateSession, StoreTypeOK, TenantRows
<1>3. CASE RecordPermission(r) \/ RecordAudience(r) \/ Record(r) \/ RecordAnswerLost(r)
  BY <1>1, <1>3 DEF RecordPermission, RecordAudience, Record, RecordAnswerLost, AddMemory,
       StoreTypeOK, TenantRows
<1>4. CASE Authorize(r)
  BY <1>1, <1>4 DEF Authorize, AuthorizeSession, StoreTypeOK, TenantRows
<1>5. CASE Save(r)
  BY <1>1, <1>5 DEF Save, SaveReceipt, BuildReceipt, StoreTypeOK, TenantRows
<1>6. CASE Attach(r) \/ AttachAnswerLost(r)
  BY <1>6, AttachIsLocal DEF Attach, AttachAnswerLost, AttachReceiptArchive, TenantRows
<1>7. CASE \/ OpenRefused(r) \/ AuthorizeRefused(r) \/ RecordRefused(r) \/ ListState(r)
           \/ Recall(r) \/ RecallRefused(r) \/ SaveRefused(r) \/ GiveUp(r)
           \/ PutObject(r) \/ PutAnswerLost(r) \/ NoArchive(r)
  BY <1>7 DEF OpenRefused, RefuseSession, AuthorizeRefused, RecordRefused, ListState,
       Recall,
       RecallRefused, SaveRefused, GiveUp, PutObject, PutAnswerLost, NoArchive, storeVars,
       TenantRows
<1> QED
  BY <1>2, <1>3, <1>4, <1>5, <1>6, <1>7 DEF Step

\* A request whose step touches its tenant's rows holds the tenant's token.
LEMMA StepsHoldToken ==
    ASSUME Owned, NEW r \in Request, Step(r)
    PROVE  \/ pc'[r] # pc[r] /\ call[r].token = call[r].tenant
           \/ UNCHANGED storeVars
<1>1. TypeInv
  BY DEF Owned
<1>2. Moves(r)
  BY <1>1, StepMoves
<1>3. pc'[r] # pc[r]
  BY <1>2 DEF Moves, Underway, Save, Authorize
<1>4. CASE pc[r] \in Acting
  BY <1>3, <1>4 DEF Owned, TokensOwned
<1>5. CASE pc[r] = "authorize"
  <2>1. Authorize(r) \/ AuthorizeRefused(r)
    BY <1>5 DEF Step, OpenSession, OpenRefused, RecordPermission, RecordAudience, Record,
         RecordRefused, ListState, Recall, RecallRefused, Save, SaveRefused, GiveUp,
         Refused,
         PutObject, PutAnswerLost, RecordAnswerLost, NoArchive, Attach, AttachAnswerLost
  <2>2. CASE Authorize(r)
    <3>1. call[r].tenant \in Tenant
      BY <1>1, <1>5, CallOf DEF Call
    <3> QED
      BY <1>3, <2>2, <3>1 DEF Authorize, AuthorizeSession, Authorized, Owned, TokensOwned
  <2> QED
    BY <2>1, <2>2 DEF AuthorizeRefused
<1> QED
  BY <1>2, <1>4, <1>5 DEF Moves, Acting

LEMMA OnlyOwnersChange ==
    ASSUME Owned, [Next]_vars
    PROVE  ChangedByOwner
<1>1. TypeInv /\ StoreTypeOK
  BY DEF Owned, TypeInv, TypeOK
<1>2. ASSUME UNCHANGED storeVars PROVE ChangedByOwner
  BY <1>2 DEF ChangedByOwner, TenantRows, storeVars
<1>3. ASSUME NEW r \in Request, Receive(r) PROVE ChangedByOwner
  BY <1>1, <1>2, <1>3, ArrivalEffect
<1>4. ASSUME NEW r \in Request, Step(r) PROVE ChangedByOwner
  <2>1. CASE pc'[r] # pc[r] /\ call[r].token = call[r].tenant
    BY <1>4, <2>1, StepsAreLocal DEF ChangedByOwner
  <2> QED
    BY <1>2, <1>4, <2>1, StepsHoldToken
<1>5. ASSUME NEW r \in Request, Abort(r) PROVE ChangedByOwner
  BY <1>2, <1>5 DEF Abort
<1>6. CASE Environment
  BY <1>1, <1>6 DEF Environment, Tick, Reap, StoreTypeOK, ChangedByOwner, TenantRows
<1>7. CASE Rest \/ UNCHANGED vars
  BY <1>2, <1>7 DEF Rest, vars, storeVars
<1> QED
  BY <1>3, <1>4, <1>5, <1>6, <1>7 DEF Next

\* A tenant's session, memories and receipts change only by a request for that
\* tenant that carries its token, or by the expiry of its rows, though any
\* request may name any tenant, token and memory its client knows of.
THEOREM IsolationCorrect == Spec => TenantIsolation
<1>1. Owned /\ [Next]_vars => [ChangedByOwner]_vars
  BY OnlyOwnersChange
<1> QED
  BY <1>1, OwnedCorrect, PTL DEF Spec, TenantIsolation

=============================================================================

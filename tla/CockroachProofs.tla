-------------------------- MODULE CockroachProofs --------------------------
(***************************************************************************)
(* The transactions of CockroachStore, for every number of callers,        *)
(* tenants and memories, every size of the pool and number of attempts:    *)
(* a receipt is right as of the clock of its transaction, a call changes   *)
(* the rows at most once however often it is tried and wherever it breaks, *)
(* and no window has more sessions than its limit.                         *)
(*                                                                         *)
(* TransactionInv is inductive by itself.  What a caller has recalled is   *)
(* touched by others in three ways only: an addition advances the version, *)
(* which makes the retrieval an older one; an expiry takes the session     *)
(* away for good; and nobody can create it again (CreationFresh).          *)
(***************************************************************************)
EXTENDS CockroachStore, LeaseStoreProofs, FiniteSetTheorems

-----------------------------------------------------------------------------
(* The calls *)

\* The fields of a call are those of its operation.
LEMMA JobFields ==
    ASSUME CockroachTypeOK, NEW c \in Caller, job[c] # None
    PROVE  /\ job[c] \in Job
           /\ job[c].op = "create" => job[c].tenant \in Tenant /\ job[c].expires \in Time
           /\ job[c].op = "authorize" =>
                job[c].tenant \in Tenant /\ job[c].token \in Token /\ job[c].consume \in BOOLEAN
           /\ job[c].op = "add" => job[c].tenant \in Tenant /\ job[c].draft \in MemoryCreate
           /\ job[c].op = "recall" => job[c].tenant \in Tenant /\ job[c].query \in Query
           /\ job[c].op = "save" =>
                /\ job[c].receipt \in ActionReceipt
                /\ job[c].version \in Nat
                /\ job[c].before \in Time \cup {None}
<1>1. job[c] \in Job
  BY DEF CockroachTypeOK
<1>2. job[c].op = "add" => job[c].draft \in Draft
  BY <1>1 DEF Job
<1> QED
  BY <1>1, <1>2, CockroachAssumption DEF Job

\* A caller that runs an operation is in a transaction, whose clock is not ahead.
LEMMA RunningCall ==
    ASSUME TransactionInv, NEW c \in Caller, pc[c] = "open"
    PROVE  /\ job[c] # None
           /\ began[c] \in 0 .. MaxTime
           /\ began[c] \in Int
           /\ began[c] <= now
BY DEF TransactionInv, CockroachTypeOK, InStep

CallTypes ==
    /\ pc \in [Caller -> {"idle", "wait", "open", "committed"}]
    /\ job \in [Caller -> Job \cup {None}]
    /\ began \in [Caller -> (0 .. MaxTime) \cup {None}]
    /\ tries \in [Caller -> 0 .. Attempts - 1]
    /\ effects \in [Caller -> Nat]

\* A call that is over, or committed, has nothing left to do, and the others are as
\* they were.
Quits(c) == Over(c) \/ (Commit(c) /\ pc[c] = "open")

LEMMA QuitsCalls ==
    ASSUME TransactionInv, NEW c \in Caller, Quits(c), now' = now
    PROVE  /\ CallTypes'
           /\ \A d \in Caller : InStep(d)'
           /\ pc'[c] \in {"idle", "committed"} /\ began'[c] = None /\ drawn' = drawn
           /\ \A d \in Caller : d # c =>
                pc'[d] = pc[d] /\ job'[d] = job[d] /\ began'[d] = began[d]
<1>1. CallTypes' /\ drawn' = drawn
  <2>1. CASE Over(c)
    BY <2>1, CockroachAssumption DEF TransactionInv, CockroachTypeOK, CallTypes, Over
  <2>2. CASE Commit(c) /\ pc[c] = "open"
    BY <2>2 DEF TransactionInv, CockroachTypeOK, CallTypes, Commit
  <2> QED
    BY <2>1, <2>2 DEF Quits
<1>2. /\ \/ pc'[c] = "idle" /\ job'[c] = None
         \/ pc'[c] = "committed" /\ job'[c] = job[c] /\ pc[c] = "open"
      /\ began'[c] = None
      /\ \A d \in Caller : d # c =>
           pc'[d] = pc[d] /\ job'[d] = job[d] /\ began'[d] = began[d]
  BY DEF TransactionInv, CockroachTypeOK, Quits, Over, Commit
<1>3. \A d \in Caller : InStep(d)'
  BY <1>2 DEF TransactionInv, InStep
<1> QED
  BY <1>1, <1>2, <1>3

LEMMA AsksCalls ==
    ASSUME TransactionInv, NEW c \in Caller, NEW what \in Job, Asks(c, what)
    PROVE  /\ CallTypes'
           /\ \A d \in Caller : InStep(d)'
           /\ job'[c] = what /\ what # None
           /\ pc'[c] = "wait" /\ began' = began /\ began[c] = None
           /\ \A d \in Caller : d # c => pc'[d] = pc[d] /\ job'[d] = job[d]
<1>1. what # None
  BY CockroachAbsence
<1>2. CallTypes'
  BY DEF TransactionInv, CockroachTypeOK, CallTypes, Asks
<1>3. /\ job'[c] = what /\ pc'[c] = "wait" /\ began' = began /\ now' = now
      /\ \A d \in Caller : d # c => pc'[d] = pc[d] /\ job'[d] = job[d]
  BY DEF TransactionInv, CockroachTypeOK, Asks, storeVars
<1>4. began[c] = None
  BY DEF TransactionInv, InStep, Asks
<1>5. \A d \in Caller : InStep(d)'
  BY <1>1, <1>3, <1>4 DEF TransactionInv, InStep
<1> QED
  BY <1>1, <1>2, <1>3, <1>4, <1>5

-----------------------------------------------------------------------------
(* What others do to what a caller recalled *)

\* A session goes on, and its memories change only as its version advances; or it
\* is gone.
GoesOn(t) ==
    Exists(t)' =>
        /\ Exists(t)
        /\ sessions'[t].version \in Nat
        /\ sessions'[t].version >= sessions[t].version
        /\ sessions'[t].version = sessions[t].version => memories'[t] = memories[t]

LEMMA SoundKept ==
    ASSUME TransactionInv, NEW found \in Recollection, Sound(found),
           now \in Int, now' \in Int, now <= now',
           drawn \subseteq drawn', GoesOn(found.tenant)
    PROVE  Sound(found)'
<1> DEFINE t == found.tenant
<1>1. t \in Tenant /\ found.version \in Nat /\ found.at \in Int
  BY DEF Recollection, Time
<1>2. Exists(t) => sessions[t].version \in Nat
  BY <1>1 DEF TransactionInv, CockroachTypeOK, Exists, SessionRow
<1>3. found.at <= now' /\ t \in drawn'
  BY <1>1 DEF Sound
<1>4. ASSUME Exists(t)'
      PROVE  /\ found.version <= sessions'[t].version
             /\ found.version = sessions'[t].version =>
                  /\ found.evidence = Evidence(memories'[t], found.query, found.at)
                  /\ found.decision = Decide(memories'[t], found.evidence)
                  /\ found.before = NextTransition(memories'[t], found.at)
  <2>1. /\ Exists(t)
        /\ sessions'[t].version \in Nat
        /\ sessions'[t].version >= sessions[t].version
        /\ sessions'[t].version = sessions[t].version => memories'[t] = memories[t]
    BY <1>4 DEF GoesOn
  <2>2. /\ found.version <= sessions[t].version
        /\ found.version = sessions[t].version =>
            /\ found.evidence = Evidence(memories[t], found.query, found.at)
            /\ found.decision = Decide(memories[t], found.evidence)
            /\ found.before = NextTransition(memories[t], found.at)
    BY <2>1 DEF Sound
  <2>3. found.version = sessions'[t].version =>
            found.version = sessions[t].version /\ memories'[t] = memories[t]
    BY <1>1, <1>2, <2>1, <2>2
  <2> QED
    BY <1>1, <1>2, <2>1, <2>2, <2>3
<1> QED
  BY <1>3, <1>4 DEF Sound

\* A caller that has still to do what it asked for has asked for something.
LEMMA CallingJob ==
    ASSUME TransactionInv, NEW c \in Caller, pc[c] \in {"wait", "open"}
    PROVE  job[c] # None
BY DEF TransactionInv, InStep

\* The retrieval that a receipt was made from is a retrieval.
LEMMA SubmittedType ==
    ASSUME TransactionInv, NEW c \in Caller, Calling(c, "save")
    PROVE  Submitted(c) \in Recollection
<1>1. CockroachTypeOK /\ job[c] # None
  BY CallingJob DEF TransactionInv, Calling
<1> QED
  BY <1>1, JobFields DEF Calling, Submitted, Recollection, ActionReceipt

\* What a caller holds, or is about to save, is not of this tenant.
Unaware(d, t) ==
    /\ view[d] # None => view[d].tenant # t
    /\ Calling(d, "save") => job[d].receipt.tenant # t

\* What a caller recalled stays sound while it does nothing with it, if the session
\* it recalled from goes on.
LEMMA CallerKept ==
    ASSUME TransactionInv, NEW d \in Caller,
           now' \in Int, now <= now', drawn \subseteq drawn',
           view'[d] = view[d],
           Calling(d, "save")' =>
                Calling(d, "save") /\ job'[d] = job[d] /\ began'[d] = began[d],
           \A t \in Tenant : GoesOn(t) \/ Unaware(d, t)
    PROVE  CallerSound(d)'
<1>1. now \in Int /\ CockroachTypeOK /\ CallerSound(d)
  BY DEF TransactionInv, CockroachTypeOK
<1>2. ASSUME view[d] # None PROVE Sound(view[d])'
  <2>1. view[d] \in Recollection /\ view[d].tenant \in Tenant
    BY <1>1, <1>2 DEF CockroachTypeOK, Recollection
  <2>2. GoesOn(view[d].tenant)
    BY <1>2, <2>1 DEF Unaware
  <2>3. Sound(view[d])
    BY <1>1, <1>2 DEF CallerSound
  <2>4. PICK found \in Recollection : found = view[d]
    BY <2>1
  <2>5. Sound(found)'
    BY <1>1, <2>2, <2>3, <2>4, SoundKept
  <2> QED
    BY <2>4, <2>5 DEF Sound
<1>3. ASSUME Calling(d, "save"), job'[d] = job[d], began'[d] = began[d]
      PROVE  /\ Sound(Submitted(d))'
             /\ began[d] # None => job[d].receipt.created <= began[d]
  <2>1. /\ Submitted(d) \in Recollection
        /\ Submitted(d).tenant \in Tenant
        /\ Submitted(d).tenant = job[d].receipt.tenant
    BY <1>1, <1>3, SubmittedType DEF Recollection, Submitted
  <2>2. GoesOn(Submitted(d).tenant)
    BY <1>3, <2>1 DEF Unaware
  <2>3. Sound(Submitted(d)) /\ (began[d] # None => job[d].receipt.created <= began[d])
    BY <1>1, <1>3 DEF CallerSound
  <2>4. PICK found \in Recollection : found = Submitted(d)
    BY <2>1
  <2>5. Sound(found)'
    BY <1>1, <2>2, <2>3, <2>4, SoundKept
  <2>6. Submitted(d)' = Submitted(d)
    BY <1>3 DEF Submitted
  <2> QED
    BY <2>3, <2>4, <2>5, <2>6 DEF Sound
<1> QED
  BY <1>2, <1>3 DEF CallerSound

\* One caller moves: what the others recalled stays sound.
LEMMA CallersSound ==
    ASSUME TransactionInv, NEW c \in Caller,
           now' \in Int, now <= now', drawn \subseteq drawn',
           \A d \in Caller : d # c =>
                /\ view'[d] = view[d] /\ pc'[d] = pc[d]
                /\ job'[d] = job[d] /\ began'[d] = began[d],
           \A t \in Tenant : GoesOn(t) \/ (Calling(c, "create") /\ t = job[c].tenant),
           CallerSound(c)'
    PROVE  \A d \in Caller : CallerSound(d)'
<1>1. \A d \in Caller, t \in Tenant :
        Calling(c, "create") /\ t = job[c].tenant => Unaware(d, t)
  BY DEF TransactionInv, CreationFresh, Unaware
<1>2. ASSUME NEW d \in Caller, d # c PROVE CallerSound(d)'
  BY <1>1, <1>2, CallerKept DEF Calling
<1> QED
  BY <1>2

\* A caller that does not begin to create leaves every tenant about to be created
\* unknown.
LEMMA CreationsFresh ==
    ASSUME TransactionInv, NEW c \in Caller, drawn \subseteq drawn',
           \A d \in Caller : d # c =>
                view'[d] = view[d] /\ pc'[d] = pc[d] /\ job'[d] = job[d],
           \A t \in Tenant :
                Exists(t)' => Exists(t) \/ (Calling(c, "create") /\ t = job[c].tenant),
           Calling(c, "create")' =>
                /\ Calling(c, "create") /\ job'[c] = job[c]
                /\ \A t \in Tenant : Exists(t)' => Exists(t),
           Calling(c, "save")' =>
                \/ Calling(c, "save") /\ job'[c] = job[c]
                \/ view[c] # None /\ job'[c].receipt.tenant = view[c].tenant,
           view'[c] # None => view'[c] = view[c] \/ Exists(view'[c].tenant)
    PROVE  \A d \in Caller : CreationFresh(d)'
<1>1. SUFFICES ASSUME NEW d \in Caller, Calling(d, "create")'
               PROVE  CreationFresh(d)'
  BY DEF CreationFresh
<1>2. job'[d] = job[d] /\ Calling(d, "create")
  BY <1>1 DEF Calling
<1>3. /\ CreationFresh(d)
      /\ job[d].tenant \in Tenant
  BY <1>2, CallingJob, JobFields DEF TransactionInv, Calling
<1>4. job[d].tenant \in drawn' /\ ~ Exists(job[d].tenant)'
  BY <1>1, <1>2, <1>3 DEF CreationFresh
<1>5. ASSUME NEW e \in Caller
      PROVE  /\ Calling(e, "create")' /\ e # d => job'[e].tenant # job[d].tenant
             /\ Calling(e, "save")' => job'[e].receipt.tenant # job[d].tenant
             /\ view'[e] # None => view'[e].tenant # job[d].tenant
  <2>1. CASE e = c
    BY <1>2, <1>3, <2>1 DEF CreationFresh, Calling
  <2>2. CASE e # c
    BY <1>2, <1>3, <2>2 DEF CreationFresh, Calling
  <2> QED
    BY <2>1, <2>2
<1> QED
  BY <1>2, <1>4, <1>5 DEF CreationFresh, Calling

-----------------------------------------------------------------------------
(* Steps that leave the rows alone *)

RowTypes ==
    /\ now \in 0 .. MaxTime
    /\ sessions \in [Tenant -> SessionRow \cup {None}]
    /\ memories \in [Tenant -> Seq(Memory)]
    /\ receipts \in [Tenant -> Seq(ActionReceipt)]
    /\ hourly \in [Windows -> Nat]

LEMMA RowsUnchanged ==
    ASSUME TransactionInv, UNCHANGED storeVars
    PROVE  /\ RowTypes' /\ now' \in Int /\ now' = now
           /\ \A t \in Tenant : GoesOn(t) /\ (Exists(t)' <=> Exists(t))
<1>1. \A t \in Tenant : Exists(t) => sessions[t].version \in Nat
  BY DEF TransactionInv, CockroachTypeOK, Exists, SessionRow
<1> QED
  BY <1>1 DEF TransactionInv, CockroachTypeOK, storeVars, RowTypes, GoesOn, Exists, Windows

LEMMA Assembled ==
    ASSUME RowTypes', CallTypes', view' \in [Caller -> Recollection \cup {None}],
           drawn' \subseteq Tenant \cup ReceiptId,
           \A t \in Tenant : Exists(t)' => t \in drawn',
           \A d \in Caller : InStep(d)' /\ CreationFresh(d)' /\ CallerSound(d)'
    PROVE  TransactionInv'
BY DEF TransactionInv, CockroachTypeOK, RowTypes, CallTypes

\* A call is over, or committed, and it changed no more than its operation may.
LEMMA EffectStep ==
    ASSUME TransactionInv, NEW c \in Caller, Quits(c), RowTypes', now' = now, view' = view,
           \A t \in Tenant : GoesOn(t) \/ (Calling(c, "create") /\ t = job[c].tenant)
    PROVE  TransactionInv'
<1>1. now' \in Int
  BY DEF RowTypes
<1>2. /\ CallTypes'
      /\ \A d \in Caller : InStep(d)'
      /\ pc'[c] \in {"idle", "committed"}
      /\ \A d \in Caller : d # c =>
           pc'[d] = pc[d] /\ job'[d] = job[d] /\ began'[d] = began[d]
      /\ drawn' = drawn
  BY QuitsCalls
<1>3. \A t \in Tenant : Calling(c, "create") /\ t = job[c].tenant =>
        t \in drawn /\ Unaware(c, t)
  BY DEF TransactionInv, CreationFresh, Unaware
<1>4. CallerSound(c)'
  BY <1>1, <1>2, <1>3, CallerKept DEF Calling
<1>5. \A d \in Caller : CallerSound(d)'
  BY <1>1, <1>2, <1>4, CallersSound
<1>6. \A t \in Tenant :
        Exists(t)' => Exists(t) \/ (Calling(c, "create") /\ t = job[c].tenant)
  BY DEF GoesOn
<1>7. \A d \in Caller : CreationFresh(d)'
  BY <1>2, <1>6, CreationsFresh DEF Calling
<1>8. /\ view' \in [Caller -> Recollection \cup {None}]
      /\ drawn' \subseteq Tenant \cup ReceiptId
      /\ \A t \in Tenant : Exists(t)' => t \in drawn'
  BY <1>2, <1>3, <1>6 DEF TransactionInv, CockroachTypeOK
<1> QED
  BY <1>2, <1>5, <1>7, <1>8, Assembled

\* A call is over without effect: it is refused, or it fails.
LEMMA OverStep ==
    ASSUME TransactionInv, NEW c \in Caller, Over(c), UNCHANGED <<storeVars, view>>
    PROVE  TransactionInv'
BY RowsUnchanged, EffectStep DEF Quits

LEMMA ConnectStep ==
    ASSUME TransactionInv, NEW c \in Caller, Connect(c)
    PROVE  TransactionInv'
<1>1. /\ RowTypes' /\ now' \in Int /\ now' = now
      /\ \A t \in Tenant : GoesOn(t) /\ (Exists(t)' <=> Exists(t))
  BY RowsUnchanged DEF Connect
<1>2. /\ CallTypes'
      /\ pc[c] = "wait" /\ pc'[c] = "open" /\ began'[c] = now
      /\ \A d \in Caller : d # c => pc'[d] = pc[d] /\ began'[d] = began[d]
      /\ job' = job /\ drawn' = drawn /\ view' = view
  BY DEF TransactionInv, CockroachTypeOK, CallTypes, Connect
<1>3. now # None
  BY NoneAssumption DEF TransactionInv, CockroachTypeOK
<1>4. \A d \in Caller : InStep(d)'
  BY <1>1, <1>2, <1>3 DEF TransactionInv, InStep, Connect
<1>5. CallerSound(c)'
  <2>1. CallerSound(c)
    BY DEF TransactionInv
  <2>2. Calling(c, "save") => job[c].receipt.created <= now
    BY <2>1 DEF CallerSound, Sound, Submitted
  <2> QED
    BY <1>1, <1>2, <2>1, <2>2
    DEF CallerSound, Calling, Sound, Submitted, storeVars, Exists, Connect
<1>6. \A d \in Caller : CallerSound(d)'
  BY <1>1, <1>2, <1>5, CallersSound
<1>7. \A d \in Caller : CreationFresh(d)'
  BY <1>1, <1>2, CreationsFresh DEF Calling
<1>8. /\ view' \in [Caller -> Recollection \cup {None}]
      /\ drawn' \subseteq Tenant \cup ReceiptId
      /\ \A t \in Tenant : Exists(t)' => t \in drawn'
  BY <1>1, <1>2 DEF TransactionInv, CockroachTypeOK
<1> QED
  BY <1>1, <1>2, <1>4, <1>6, <1>7, <1>8, Assembled

\* Only what is tried again counts its failures; a receipt is not saved twice.
LEMMA RetryStep ==
    ASSUME TransactionInv, NEW c \in Caller, Retry(c)
    PROVE  TransactionInv'
<1>1. /\ RowTypes' /\ now' \in Int /\ now' = now
      /\ \A t \in Tenant : GoesOn(t) /\ (Exists(t)' <=> Exists(t))
  BY RowsUnchanged DEF Retry
<1>2. /\ CallTypes'
      /\ pc[c] = "open" /\ pc'[c] = "wait" /\ began'[c] = None
      /\ \A d \in Caller : d # c => pc'[d] = pc[d] /\ began'[d] = began[d]
      /\ job' = job /\ drawn' = drawn /\ view' = view
  BY CockroachAssumption DEF TransactionInv, CockroachTypeOK, CallTypes, Retry, MayRetry
<1>3. \A d \in Caller : InStep(d)'
  BY <1>1, <1>2 DEF TransactionInv, InStep, Retry
<1>4. CallerSound(c)'
  <2>1. CallerSound(c)
    BY DEF TransactionInv
  <2> QED
    BY <1>1, <1>2, <2>1 DEF CallerSound, Calling, Sound, Submitted, storeVars, Exists, Retry
<1>5. \A d \in Caller : CallerSound(d)'
  BY <1>1, <1>2, <1>4, CallersSound
<1>6. \A d \in Caller : CreationFresh(d)'
  BY <1>1, <1>2, CreationsFresh DEF Calling
<1>7. /\ view' \in [Caller -> Recollection \cup {None}]
      /\ drawn' \subseteq Tenant \cup ReceiptId
      /\ \A t \in Tenant : Exists(t)' => t \in drawn'
  BY <1>1, <1>2 DEF TransactionInv, CockroachTypeOK
<1> QED
  BY <1>1, <1>2, <1>3, <1>5, <1>6, <1>7, Assembled

\* A call begins: what it brings is of the right type, and if it creates or saves,
\* that is said of it separately.
LEMMA AskStep ==
    ASSUME TransactionInv, NEW c \in Caller, NEW what \in Job, Asks(c, what),
           view' \in [Caller -> Recollection \cup {None}],
           \A d \in Caller : d # c => view'[d] = view[d],
           view'[c] = view[c] \/ view'[c] = None,
           drawn \subseteq drawn', drawn' \subseteq Tenant \cup ReceiptId,
           CreationFresh(c)', CallerSound(c)',
           what.op = "create" => what.tenant \notin drawn,
           what.op = "save" => view[c] # None /\ what.receipt.tenant = view[c].tenant
    PROVE  TransactionInv'
<1>1. /\ RowTypes' /\ now' \in Int /\ now' = now
      /\ \A t \in Tenant : GoesOn(t) /\ (Exists(t)' <=> Exists(t))
  BY RowsUnchanged DEF Asks
<1>2. /\ CallTypes'
      /\ \A d \in Caller : InStep(d)'
      /\ job'[c] = what /\ what # None
      /\ began' = began /\ began[c] = None
      /\ \A d \in Caller : d # c => pc'[d] = pc[d] /\ job'[d] = job[d]
  BY AsksCalls
<1>3. \A d \in Caller : CallerSound(d)'
  BY <1>1, <1>2, CallersSound
<1>4. ASSUME NEW d \in Caller, d # c PROVE CreationFresh(d)'
  <2>1. SUFFICES ASSUME Calling(d, "create") PROVE CreationFresh(d)'
    BY <1>2, <1>4 DEF CreationFresh, Calling
  <2>2. CreationFresh(d) /\ job[d].tenant \in Tenant
    BY <2>1, CallingJob, JobFields DEF TransactionInv, Calling
  <2>3. job[d].tenant \in drawn' /\ ~ Exists(job[d].tenant)'
    BY <1>1, <1>2, <1>4, <2>1, <2>2 DEF CreationFresh, Exists
  <2>4. ASSUME NEW e \in Caller
        PROVE  /\ Calling(e, "create")' /\ e # d => job'[e].tenant # job[d].tenant
               /\ Calling(e, "save")' => job'[e].receipt.tenant # job[d].tenant
               /\ view'[e] # None => view'[e].tenant # job[d].tenant
    <3>1. CASE e = c
      BY <1>2, <2>1, <2>2, <3>1 DEF CreationFresh, Calling
    <3>2. CASE e # c
      BY <1>2, <2>1, <2>2, <3>2 DEF CreationFresh, Calling
    <3> QED
      BY <3>1, <3>2
  <2> QED
    BY <1>2, <1>4, <2>3, <2>4 DEF CreationFresh, Calling
<1>5. \A t \in Tenant : Exists(t)' => t \in drawn'
  BY <1>1 DEF TransactionInv
<1> QED
  BY <1>1, <1>2, <1>3, <1>4, <1>5, Assembled

LEMMA PlainAskStep ==
    ASSUME TransactionInv, NEW c \in Caller, NEW what \in Job, Asks(c, what),
           what.op \in {"authorize", "add", "recall", "attach"}, UNCHANGED <<view, drawn>>
    PROVE  TransactionInv'
<1>1. job'[c] = what /\ what # None /\ began' = began
  BY AsksCalls
<1>2. CreationFresh(c)'
  BY <1>1 DEF CreationFresh, Calling
<1>3. CallerSound(c)'
  <2>1. CallerSound(c)
    BY DEF TransactionInv
  <2> QED
    BY <1>1, <2>1 DEF CallerSound, Calling, Sound, Asks, storeVars, Exists
<1> QED
  BY <1>2, <1>3, AskStep DEF TransactionInv, CockroachTypeOK

LEMMA AskCreateStep ==
    ASSUME TransactionInv, NEW c \in Caller, AskCreate(c)
    PROVE  TransactionInv'
<1>1. PICK t \in Tenant \ drawn, expires \in 1 .. MaxTime + 1 :
          /\ Asks(c, [op |-> "create", tenant |-> t, expires |-> expires])
          /\ drawn' = drawn \cup {t}
          /\ UNCHANGED view
  BY DEF AskCreate
<1> DEFINE what == [op |-> "create", tenant |-> t, expires |-> expires]
<1>2. what \in Job
  BY StoreAssumption DEF Job, Time
<1>3. /\ job'[c] = what /\ what # None /\ began' = began
      /\ \A d \in Caller : d # c => pc'[d] = pc[d] /\ job'[d] = job[d]
  BY <1>1, <1>2, AsksCalls
<1>4. ASSUME NEW d \in Caller
      PROVE  /\ view[d] # None => view[d].tenant \in drawn
             /\ Calling(d, "save") => job[d].receipt.tenant \in drawn
             /\ Calling(d, "create") => job[d].tenant \in drawn
  <2>1. CallerSound(d) /\ CreationFresh(d)
    BY DEF TransactionInv
  <2> QED
    BY <2>1 DEF CallerSound, CreationFresh, Sound, Submitted
<1>5. ~ Exists(t)'
  BY <1>1 DEF TransactionInv, Exists, Asks, storeVars
<1>6. CreationFresh(c)'
  BY <1>1, <1>3, <1>4, <1>5 DEF CreationFresh, Calling
<1>7. CallerSound(c)'
  <2>1. CallerSound(c)
    BY DEF TransactionInv
  <2> QED
    BY <1>1, <1>3, <2>1 DEF CallerSound, Calling, Sound, Asks, storeVars, Exists
<1>8. /\ view' \in [Caller -> Recollection \cup {None}]
      /\ drawn' \subseteq Tenant \cup ReceiptId
  BY <1>1 DEF TransactionInv, CockroachTypeOK
<1> QED
  BY <1>1, <1>2, <1>6, <1>7, <1>8, AskStep

\* What is saved is what was recalled.
LEMMA AskSaveStep ==
    ASSUME TransactionInv, NEW c \in Caller, AskSave(c)
    PROVE  TransactionInv'
<1>1. view[c] \in Recollection /\ view[c] # None
  BY DEF AskSave, TransactionInv, CockroachTypeOK
<1>2. PICK id \in ReceiptId \ drawn :
          /\ Asks(c, [op      |-> "save",
                      receipt |-> [id       |-> id,
                                   tenant   |-> view[c].tenant,
                                   query    |-> view[c].query,
                                   decision |-> view[c].decision,
                                   evidence |-> view[c].evidence,
                                   created  |-> view[c].at,
                                   archived |-> FALSE],
                      version |-> view[c].version,
                      before  |-> view[c].before])
          /\ view' = [view EXCEPT ![c] = None]
          /\ drawn' = drawn \cup {id}
  BY DEF AskSave
<1> DEFINE receipt == [id |-> id, tenant |-> view[c].tenant, query |-> view[c].query,
                       decision |-> view[c].decision, evidence |-> view[c].evidence,
                       created |-> view[c].at, archived |-> FALSE]
           what == [op |-> "save", receipt |-> receipt,
                    version |-> view[c].version, before |-> view[c].before]
<1>3. receipt \in ActionReceipt
  BY <1>1 DEF ActionReceipt, Recollection
<1>4. what \in Job /\ Asks(c, what)
  BY <1>1, <1>2, <1>3 DEF Job, Recollection
<1>5. /\ job'[c] = what /\ what # None /\ began' = began /\ began[c] = None
      /\ \A d \in Caller : d # c => job'[d] = job[d]
  BY <1>4, AsksCalls
<1>6. CreationFresh(c)'
  BY <1>5 DEF CreationFresh, Calling
<1>7. Submitted(c)' = view[c]
  <2>1. view[c] = [tenant |-> view[c].tenant, query |-> view[c].query,
                   evidence |-> view[c].evidence, decision |-> view[c].decision,
                   version |-> view[c].version, before |-> view[c].before, at |-> view[c].at]
    BY <1>1 DEF Recollection
  <2> QED
    BY <1>5, <2>1 DEF Submitted
<1>8. CallerSound(c)'
  <2>1. Sound(view[c])
    BY <1>1 DEF TransactionInv, CallerSound
  <2>2. storeVars' = storeVars /\ drawn \subseteq drawn' /\ view'[c] = None
    BY <1>2, <1>4 DEF Asks, TransactionInv, CockroachTypeOK
  <2>3. Sound(Submitted(c))'
    BY <1>7, <2>1, <2>2 DEF Sound, Exists, storeVars
  <2> QED
    BY <1>5, <2>2, <2>3 DEF CallerSound
<1>9. /\ view' \in [Caller -> Recollection \cup {None}]
      /\ drawn' \subseteq Tenant \cup ReceiptId
      /\ view'[c] = None
      /\ \A d \in Caller : d # c => view'[d] = view[d]
  BY <1>2 DEF TransactionInv, CockroachTypeOK
<1> QED
  BY <1>1, <1>2, <1>4, <1>6, <1>8, <1>9, AskStep

\* A caller asks for whatever it likes.
LEMMA AskKeeps ==
    ASSUME TransactionInv, NEW c \in Caller, Ask(c)
    PROVE  TransactionInv'
<1>1. CASE AskAuthorize(c)
  <2>1. PICK t \in Tenant, token \in Token, consume \in BOOLEAN :
          /\ Asks(c, [op |-> "authorize", tenant |-> t, token |-> token, consume |-> consume])
          /\ UNCHANGED <<view, drawn>>
    BY <1>1 DEF AskAuthorize
  <2>2. [op |-> "authorize", tenant |-> t, token |-> token, consume |-> consume] \in Job
    BY DEF Job
  <2> QED
    BY <2>1, <2>2, PlainAskStep
<1>2. CASE AskAdd(c)
  <2>1. PICK t \in Tenant, d \in Draft :
          /\ Asks(c, [op |-> "add", tenant |-> t, draft |-> d])
          /\ UNCHANGED <<view, drawn>>
    BY <1>2 DEF AskAdd
  <2>2. [op |-> "add", tenant |-> t, draft |-> d] \in Job
    BY DEF Job
  <2> QED
    BY <2>1, <2>2, PlainAskStep
<1>3. CASE AskRecall(c)
  <2>1. PICK t \in Tenant, q \in Query :
          /\ Asks(c, [op |-> "recall", tenant |-> t, query |-> q])
          /\ UNCHANGED <<view, drawn>>
    BY <1>3 DEF AskRecall
  <2>2. [op |-> "recall", tenant |-> t, query |-> q] \in Job
    BY DEF Job
  <2> QED
    BY <2>1, <2>2, PlainAskStep
<1>4. CASE AskAttach(c)
  <2>1. PICK id \in ReceiptId :
          /\ Asks(c, [op |-> "attach", id |-> id])
          /\ UNCHANGED <<view, drawn>>
    BY <1>4 DEF AskAttach
  <2>2. [op |-> "attach", id |-> id] \in Job
    BY DEF Job
  <2> QED
    BY <2>1, <2>2, PlainAskStep
<1> QED
  BY <1>1, <1>2, <1>3, <1>4, AskCreateStep, AskSaveStep DEF Ask

-----------------------------------------------------------------------------
(* Commits *)

\* create_session
LEMMA CreateStep ==
    ASSUME TransactionInv, NEW c \in Caller, Create(c)
    PROVE  TransactionInv'
<1>1. /\ pc[c] = "open" /\ job[c] # None /\ began[c] \in Int
      /\ job[c].tenant \in Tenant /\ job[c].expires \in Time
      /\ Calling(c, "create")
  BY RunningCall, JobFields DEF Create, Running, TransactionInv, Calling
<1> DEFINE t == job[c].tenant
           row == [token |-> t, expires |-> job[c].expires, uses |-> Budget,
                   version |-> 0, created |-> began[c]]
<1>2. row \in SessionRow
  BY <1>1, CockroachAssumption DEF SessionRow, Token, Time
<1>3. /\ sessions' = [sessions EXCEPT ![t] = row]
      /\ memories' = memories /\ receipts' = receipts /\ now' = now /\ view' = view
      /\ hourly' = [hourly EXCEPT ![RateWindow(c)] = @ + 1]
  BY DEF Create, Commit
<1> HIDE DEF row
<1>4. hourly' \in [Windows -> Nat]
  <2>1. hourly' = [w \in Windows |-> IF w = RateWindow(c) THEN hourly[w] + 1 ELSE hourly[w]]
    BY <1>3 DEF TransactionInv, CockroachTypeOK
  <2>2. \A w \in Windows : hourly[w] \in Nat
    BY DEF TransactionInv, CockroachTypeOK
  <2> QED
    BY <2>1, <2>2
<1>5. RowTypes'
  BY <1>2, <1>3, <1>4 DEF TransactionInv, CockroachTypeOK, RowTypes, Windows
<1>6. \A u \in Tenant : u # t => GoesOn(u)
  BY <1>3 DEF TransactionInv, CockroachTypeOK, GoesOn, Exists, SessionRow
<1> QED
  BY <1>1, <1>3, <1>5, <1>6, EffectStep DEF Create, Quits

LEMMA RowIfExists ==
    ASSUME TransactionInv, NEW t \in Tenant, Exists(t)
    PROVE  sessions[t] \in SessionRow
BY DEF TransactionInv, CockroachTypeOK, Exists

\* authorize_session
LEMMA AuthorizeStep ==
    ASSUME TransactionInv, NEW c \in Caller, Authorize(c)
    PROVE  TransactionInv'
<1> DEFINE t == job[c].tenant
<1>1. t \in Tenant /\ job[c].consume \in BOOLEAN
  BY RunningCall, JobFields DEF Authorize, Running, TransactionInv
<1>2. /\ sessions[t] \in SessionRow
      /\ job[c].consume => sessions[t].uses - 1 \in Nat
  BY <1>1, RowIfExists DEF Authorize, Permits, ValidFor, SessionRow
<1>3. /\ sessions' = IF job[c].consume
                     THEN [sessions EXCEPT ![t].uses = @ - 1] ELSE sessions
      /\ memories' = memories /\ receipts' = receipts /\ hourly' = hourly
      /\ now' = now /\ view' = view
  BY DEF Authorize, Commit
<1> DEFINE row == [sessions[t] EXCEPT !.uses = @ - 1]
<1>4. job[c].consume => row \in SessionRow /\ row.version = sessions[t].version
  BY <1>2 DEF SessionRow
<1>5. sessions' = IF job[c].consume THEN [sessions EXCEPT ![t] = row] ELSE sessions
  BY <1>3
<1> HIDE DEF row, t
<1>6. RowTypes'
  BY <1>1, <1>3, <1>4, <1>5 DEF TransactionInv, CockroachTypeOK, RowTypes, Windows
<1>7. \A u \in Tenant : Exists(u)' =>
        Exists(u) /\ sessions'[u].version = sessions[u].version /\ sessions[u].version \in Nat
  <2>1. \A u \in Tenant : u # t => sessions'[u] = sessions[u]
    BY <1>5 DEF TransactionInv, CockroachTypeOK
  <2>2. sessions'[t].version = sessions[t].version /\ Exists(t)
    <3>1. Exists(t)
      BY DEF Authorize, Permits, ValidFor, t
    <3> QED
      BY <1>1, <1>4, <1>5, <3>1 DEF TransactionInv, CockroachTypeOK
  <2>3. \A u \in Tenant : Exists(u) => sessions[u].version \in Nat
    BY RowIfExists DEF SessionRow
  <2> QED
    BY <1>1, <2>1, <2>2, <2>3 DEF Exists
<1>8. \A u \in Tenant : GoesOn(u)
  BY <1>3, <1>7 DEF GoesOn
<1>9. Quits(c)
  BY DEF Authorize, Running, Quits
<1> QED
  BY <1>3, <1>6, <1>8, <1>9, EffectStep

\* The rows of an addition: the new memory, after the others.
LEMMA AddedRows ==
    ASSUME TransactionInv, NEW c \in Caller, Add(c)
    PROVE  /\ job[c].tenant \in Tenant
           /\ Exists(job[c].tenant)
           /\ WithSuperseded(memories[job[c].tenant], job[c].draft) \in Seq(Memory)
           /\ RowOf(c) \in Memory
<1> DEFINE t == job[c].tenant
           d == job[c].draft
<1>1. t \in Tenant /\ d \in MemoryCreate /\ began[c] \in Int
  BY RunningCall, JobFields DEF Add, Running, TransactionInv
<1>2. memories[t] \in Seq(Memory) /\ Exists(t)
  BY <1>1 DEF TransactionInv, CockroachTypeOK, Add, Addable, ValidFor
<1>3. d.supersedes # None => d.supersedes[2] \in 1 .. Len(memories[t]) /\ d.supersedes[2] \in Nat
  <2>1. d.supersedes # None => d.supersedes \in MemoryId
    BY <1>1 DEF MemoryCreate
  <2> QED
    BY <1>1, <1>2, <2>1, LenProperties DEF MemoryId, Add, Addable, Replaceable
<1>4. WithSuperseded(memories[t], d) \in Seq(Memory)
  BY <1>2, <1>3, WithSupersededType
<1>5. RowOf(c) \in Memory
  BY <1>1, <1>3 DEF RowOf, NewMemoryRecord, Memory, MemoryCreate, Time, Status
<1> QED
  BY <1>1, <1>2, <1>4, <1>5

\* add_memory
LEMMA AddStep ==
    ASSUME TransactionInv, NEW c \in Caller, Add(c)
    PROVE  TransactionInv'
<1> DEFINE t == job[c].tenant
           ms == Append(WithSuperseded(memories[t], job[c].draft), RowOf(c))
           row == [sessions[t] EXCEPT !.version = @ + 1]
<1>1. t \in Tenant /\ Exists(t) /\ ms \in Seq(Memory)
  BY AddedRows, AppendProperties
<1>2. /\ sessions[t] \in SessionRow /\ row \in SessionRow
      /\ row.version = sessions[t].version + 1 /\ sessions[t].version \in Nat
  BY <1>1, RowIfExists DEF SessionRow
<1>3. /\ memories' = [memories EXCEPT ![t] = ms]
      /\ sessions' = [sessions EXCEPT ![t] = row]
      /\ receipts' = receipts /\ hourly' = hourly /\ now' = now /\ view' = view
      /\ Quits(c)
  BY DEF Add, Running, Commit, Quits
<1> HIDE DEF ms, row, t
<1>4. RowTypes'
  BY <1>1, <1>2, <1>3 DEF TransactionInv, CockroachTypeOK, RowTypes, Windows
<1>5. GoesOn(t)
  BY <1>1, <1>2, <1>3 DEF TransactionInv, CockroachTypeOK, GoesOn
<1>6. ASSUME NEW u \in Tenant, u # t PROVE GoesOn(u)
  <2>1. sessions'[u] = sessions[u] /\ memories'[u] = memories[u]
    BY <1>3, <1>6 DEF TransactionInv, CockroachTypeOK
  <2>2. Exists(u) => sessions[u].version \in Nat
    BY RowIfExists DEF SessionRow
  <2> QED
    BY <2>1, <2>2 DEF GoesOn, Exists
<1> QED
  BY <1>3, <1>4, <1>5, <1>6, EffectStep

\* save_receipt
LEMMA SaveStep ==
    ASSUME TransactionInv, NEW c \in Caller, Save(c)
    PROVE  TransactionInv'
<1> DEFINE receipt == job[c].receipt
           t == receipt.tenant
<1>1. receipt \in ActionReceipt /\ t \in Tenant
  BY RunningCall, JobFields DEF Save, Running, TransactionInv, ActionReceipt
<1>2. Append(receipts[t], receipt) \in Seq(ActionReceipt)
  BY <1>1, AppendProperties DEF TransactionInv, CockroachTypeOK
<1>3. RowTypes'
  BY <1>1, <1>2 DEF TransactionInv, CockroachTypeOK, RowTypes, Windows, Save
<1>4. \A u \in Tenant : GoesOn(u)
  BY RowIfExists DEF GoesOn, Save, Exists, SessionRow
<1>5. Quits(c) /\ now' = now /\ view' = view
  BY DEF Save, Running, Commit, Quits
<1> QED
  BY <1>3, <1>4, <1>5, EffectStep

\* attach_receipt_archive
LEMMA AttachStep ==
    ASSUME TransactionInv, NEW c \in Caller, Attach(c)
    PROVE  TransactionInv'
<1>1. receipts' \in [Tenant -> Seq(ActionReceipt)]
  BY AttachedReceipts DEF TransactionInv, CockroachTypeOK, Attach
<1>2. RowTypes'
  BY <1>1 DEF TransactionInv, CockroachTypeOK, RowTypes, Windows, Attach, AttachReceiptArchive
<1>3. \A u \in Tenant : GoesOn(u)
  BY RowIfExists DEF GoesOn, Attach, AttachReceiptArchive, Exists, SessionRow
<1>4. Quits(c) /\ now' = now /\ view' = view
  BY DEF Attach, AttachReceiptArchive, Running, Commit, Quits
<1> QED
  BY <1>2, <1>3, <1>4, EffectStep

\* recall_active: what is found is sound, as of the clock of its transaction.
LEMMA RecallStep ==
    ASSUME TransactionInv, NEW c \in Caller, Recall(c)
    PROVE  TransactionInv'
<1> DEFINE t == job[c].tenant
           q == job[c].query
           at == began[c]
           found == [tenant   |-> t, query |-> q, evidence |-> Evidence(memories[t], q, at),
                     decision |-> Decide(memories[t], Evidence(memories[t], q, at)),
                     version  |-> sessions[t].version,
                     before   |-> NextTransition(memories[t], at),
                     at       |-> at]
<1>1. /\ t \in Tenant /\ q \in Query /\ at \in Int /\ at <= now
      /\ Exists(t) /\ Calling(c, "recall")
  BY RunningCall, JobFields DEF Recall, Running, TransactionInv, Calling
<1>2. memories[t] \in Seq(Memory) /\ sessions[t] \in SessionRow
  BY <1>1, RowIfExists DEF TransactionInv, CockroachTypeOK
<1>3. found \in Recollection
  BY <1>1, <1>2, EvidenceType, DecideType, NextTransitionLeast DEF Recollection, SessionRow, Time
<1>4. Over(c) /\ storeVars' = storeVars /\ view' = [view EXCEPT ![c] = found]
  BY DEF Recall
<1>5. sessions[t].version <= sessions[t].version
  BY <1>2 DEF SessionRow
<1>6. Sound(found)
  BY <1>1, <1>5 DEF Sound, TransactionInv
<1>7. found.tenant = t
  OBVIOUS
<1> HIDE DEF t, found
<1>8. /\ RowTypes' /\ now' \in Int /\ now' = now
      /\ \A u \in Tenant : GoesOn(u) /\ (Exists(u)' <=> Exists(u))
  BY <1>4, RowsUnchanged
<1>9. /\ CallTypes'
      /\ \A d \in Caller : InStep(d)'
      /\ pc'[c] \in {"idle", "committed"}
      /\ \A d \in Caller : d # c =>
           pc'[d] = pc[d] /\ job'[d] = job[d] /\ began'[d] = began[d]
      /\ drawn' = drawn
  BY <1>4, <1>8, QuitsCalls DEF Quits
<1>10. /\ view' \in [Caller -> Recollection \cup {None}]
       /\ view'[c] = found
       /\ \A d \in Caller : d # c => view'[d] = view[d]
  BY <1>3, <1>4 DEF TransactionInv, CockroachTypeOK
<1>11. CallerSound(c)'
  BY <1>4, <1>6, <1>9, <1>10 DEF CallerSound, Calling, Sound, Exists, storeVars
<1>12. \A d \in Caller : CallerSound(d)'
  BY <1>8, <1>9, <1>10, <1>11, CallersSound
<1>13. \A d \in Caller : CreationFresh(d)'
  <2>1. view'[c] # None => Exists(view'[c].tenant)
    BY <1>1, <1>7, <1>10
  <2> QED
    BY <1>8, <1>9, <1>10, <2>1, CreationsFresh DEF Calling
<1>14. /\ drawn' \subseteq Tenant \cup ReceiptId
       /\ \A u \in Tenant : Exists(u)' => u \in drawn'
  BY <1>8, <1>9 DEF TransactionInv, CockroachTypeOK
<1> QED
  BY <1>8, <1>9, <1>10, <1>12, <1>13, <1>14, Assembled

\* Time passes, and expired rows go, while no caller moves.
LEMMA EnvironmentStep ==
    ASSUME TransactionInv, Environment
    PROVE  TransactionInv'
<1>1. /\ pc' = pc /\ job' = job /\ began' = began /\ tries' = tries /\ effects' = effects
      /\ view' = view /\ drawn' = drawn
  BY DEF Environment, callVars
<1>2. now \in Int /\ now' \in 0 .. MaxTime /\ now' \in Int /\ now <= now'
  BY StoreAssumption DEF TransactionInv, CockroachTypeOK, Environment, Tick, Reap
<1>3. <<>> \in Seq(Memory) /\ <<>> \in Seq(ActionReceipt)
  BY EmptySeq
<1>4. RowTypes'
  <2>1. CASE Tick
    BY <1>2, <2>1 DEF TransactionInv, CockroachTypeOK, RowTypes, Windows, Tick
  <2>2. ASSUME NEW t \in Tenant, Reap(t) PROVE RowTypes'
    BY <1>2, <1>3, <2>2 DEF TransactionInv, CockroachTypeOK, RowTypes, Windows, Reap
  <2> QED
    BY <2>1, <2>2 DEF Environment
<1>5. \A u \in Tenant : GoesOn(u)
  <2>1. CASE Tick
    BY <2>1, RowIfExists DEF Tick, GoesOn, Exists, SessionRow
  <2>2. ASSUME NEW t \in Tenant, Reap(t) PROVE \A u \in Tenant : GoesOn(u)
    <3>1. GoesOn(t)
      BY <2>2 DEF TransactionInv, CockroachTypeOK, GoesOn, Reap, Exists
    <3>2. ASSUME NEW u \in Tenant, u # t PROVE GoesOn(u)
      <4>1. sessions'[u] = sessions[u] /\ memories'[u] = memories[u]
        BY <2>2, <3>2 DEF TransactionInv, CockroachTypeOK, Reap
      <4> QED
        BY <4>1, RowIfExists DEF GoesOn, Exists, SessionRow
    <3> QED
      BY <3>1, <3>2
  <2> QED
    BY <2>1, <2>2 DEF Environment
<1>6. \A d \in Caller : CallerSound(d)'
  BY <1>1, <1>2, <1>5, CallerKept DEF Calling
<1>7. \A u \in Tenant : Exists(u)' => Exists(u)
  BY <1>5 DEF GoesOn
<1>8. \A d \in Caller : CreationFresh(d)'
  <2>1. ASSUME NEW d \in Caller PROVE CreationFresh(d)'
    BY <1>1, <1>7, <2>1, CreationsFresh DEF Calling
  <2> QED
    BY <2>1
<1>9. \A d \in Caller : InStep(d)'
  <2>1. \A d \in Caller : InStep(d) /\ began[d] \in (0 .. MaxTime) \cup {None}
    BY DEF TransactionInv, CockroachTypeOK
  <2> QED
    BY <1>1, <1>2, <2>1 DEF InStep
<1>10. /\ CallTypes' /\ view' \in [Caller -> Recollection \cup {None}]
       /\ drawn' \subseteq Tenant \cup ReceiptId
       /\ \A u \in Tenant : Exists(u)' => u \in drawn'
  BY <1>1, <1>7 DEF TransactionInv, CockroachTypeOK, CallTypes
<1> QED
  BY <1>4, <1>6, <1>8, <1>9, <1>10, Assembled

-----------------------------------------------------------------------------
LEMMA ProceedKeeps ==
    ASSUME TransactionInv, NEW c \in Caller, Proceed(c) \/ Break(c)
    PROVE  TransactionInv'
<1>1. CASE \/ PoolTimeout(c) \/ Conflict(c) \/ Answered(c) \/ Break(c) \/ CreateRefused(c)
           \/ AuthorizeRefused(c) \/ AddRefused(c) \/ RecallRefused(c) \/ SaveRefused(c)
  BY <1>1, OverStep DEF PoolTimeout, Conflict, Answered, Break, CreateRefused,
                        AuthorizeRefused, AddRefused, RecallRefused, SaveRefused
<1>2. CASE \/ Connect(c) \/ Retry(c) \/ Create(c) \/ Authorize(c) \/ Add(c)
           \/ Recall(c) \/ Save(c) \/ Attach(c)
  BY <1>2, ConnectStep, RetryStep, CreateStep, AuthorizeStep, AddStep, RecallStep,
     SaveStep, AttachStep
<1> QED
  BY <1>1, <1>2 DEF Proceed

LEMMA StutterKeeps ==
    ASSUME TransactionInv, UNCHANGED vars
    PROVE  TransactionInv'
<1>1. CockroachTypeOK'
  BY DEF TransactionInv, CockroachTypeOK, vars, Windows
<1>2. \A t \in Tenant : Exists(t)' => t \in drawn'
  BY DEF TransactionInv, vars, Exists
<1>3. ASSUME NEW c \in Caller
      PROVE  InStep(c)' /\ CreationFresh(c)' /\ CallerSound(c)'
  <2>1. InStep(c) /\ CreationFresh(c) /\ CallerSound(c)
    BY DEF TransactionInv
  <2> QED
    BY <2>1 DEF InStep, CreationFresh, CallerSound, Calling, Sound, Submitted, Exists, vars
<1> QED
  BY <1>1, <1>2, <1>3 DEF TransactionInv

LEMMA InitiallyInv ==
    ASSUME Init
    PROVE  TransactionInv
<1>1. <<>> \in Seq(Memory) /\ <<>> \in Seq(ActionReceipt)
  BY EmptySeq
<1>2. CockroachTypeOK
  BY <1>1, StoreAssumption, CockroachAssumption DEF Init, StoreInit, CockroachTypeOK
<1>3. \A t \in Tenant : ~ Exists(t)
  BY DEF Init, StoreInit, Exists
<1>4. \A c \in Caller : InStep(c) /\ CreationFresh(c) /\ CallerSound(c)
  BY DEF Init, InStep, CreationFresh, CallerSound, Calling
<1> QED
  BY <1>2, <1>3, <1>4 DEF TransactionInv

\* Whatever a caller recalled and is about to save is of an older version or still
\* right, however the transactions of others come between (recall_active,
\* save_receipt).
THEOREM TransactionsCorrect == Spec => []TransactionInv
<1>1. Init => TransactionInv
  BY InitiallyInv
<1>2. TransactionInv /\ [Next]_vars => TransactionInv'
  BY AskKeeps, ProceedKeeps, EnvironmentStep, StutterKeeps DEF Next
<1> QED
  BY <1>1, <1>2, PTL DEF Spec

\* No transaction of CockroachStore makes a row that is not of its type: no uses
\* below zero, though the last is asked for by several callers at once.
THEOREM CockroachTypeCorrect == Spec => []CockroachTypeOK
<1>1. TransactionInv => CockroachTypeOK
  BY DEF TransactionInv
<1> QED
  BY <1>1, TransactionsCorrect, PTL

-----------------------------------------------------------------------------
(* Receipts *)

\* What the guards of save_receipt let through is right at the clock of its
\* transaction.
LEMMA SaveIsRight ==
    ASSUME TransactionInv, NEW c \in Caller, Save(c)
    PROVE  LET row == job[c].receipt
           IN  /\ row.evidence = Evidence(memories[row.tenant], row.query, began[c])
               /\ row.decision = Decide(memories[row.tenant], row.evidence)
               /\ began[c] < sessions[row.tenant].expires
<1> DEFINE row == job[c].receipt
           t == row.tenant
<1>1. /\ Calling(c, "save") /\ row \in ActionReceipt /\ t \in Tenant
      /\ began[c] \in Int /\ row.created \in Int /\ began[c] # None
  BY RunningCall, JobFields, NoneAssumption
  DEF Save, Running, TransactionInv, Calling, ActionReceipt, Time
<1>2. /\ Exists(t) /\ began[c] < sessions[t].expires
      /\ sessions[t].version = job[c].version
      /\ job[c].before # None => began[c] < job[c].before
  BY DEF Save, StillCurrent, ValidFor
<1>3. Sound(Submitted(c)) /\ row.created <= began[c]
  BY <1>1 DEF TransactionInv, CallerSound
<1>4. /\ row.evidence = Evidence(memories[t], row.query, row.created)
      /\ row.decision = Decide(memories[t], row.evidence)
      /\ job[c].before = NextTransition(memories[t], row.created)
  BY <1>2, <1>3 DEF Sound, Submitted
<1>5. memories[t] \in Seq(Memory)
  BY <1>1 DEF TransactionInv, CockroachTypeOK
<1>6. Evidence(memories[t], row.query, began[c]) = Evidence(memories[t], row.query, row.created)
  BY <1>1, <1>2, <1>3, <1>4, <1>5, StableUntilTransition
<1> QED
  BY <1>2, <1>4, <1>6

LEMMA OnlySavesAdd ==
    ASSUME TransactionInv, NEW t \in Tenant, [Next]_vars,
           Len(receipts'[t]) > Len(receipts[t])
    PROVE  \E c \in Caller : Save(c)
<1>1. receipts[t] \in Seq(ActionReceipt) /\ Len(receipts[t]) \in Nat
  BY LenProperties DEF TransactionInv, CockroachTypeOK
<1>2. receipts'[t] # receipts[t]
  BY <1>1
<1>3. ASSUME NEW c \in Caller, Ask(c) PROVE FALSE
  BY <1>2, <1>3 DEF Ask, AskCreate, AskAuthorize, AskAdd, AskRecall, AskSave, AskAttach,
                    Asks, storeVars
<1>4. ASSUME NEW c \in Caller, Attach(c) PROVE FALSE
  BY <1>1, <1>4, AttachedReceipts DEF TransactionInv, CockroachTypeOK, Attach
<1>5. ASSUME NEW c \in Caller, Proceed(c) \/ Break(c) PROVE Save(c)
  BY <1>2, <1>4, <1>5
  DEF Proceed, Break, Answered, Connect, PoolTimeout, Retry, Conflict, Create, CreateRefused,
      Authorize, AuthorizeRefused, Add, AddRefused, Recall, RecallRefused, SaveRefused,
      storeVars
<1>6. CASE Environment
  <2>1. CASE Tick
    BY <1>2, <2>1 DEF Tick
  <2>2. ASSUME NEW u \in Tenant, Reap(u) PROVE FALSE
    <3>1. receipts'[t] = <<>> \/ receipts'[t] = receipts[t]
      BY <2>2 DEF Reap, TransactionInv, CockroachTypeOK
    <3>2. Len(<<>>) = 0
      BY EmptySeq
    <3> QED
      BY <1>1, <1>2, <3>1, <3>2
  <2> QED
    BY <1>6, <2>1, <2>2 DEF Environment
<1>7. CASE UNCHANGED vars
  BY <1>2, <1>7 DEF vars
<1> QED
  BY <1>3, <1>5, <1>6, <1>7 DEF Next

LEMMA SavesRight ==
    ASSUME TransactionInv, [Next]_vars
    PROVE  SavedAreRight
<1>1. SUFFICES ASSUME NEW t \in Tenant, Len(receipts'[t]) > Len(receipts[t])
               PROVE  LET row == receipts'[t][Len(receipts'[t])]
                      IN  \E c \in Caller :
                            /\ Running(c, "save") /\ job[c].receipt = row
                            /\ row.evidence = Evidence(memories[t], row.query, began[c])
                            /\ row.decision = Decide(memories[t], row.evidence)
                            /\ began[c] < sessions[t].expires
  BY DEF SavedAreRight
<1>2. PICK c \in Caller : Save(c)
  BY <1>1, OnlySavesAdd
<1> DEFINE row == job[c].receipt
<1>3. /\ row.evidence = Evidence(memories[row.tenant], row.query, began[c])
      /\ row.decision = Decide(memories[row.tenant], row.evidence)
      /\ began[c] < sessions[row.tenant].expires
  BY <1>2, SaveIsRight
<1>4. Running(c, "save") /\ receipts' = [receipts EXCEPT ![row.tenant] = Append(@, row)]
  BY <1>2 DEF Save
<1>5. receipts[t] \in Seq(ActionReceipt) /\ Len(receipts[t]) \in Nat /\ row \in ActionReceipt
  BY <1>4, RunningCall, JobFields, LenProperties DEF Running, TransactionInv, CockroachTypeOK
<1> HIDE DEF row
<1>6. t = row.tenant
  BY <1>1, <1>4, <1>5 DEF TransactionInv, CockroachTypeOK
<1>7. receipts'[t] = Append(receipts[t], row)
  BY <1>4, <1>6 DEF TransactionInv, CockroachTypeOK
<1>8. receipts'[t][Len(receipts'[t])] = row
  BY <1>5, <1>7, AppendProperties
<1> QED
  BY <1>3, <1>4, <1>6, <1>8 DEF row

\* Every receipt inserted has the evidence and the decision that hold at the clock
\* of its transaction, on the memories of its commit (save_receipt).
THEOREM SavesCorrect == Spec => SavedAsOfStart
<1>1. TransactionInv /\ [Next]_vars => [SavedAreRight]_vars
  BY SavesRight
<1> QED
  BY <1>1, TransactionsCorrect, PTL DEF Spec, SavedAsOfStart

-----------------------------------------------------------------------------
(* Retries *)

\* What is still to be done has not been done.
Undone == \A c \in Caller : effects[c] = IF pc[c] = "committed" THEN 1 ELSE 0

LEMMA UndoneStays ==
    ASSUME TransactionInv, Undone, [Next]_vars
    PROVE  Undone'
<1>1. pc \in [Caller -> {"idle", "wait", "open", "committed"}] /\ effects \in [Caller -> Nat]
  BY DEF TransactionInv, CockroachTypeOK
<1>2. ASSUME NEW c \in Caller, Over(c) PROVE Undone'
  BY <1>1, <1>2 DEF Over, Undone
<1>3. ASSUME NEW c \in Caller, Commit(c), pc[c] = "open" PROVE Undone'
  BY <1>1, <1>3 DEF Commit, Undone
<1>4. ASSUME NEW c \in Caller, NEW label \in {"wait", "open"},
             pc' = [pc EXCEPT ![c] = label], pc[c] # "committed", effects' = effects
      PROVE  Undone'
  BY <1>1, <1>4 DEF Undone
<1>5. ASSUME NEW c \in Caller, Ask(c) PROVE Undone'
  BY <1>4, <1>5 DEF Ask, AskCreate, AskAuthorize, AskAdd, AskRecall, AskSave, AskAttach, Asks
<1>6. ASSUME NEW c \in Caller, Connect(c) \/ Retry(c) PROVE Undone'
  BY <1>4, <1>6 DEF Connect, Retry
<1>7. ASSUME NEW c \in Caller,
             \/ PoolTimeout(c) \/ Conflict(c) \/ Answered(c) \/ Break(c) \/ CreateRefused(c)
             \/ AuthorizeRefused(c) \/ AddRefused(c) \/ Recall(c) \/ RecallRefused(c)
             \/ SaveRefused(c)
      PROVE  Undone'
  BY <1>2, <1>7 DEF PoolTimeout, Conflict, Answered, Break, CreateRefused, AuthorizeRefused,
     AddRefused, Recall, RecallRefused, SaveRefused
<1>8. ASSUME NEW c \in Caller, Create(c) \/ Authorize(c) \/ Add(c) \/ Save(c) \/ Attach(c)
      PROVE  Undone'
  BY <1>3, <1>8 DEF Create, Authorize, Add, Save, Attach, Running
<1>9. CASE UNCHANGED callVars
  BY <1>9 DEF callVars, Undone
<1> QED
  BY <1>5, <1>6, <1>7, <1>8, <1>9 DEF Next, Proceed, Environment, vars, callVars

\* A call changes the rows at most once, however often it is tried and whether it
\* breaks before its commit or before the answer: what _run_serializable tries again
\* has not been done (store.py, errors.SerializationFailure).
THEOREM EffectsCorrect == Spec => []NoEffectRepeated
<1>1. Init => Undone
  BY DEF Init, Undone
<1>2. TransactionInv /\ Undone /\ [Next]_vars => Undone'
  BY UndoneStays
<1>3. Undone => NoEffectRepeated
  BY DEF Undone, NoEffectRepeated
<1> QED
  BY <1>1, <1>2, <1>3, TransactionsCorrect, PTL DEF Spec

-----------------------------------------------------------------------------
(* The hourly limit *)

CreatedIn(w) == {t \in Tenant : Exists(t) /\ sessions[t].created \div WindowLen = w}

\* Every window has counted the sessions created in it.
LimitKept ==
    \A w \in Windows :
        /\ IsFiniteSet(CreatedIn(w))
        /\ Cardinality(CreatedIn(w)) <= hourly[w]
        /\ hourly[w] <= HourlyLimit

\* A transaction's clock is within a window that is counted.
LEMMA ClockInWindow ==
    ASSUME NEW at \in 0 .. MaxTime
    PROVE  at \div WindowLen \in Windows
<1>1. ASSUME NEW a \in Nat, NEW b \in Nat, NEW n \in Nat \ {0}, a <= b
      PROVE  a \div n \in Nat /\ a \div n <= b \div n
  BY <1>1, SMTT(60)
<1> QED
  BY <1>1, StoreAssumption DEF Windows

LEMMA FewerCreated ==
    ASSUME TransactionInv, LimitKept, hourly' = hourly,
           \A w \in Windows : CreatedIn(w)' \subseteq CreatedIn(w)
    PROVE  LimitKept'
<1>1. ASSUME NEW w \in Windows
      PROVE  /\ IsFiniteSet(CreatedIn(w)')
             /\ Cardinality(CreatedIn(w)') <= hourly[w]
             /\ hourly[w] <= HourlyLimit
  <2>1. /\ IsFiniteSet(CreatedIn(w)) /\ Cardinality(CreatedIn(w)) <= hourly[w]
        /\ hourly[w] <= HourlyLimit /\ hourly[w] \in Nat
    BY DEF LimitKept, TransactionInv, CockroachTypeOK
  <2>2. /\ IsFiniteSet(CreatedIn(w)')
        /\ Cardinality(CreatedIn(w)') <= Cardinality(CreatedIn(w))
    BY <2>1, FS_Subset
  <2>3. Cardinality(CreatedIn(w)) \in Nat /\ Cardinality(CreatedIn(w)') \in Nat
    BY <2>1, <2>2, FS_CardinalityType
  <2> QED
    BY <2>1, <2>2, <2>3
<1> QED
  BY <1>1 DEF LimitKept, Windows

\* A creation adds one session to the window that it counts it in.
LEMMA CreateCounts ==
    ASSUME TransactionInv, LimitKept, NEW c \in Caller, Create(c)
    PROVE  LimitKept'
<1> DEFINE t == job[c].tenant
           v == RateWindow(c)
<1>1. t \in Tenant /\ began[c] \in 0 .. MaxTime
  BY RunningCall, JobFields DEF Create, Running, TransactionInv
<1>2. v \in Windows
  BY <1>1, ClockInWindow DEF RateWindow
<1>3. /\ hourly[v] < HourlyLimit
      /\ hourly' = [hourly EXCEPT ![v] = hourly[v] + 1]
      /\ sessions' = [sessions EXCEPT ![t] =
              [token   |-> t, expires |-> job[c].expires, uses |-> Budget,
               version |-> 0, created |-> began[c]]]
  BY DEF Create
<1>4. \A w \in Windows : hourly[w] \in Nat
  BY DEF TransactionInv, CockroachTypeOK
<1>5. hourly'[v] = hourly[v] + 1 /\ \A w \in Windows : w # v => hourly'[w] = hourly[w]
  BY <1>2, <1>3 DEF TransactionInv, CockroachTypeOK
<1>6. /\ sessions'[t].created \div WindowLen = v
      /\ \A u \in Tenant : u # t => sessions'[u] = sessions[u]
  BY <1>1, <1>3 DEF TransactionInv, CockroachTypeOK, RateWindow
<1> HIDE DEF t, v
<1>7. ASSUME NEW w \in Windows
      PROVE  /\ IsFiniteSet(CreatedIn(w)')
             /\ Cardinality(CreatedIn(w)') <= hourly'[w]
             /\ hourly'[w] <= HourlyLimit
  <2>1. /\ IsFiniteSet(CreatedIn(w)) /\ Cardinality(CreatedIn(w)) <= hourly[w]
        /\ hourly[w] <= HourlyLimit /\ hourly[w] \in Nat
        /\ Cardinality(CreatedIn(w)) \in Nat
    BY <1>4, FS_CardinalityType DEF LimitKept
  <2>2. CASE w = v
    <3>1. CreatedIn(w)' \subseteq CreatedIn(w) \cup {t}
      BY <1>6 DEF CreatedIn, Exists
    <3>2. /\ IsFiniteSet(CreatedIn(w) \cup {t})
          /\ \/ Cardinality(CreatedIn(w) \cup {t}) = Cardinality(CreatedIn(w))
             \/ Cardinality(CreatedIn(w) \cup {t}) = Cardinality(CreatedIn(w)) + 1
      BY <2>1, FS_AddElement
    <3>3. /\ IsFiniteSet(CreatedIn(w)')
          /\ Cardinality(CreatedIn(w)') <= Cardinality(CreatedIn(w) \cup {t})
      BY <3>1, <3>2, FS_Subset
    <3>4. Cardinality(CreatedIn(w)') \in Nat /\ Cardinality(CreatedIn(w) \cup {t}) \in Nat
      BY <3>2, <3>3, FS_CardinalityType
    <3>5. hourly'[w] = hourly[w] + 1 /\ hourly[w] < HourlyLimit /\ HourlyLimit \in Nat
      BY <1>3, <1>5, <2>2, StoreAssumption
    <3> QED
      BY <2>1, <3>2, <3>3, <3>4, <3>5
  <2>3. CASE w # v
    <3>1. CreatedIn(w)' \subseteq CreatedIn(w)
      BY <1>6, <2>3 DEF CreatedIn, Exists
    <3>2. /\ IsFiniteSet(CreatedIn(w)')
          /\ Cardinality(CreatedIn(w)') <= Cardinality(CreatedIn(w))
      BY <2>1, <3>1, FS_Subset
    <3>3. Cardinality(CreatedIn(w)') \in Nat
      BY <3>2, FS_CardinalityType
    <3> QED
      BY <1>5, <2>1, <2>3, <3>2, <3>3
  <2> QED
    BY <2>2, <2>3
<1> QED
  BY <1>7 DEF LimitKept, Windows

LEMMA LimitStep ==
    ASSUME TransactionInv, LimitKept, [Next]_vars
    PROVE  LimitKept'
<1>1. ASSUME hourly' = hourly,
             \A t \in Tenant : Exists(t)' =>
                 Exists(t) /\ sessions'[t].created = sessions[t].created
      PROVE  LimitKept'
  <2>1. \A w \in Windows : CreatedIn(w)' \subseteq CreatedIn(w)
    BY <1>1 DEF CreatedIn, Exists
  <2> QED
    BY <1>1, <2>1, FewerCreated
<1>2. CASE hourly' = hourly /\ sessions' = sessions
  BY <1>1, <1>2 DEF Exists
<1>3. ASSUME NEW c \in Caller, Ask(c) PROVE LimitKept'
  BY <1>2, <1>3 DEF Ask, AskCreate, AskAuthorize, AskAdd, AskRecall, AskSave, AskAttach,
                    Asks, storeVars
<1>4. ASSUME NEW c \in Caller, Authorize(c) \/ Add(c) PROVE LimitKept'
  <2> DEFINE t == job[c].tenant
  <2>1. t \in Tenant /\ Exists(t)
    BY <1>4, RunningCall, JobFields
    DEF Authorize, Add, Permits, Addable, ValidFor, Running, TransactionInv
  <2>2. sessions[t] \in SessionRow
    BY <2>1, RowIfExists
  <2>3. CASE sessions' = sessions
    BY <1>2, <1>4, <2>3 DEF Authorize, Add
  <2> HIDE DEF t
  <2>4. ASSUME NEW n \in Nat, sessions' = [sessions EXCEPT ![t].uses = n]
                           \/ sessions' = [sessions EXCEPT ![t].version = n]
        PROVE  LimitKept'
    <3>1. sessions \in [Tenant -> SessionRow \cup {None}]
      BY DEF TransactionInv, CockroachTypeOK
    <3>2. /\ sessions'[t].created = sessions[t].created
          /\ \A u \in Tenant : u # t => sessions'[u] = sessions[u]
      BY <2>1, <2>2, <2>4, <3>1 DEF SessionRow
    <3>3. hourly' = hourly
      BY <1>4 DEF Authorize, Add
    <3> QED
      BY <1>1, <2>1, <3>2, <3>3 DEF Exists
  <2>5. CASE Authorize(c) /\ sessions' # sessions
    <3>1. sessions[t].uses - 1 \in Nat
      BY <2>2, <2>5 DEF Authorize, Permits, SessionRow, t
    <3>2. sessions' = [sessions EXCEPT ![t].uses = sessions[t].uses - 1]
      BY <2>5 DEF Authorize, t
    <3> QED
      BY <2>4, <3>1, <3>2
  <2>6. CASE Add(c)
    <3>1. sessions[t].version + 1 \in Nat
      BY <2>2 DEF SessionRow
    <3>2. sessions' = [sessions EXCEPT ![t].version = sessions[t].version + 1]
      BY <2>6 DEF Add, t
    <3> QED
      BY <2>4, <3>1, <3>2
  <2> QED
    BY <1>4, <2>3, <2>5, <2>6
<1>5. ASSUME NEW c \in Caller, Proceed(c) \/ Break(c) PROVE LimitKept'
  <2>1. CASE Create(c)
    BY <2>1, CreateCounts
  <2>2. CASE ~ Create(c) /\ ~ Authorize(c) /\ ~ Add(c)
    BY <1>2, <1>5, <2>2
    DEF Proceed, Break, Answered, Connect, PoolTimeout, Retry, Conflict, CreateRefused,
        AuthorizeRefused, AddRefused, Recall, RecallRefused, Save, SaveRefused, Attach,
        AttachReceiptArchive, storeVars
  <2> QED
    BY <1>4, <2>1, <2>2
<1>6. CASE Environment
  BY <1>1, <1>6 DEF Environment, Tick, Reap, TransactionInv, CockroachTypeOK, Exists
<1>7. CASE UNCHANGED vars
  BY <1>2, <1>7 DEF vars
<1> QED
  BY <1>3, <1>5, <1>6, <1>7 DEF Next

\* However creations overlap, fail and are retried across the end of a window, no
\* window has more sessions than the limit (create_session).
THEOREM LimitCorrect == Spec => []SessionsWithinLimit
<1>1. Init => LimitKept
  <2>1. ASSUME Init, NEW w \in Windows
        PROVE  CreatedIn(w) = {} /\ hourly[w] = 0
    BY <2>1 DEF Init, StoreInit, CreatedIn, Exists
  <2>2. IsFiniteSet({}) /\ Cardinality({}) = 0
    BY FS_EmptySet
  <2> QED
    BY <2>1, <2>2, StoreAssumption DEF LimitKept
<1>2. TransactionInv /\ LimitKept /\ [Next]_vars => LimitKept'
  BY LimitStep
<1>3. LimitKept => SessionsWithinLimit
  BY DEF LimitKept, SessionsWithinLimit, CreatedIn
<1> QED
  BY <1>1, <1>2, <1>3, TransactionsCorrect, PTL DEF Spec

=============================================================================

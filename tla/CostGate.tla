------------------------------ MODULE CostGate ------------------------------
(***************************************************************************)
(* scripts/verify_zero_cost_cloud.py: four commands, run one after another *)
(* with a timeout, whose JSON answers decide whether a deployment stays    *)
(* free.  What the clouds really are is `cloud'; it goes on changing while *)
(* the commands run.  A command answers with a rendering of it, in one of  *)
(* the shapes the script looks for, and possibly malformed.                *)
(***************************************************************************)
EXTENDS Integers, Sequences

CONSTANTS
    Account,       \* AWS accounts
    ClusterName,   \* the cluster asked for
    MaxUnits,      \* MAX_REQUEST_UNITS
    GiB,           \* MiB in a GiB; MAX_STORAGE_MIB is one GiB
    Lifetime,      \* the days that must be left, in clock units
    Timeout,       \* the longest a command may take
    Shapes,        \* where a document has its fields: of a word the path, of a limit which one
    MaxChanges     \* bound: changes of the clouds while the script runs

ASSUME CostGateAssumption ==
    /\ {MaxUnits, GiB, Timeout} \subseteq Nat \ {0}
    /\ {Lifetime, MaxChanges} \subseteq Nat
    /\ Account # {} /\ "missing" \notin Account
    /\ ClusterName # "missing"

VARIABLES
    now,        \* the clock
    cloud,      \* what the clouds are
    changes,    \* changes so far
    selection,  \* which of the two clouds to verify
    step,       \* the command under way, or the outcome
    elapsed,    \* how long it has been under way
    answer,     \* the answer to the command before, kept for validation
    seen,       \* history: per command answered, what was the case then
    faulted,    \* history: a command failed, or an answer was malformed
    misread     \* history: the invoices were malformed in a way the script cannot tell

vars == <<now, cloud, changes, selection, step, elapsed, answer, seen, faulted, misread>>

-----------------------------------------------------------------------------
(* Answers *)

\* An amount is a JSON number, or a string that parses as one; or a boolean, which
\* float() takes for 0 or 1, not a finite number, or no number at all, as a field that
\* is not there.
Number(n) == [kind |-> "number", n |-> n]
Text(n)   == [kind |-> "text", n |-> n]
Flag(n)   == [kind |-> "flag", n |-> n]
NaN       == [kind |-> "nan", n |-> 0]
Absent    == [kind |-> "absent", n |-> 0]

Missing == "missing"

\* float() takes it, and the result is finite.
IsFinite(v) == v.kind \in {"number", "text", "flag"}

\* Mutant: a boolean is a number to float().
PositiveOrFlag(v) == IsFinite(v) /\ v.n > 0

\* _as_positive_float does not raise; booleans it refuses by name.
Positive(v) == IsFinite(v) /\ v.kind # "flag" /\ v.n > 0

\* A document is a function of the paths present in it.
Nested(document, paths, none) ==
    LET present == {i \in DOMAIN paths : paths[i] \in DOMAIN document}
        first == CHOOSE i \in present : \A j \in present : i <= j
    IN  IF present = {} THEN none ELSE document[paths[first]]

\* The paths of a limit, from the deepest to the flat, snake case before camel.
LimitPaths(limit) == [i \in 1 .. 8 |-> <<limit, i>>]

PlanPaths == <<"plan", "plan_type", "planType", "cluster.plan">>
StatePaths == <<"state", "cluster.state">>
CloudPaths == <<"cloud", "provider", "cloud_provider", "cloudProvider", "cluster.cloud">>
NamePaths == <<"name", "cluster.name">>

ASSUME ShapeAssumption ==
    Shapes \subseteq
        [name  : {NamePaths[i] : i \in DOMAIN NamePaths},
         plan  : {PlanPaths[i] : i \in DOMAIN PlanPaths},
         state : {StatePaths[i] : i \in DOMAIN StatePaths},
         cloud : {CloudPaths[i] : i \in DOMAIN CloudPaths},
         limit : 1 .. 8]

-----------------------------------------------------------------------------
(* Validation *)

\* Mutant: accounts that are both missing are the same.
PlanAcceptedUnbound(plan, account) ==
    /\ plan.type = "FREE" /\ plan.status = "ACTIVE"
    /\ plan.account = account
    /\ plan.unit = "USD" /\ Positive(plan.credits)
    /\ plan.expires.kind = "number"
    /\ plan.expires.n > now + Lifetime

PlanAccepted(plan, account) ==
    /\ plan.type = "FREE" /\ plan.status = "ACTIVE"
    /\ plan.account # Missing /\ account # Missing
    /\ plan.account = account
    /\ plan.unit = "USD" /\ Positive(plan.credits)
    /\ plan.expires.kind = "number"
    /\ plan.expires.n > now + Lifetime

\* Mutant: a limit in GiB is not looked for.
StorageLimitInMib(limits) == Nested(limits, LimitPaths("storage_mib"), Absent)

\* In MiB, or in GiB where no limit in MiB is stated.
StorageLimit(limits) ==
    LET mib == Nested(limits, LimitPaths("storage_mib"), Absent)
        gib == Nested(limits, LimitPaths("storage_gib"), Absent)
    IN  IF mib # Absent THEN mib ELSE [gib EXCEPT !.n = @ * GiB]

ClusterAccepted(cluster) ==
    LET units == Nested(cluster.limits, LimitPaths("request_unit"), Absent)
    IN  /\ Nested(cluster.words, NamePaths, Missing) = ClusterName
        /\ Nested(cluster.words, PlanPaths, Missing) \in {"BASIC", "PLAN_BASIC", "PLAN_SERVERLESS"}
        /\ Nested(cluster.words, StatePaths, Missing) \in {"CREATED", "READY", "CLUSTER_STATE_CREATED"}
        /\ Nested(cluster.words, CloudPaths, Missing) \in {"AWS", "CLOUD_PROVIDER_AWS"}
        /\ Positive(units) /\ units.n <= MaxUnits
        /\ Positive(StorageLimit(cluster.limits)) /\ StorageLimit(cluster.limits).n <= GiB

Drafts(invoices) == {i \in DOMAIN invoices : invoices[i].status = "DRAFT"}

TrialCreditVerified(adjustments) ==
    \E i \in DOMAIN adjustments :
        /\ adjustments[i].name = "Free trial credits"
        /\ adjustments[i].currency = "USD"
        /\ IsFinite(adjustments[i].amount)
        /\ adjustments[i].amount.n < 0

CurrentAccepted(draft) ==
    /\ draft.start.kind = "number" /\ draft.end.kind = "number"
    /\ draft.start.n <= now
    /\ draft.end.n > now + Lifetime
    /\ Len(draft.totals) = 1
    /\ draft.totals[1].currency = "USD"
    /\ IsFinite(draft.totals[1].amount) /\ draft.totals[1].amount.n = 0
    /\ draft.balances = <<>>
    /\ TrialCreditVerified(draft.adjustments)

InvoiceAccepted(invoices) ==
    \E i \in DOMAIN invoices : Drafts(invoices) = {i} /\ CurrentAccepted(invoices[i])

-----------------------------------------------------------------------------
(* What the clouds are, and how a command renders it *)

Either(n) == {Number(n), Text(n)}

Damages == {Absent, NaN, Flag(0), Flag(1)}

PlanAnswers(c) ==
    {[type |-> c.type, status |-> c.status, account |-> c.account, unit |-> "USD",
      credits |-> credits, expires |-> Number(c.expires)] : credits \in Either(c.credits)}

DamagedPlans(c) ==
    UNION {{[a EXCEPT ![word] = Missing] : word \in {"type", "status", "account", "unit"}}
             \cup {[a EXCEPT !.credits = v] : v \in Damages}
             \cup {[a EXCEPT !.expires = Absent]} : a \in PlanAnswers(c)}

Words(c, shape) ==
    [path \in {shape.name, shape.plan, shape.state, shape.cloud} |->
        CASE path = shape.name  -> c.name
          [] path = shape.plan  -> c.plan
          [] path = shape.state -> c.state
          [] path = shape.cloud -> c.provider]

\* The storage limit is stated in MiB, or in GiB where that is exact.
Limits(c, shape, unit) ==
    [path \in {<<"request_unit", shape.limit>>, <<unit, shape.limit>>} |->
        CASE path[1] = "request_unit" -> Text(c.units)
          [] path[1] = "storage_mib"  -> Text(c.storage)
          [] path[1] = "storage_gib"  -> Number(c.storage \div GiB)]

ClusterAnswers(c) ==
    {[words |-> Words(c, shape), limits |-> Limits(c, shape, unit)] :
        shape \in Shapes,
        unit \in {"storage_mib"} \cup (IF c.storage % GiB = 0 THEN {"storage_gib"} ELSE {})}

DamagedClusters(c) ==
    UNION {{[a EXCEPT !.words = [p \in DOMAIN a.words \ {lost} |-> a.words[p]]] :
                lost \in DOMAIN a.words}
             \cup {[a EXCEPT !.limits[p] = v] : p \in DOMAIN a.limits, v \in Damages} :
           a \in ClusterAnswers(c)}

Invoice(c, status) ==
    [status |-> status, start |-> Number(c.start), end |-> Number(c.end),
     totals |-> <<[currency |-> "USD", amount |-> Number(c.total)]>>,
     balances |-> IF c.balance = 0 THEN <<>> ELSE <<Number(c.balance)>>,
     adjustments |-> [i \in DOMAIN c.trials |->
         [name |-> "Free trial credits", currency |-> "USD", amount |-> Number(c.trials[i])]]]

InvoiceAnswers(c) ==
    {[i \in 1 .. c.drafts + 1 |-> Invoice(c, IF i = 1 THEN "FINALIZED" ELSE "DRAFT")]}

DamagedInvoice(d) ==
    {[d EXCEPT !.status = Missing], [d EXCEPT !.start = Absent], [d EXCEPT !.end = Absent],
     [d EXCEPT !.totals = <<>>], [d EXCEPT !.balances = <<Absent>>],
     [d EXCEPT !.adjustments = <<>>]}
    \cup {[d EXCEPT !.totals[1].amount = v] : v \in Damages}
    \cup {[d EXCEPT !.adjustments[i].amount = v] : i \in DOMAIN d.adjustments, v \in Damages}

\* Any one of the documents is damaged.
DamagedInvoices(c) ==
    UNION {{[a EXCEPT ![i] = d] : d \in DamagedInvoice(a[i])} :
           a \in InvoiceAnswers(c), i \in 1 .. c.drafts + 1}

\* The damages that look sound: a draft's total that is a boolean, false being 0 to
\* float(), or a draft that, without its status, is no draft, and leaves another alone.
Misread(invoices, c) ==
    \E i \in 2 .. c.drafts + 1 :
        \/ invoices[i].totals # <<>> /\ invoices[i].totals[1].amount = Flag(0)
        \/ c.drafts > 1 /\ invoices[i].status = Missing

-----------------------------------------------------------------------------
(* The script *)

Commands == {"plan", "identity", "cluster", "invoices"}

FirstOf(chosen) == IF chosen = "cockroach" THEN "cluster" ELSE "plan"

AfterAws == IF selection = "aws" THEN "verified" ELSE "cluster"

Nothing == [free |-> FALSE, until |-> 0, account |-> Missing]

Free ==
    [type |-> "FREE", status |-> "ACTIVE", account |-> CHOOSE a \in Account : TRUE,
     credits |-> 1, expires |-> Lifetime + 4 * Timeout, name |-> ClusterName,
     plan |-> "BASIC", state |-> "CREATED", provider |-> "AWS", units |-> MaxUnits,
     storage |-> GiB, drafts |-> 1, start |-> 0, end |-> Lifetime + 4 * Timeout,
     total |-> 0, balance |-> 0, trials |-> <<-1>>]

Init ==
    /\ now = 0
    /\ cloud = Free
    /\ changes = 0
    /\ selection \in {"both", "aws", "cockroach"}
    /\ step = FirstOf(selection)
    /\ elapsed = 0
    /\ answer = <<>>
    /\ seen = [c \in Commands |-> Nothing]
    /\ faulted = FALSE
    /\ misread = FALSE

\* A change of the clouds; of the credentials too, when it is the account.
Alternatives ==
    [type |-> {"PAID"}, status |-> {"EXPIRED"}, account |-> Account, credits |-> {0},
     expires |-> {Lifetime + 1, Lifetime + Timeout}, name |-> {"another"},
     plan |-> {"STANDARD"}, state |-> {"CREATING"}, provider |-> {"GCP"},
     units |-> {MaxUnits + 1}, storage |-> {GiB + 1, 2 * GiB}, drafts |-> {0, 2},
     start |-> {Timeout}, end |-> {Lifetime + 2 * Timeout, Lifetime + 3 * Timeout},
     total |-> {1}, balance |-> {1}, trials |-> {<<>>, <<1>>, <<1, -1>>}]

Running == step \in Commands

Change ==
    /\ Running
    /\ changes < MaxChanges
    /\ changes' = changes + 1
    /\ \E f \in DOMAIN Alternatives : \E v \in Alternatives[f] : cloud' = [cloud EXCEPT ![f] = v]
    /\ UNCHANGED <<now, selection, step, elapsed, answer, seen, faulted, misread>>

Tick ==
    /\ Running
    /\ elapsed < Timeout
    /\ now' = now + 1
    /\ elapsed' = elapsed + 1
    /\ UNCHANGED <<cloud, changes, selection, step, answer, seen, faulted, misread>>

\* A command answers: its answer is kept, or the outcome is known.
Answered(command, next, kept, free, until, damaged) ==
    /\ step = command
    /\ step' = next
    /\ elapsed' = 0
    /\ answer' = kept
    /\ seen' = [seen EXCEPT ![command] =
                    [free |-> free, until |-> until, account |-> cloud.account]]
    /\ faulted' = (faulted \/ damaged)
    /\ UNCHANGED <<now, cloud, changes, selection>>

FreePlan(c) == c.type = "FREE" /\ c.status = "ACTIVE" /\ c.credits > 0

FreeCluster(c) ==
    /\ c.name = ClusterName /\ c.plan = "BASIC" /\ c.state = "CREATED" /\ c.provider = "AWS"
    /\ c.units <= MaxUnits /\ c.storage <= GiB

FreeInvoice(c) ==
    /\ c.drafts = 1 /\ c.start <= now
    /\ c.total = 0 /\ c.balance = 0
    /\ \E i \in DOMAIN c.trials : c.trials[i] < 0

AskPlan ==
    \E damaged \in BOOLEAN :
        \E a \in IF damaged THEN DamagedPlans(cloud) ELSE PlanAnswers(cloud) :
            /\ Answered("plan", "identity", a, FreePlan(cloud), cloud.expires, damaged)
            /\ UNCHANGED misread

AskIdentity ==
    \E damaged \in BOOLEAN :
        LET account == IF damaged THEN Missing ELSE cloud.account
        IN  /\ Answered("identity",
                        IF PlanAccepted(answer, account) THEN AfterAws ELSE "rejected",
                        <<>>, TRUE, 0, damaged)
            /\ UNCHANGED misread

AskCluster ==
    \E damaged \in BOOLEAN :
        \E a \in IF damaged THEN DamagedClusters(cloud) ELSE ClusterAnswers(cloud) :
            /\ Answered("cluster", "invoices", a, FreeCluster(cloud), 0, damaged)
            /\ UNCHANGED misread

\* Of the last answer only the verdict is kept.
AskInvoices ==
    \E damaged \in BOOLEAN :
        \E verdict \in {[accepted |-> InvoiceAccepted(a), misread |-> damaged /\ Misread(a, cloud)] :
                        a \in IF damaged THEN DamagedInvoices(cloud) ELSE InvoiceAnswers(cloud)} :
            /\ Answered("invoices",
                        IF ClusterAccepted(answer) /\ verdict.accepted THEN "verified"
                                                                      ELSE "rejected",
                        <<>>, FreeInvoice(cloud), cloud.end, damaged)
            /\ misread' = verdict.misread

Rejects ==
    /\ step' = "rejected"
    /\ answer' = <<>>
    /\ faulted' = TRUE
    /\ UNCHANGED <<now, cloud, changes, selection, elapsed, seen, misread>>

\* It exits with an error, or prints what is not a JSON document of the kind expected.
CommandFails == Running /\ Rejects

\* Mutant: a timeout that is not handled.
TimesOutUnbounded == Running /\ elapsed > Timeout /\ Rejects

TimesOut == Running /\ elapsed = Timeout /\ Rejects

Ask == AskPlan \/ AskIdentity \/ AskCluster \/ AskInvoices

Next == Ask \/ CommandFails \/ TimesOut \/ Change \/ Tick

Spec == Init /\ [][Next]_vars

\* Time passes, and subprocess.run ends a command that has taken too long.
FairSpec == Spec /\ WF_vars(Tick) /\ WF_vars(TimesOut)

-----------------------------------------------------------------------------
(* Properties *)

Asked(command) == seen[command] # Nothing

\* What is verified was free when each command looked, is of one AWS account, and
\* lasts: the plan was compared before the two commands of the other cloud, so it may
\* have lost their time of the days promised (main).  The plan and the cluster were
\* free however their answers were malformed; the invoices were, unless they were
\* malformed in one of the two ways that look sound.
VerifiedIsFree ==
    step = "verified" =>
        /\ selection # "cockroach" =>
            /\ seen["plan"].free
            /\ seen["plan"].account = seen["identity"].account
            /\ seen["plan"].until + 2 * Timeout > now + Lifetime
        /\ selection # "aws" =>
            /\ seen["cluster"].free
            /\ seen["invoices"].free \/ misread
            /\ seen["invoices"].until > now + Lifetime

\* docs/security.md:63 and README.md:179-183: what is verified has one current draft
\* invoice, of exactly USD 0, under an applied credit (verify_zero_cost_cloud.py says of
\* itself that it is fail-closed, line 279).
VerifiedOwesNothing ==
    step = "verified" /\ selection # "aws" => seen["invoices"].free

\* Nothing is rejected without cause, whichever of its shapes an answer has: a command
\* failed, an answer was malformed, or something asked about was not free for long
\* enough.
RejectedForCause ==
    step = "rejected" =>
        \/ faulted
        \/ \E c \in {"plan", "cluster", "invoices"} : Asked(c) /\ ~ seen[c].free
        \/ Asked("identity") /\ seen["plan"].account # seen["identity"].account
        \/ \E c \in {"plan", "invoices"} : Asked(c) /\ seen[c].until <= now + Lifetime

-----------------------------------------------------------------------------
(* Between one command and the next *)

Cloud ==
    [type : {"FREE", "PAID"}, status : {"ACTIVE", "EXPIRED"}, account : Account,
     credits : Nat, expires : Nat, name : {ClusterName, "another"}, plan : {"BASIC", "STANDARD"},
     state : {"CREATED", "CREATING"}, provider : {"AWS", "GCP"}, units : Nat \ {0},
     storage : Nat \ {0}, drafts : Nat, start : Nat, end : Nat, total : Nat,
     balance : Nat, trials : Seq(Int)]

GateTypeOK ==
    /\ now \in Nat
    /\ cloud \in Cloud
    /\ changes \in Nat
    /\ selection \in {"both", "aws", "cockroach"}
    /\ step \in Commands \cup {"verified", "rejected"}
    /\ elapsed \in 0 .. Timeout
    /\ seen \in [Commands -> [free : BOOLEAN, until : Nat, account : Account \cup {Missing}]]
    /\ faulted \in BOOLEAN
    /\ misread \in BOOLEAN

\* The plan's answer agrees with what was the case when it was given, as far as it is
\* not damaged; and where it is, nothing accepts it.
PlanKept ==
    LET plan == seen["plan"]
    IN  /\ plan.account \in Account
        /\ answer.expires.kind = "number" => answer.expires.n = plan.until
        /\ \A account \in Account \cup {Missing} :
              PlanAccepted(answer, account) => plan.free /\ plan.account = account
        /\ ~ faulted =>
              /\ answer.account = plan.account /\ answer.expires.kind = "number"
              /\ plan.free => /\ answer.type = "FREE" /\ answer.status = "ACTIVE"
                              /\ answer.unit = "USD" /\ Positive(answer.credits)

ClusterKept ==
    /\ seen["cluster"].account \in Account
    /\ ClusterAccepted(answer) => seen["cluster"].free
    /\ ~ faulted /\ seen["cluster"].free => ClusterAccepted(answer)

\* The plan was accepted, as long ago as the commands since then may have taken.
PlanStands(lag) ==
    /\ seen["plan"].free
    /\ seen["plan"].account = seen["identity"].account
    /\ seen["plan"].until + lag > (now - elapsed) + Lifetime

\* What is kept of an answer until the next command is answered still fits what was
\* seen, and what was accepted lasts for as long as the commands may take (main).
GateInv ==
    /\ GateTypeOK
    /\ step \in {"plan", "identity"} => selection # "cockroach"
    /\ step = "identity" => PlanKept
    /\ step \in {"cluster", "invoices"} =>
        /\ selection # "aws"
        /\ selection # "cockroach" => PlanStands(IF step = "invoices" THEN Timeout ELSE 0)
    /\ step = "invoices" => ClusterKept

\* The script ends, though a command may never answer (subprocess.run's timeout).
GateEnds == <>(step \in {"verified", "rejected"})

=============================================================================

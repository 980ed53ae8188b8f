----------------------------- MODULE ReplayPage -----------------------------
(***************************************************************************)
(* The page of frontend/app.js: creating a session and running the replay, *)
(* each a chain of requests, one at a time.  What answers them is another  *)
(* module's: the service, or the fixture of the browser-only build.  A     *)
(* request to the service may be answered, refused, or lost on the way,    *)
(* and one the page has given up on may still be served later.             *)
(***************************************************************************)
EXTENDS LeaseStore

CONSTANTS
    BrowserSkew,    \* clock of the browser, relative to the service's
    Pause,          \* delay between the revocation and the evaluation
    MaxClicks,      \* bound: times a button is clicked, the page's loading included
    PermissionTopic, AudienceTopic, Publish   \* the replay's texts

ASSUME PageAssumption ==
    /\ MaxClicks \in Nat \ {0}
    /\ BrowserSkew \in Int /\ Pause \in Nat
    /\ {PermissionTopic, AudienceTopic} \subseteq Topic
    /\ Publish \in Query
    /\ Tenant = 1 .. MaxClicks      \* a creation's tenant is named after its click
    /\ ReceiptId = 1 .. MaxClicks   \* and an evaluation's receipt after its own

VARIABLES
    static,    \* whether the page is the browser-only build
    step,      \* what the page is doing; "idle" is ~ running, when the buttons work
    label,     \* the run state it last came to rest with
    session,   \* the tenant of the session it holds, or None
    shown,     \* the receipt on display, or None
    held,      \* the receipt received and not yet displayed, or None
    since,     \* when the pause began, or None
    clicks,    \* buttons clicked so far
    answer,    \* the answer to the request it awaits, or None
    net        \* requests sent, and neither served nor lost

pageVars == <<static, step, label, session, shown, held, since, clicks, answer, net>>

-----------------------------------------------------------------------------
Awaiting == {"creating", "loading", "revoking", "evaluating", "reading"}

Labels == {"none", "Ready", "Replay verified", "Review required", "Failed"}

Requests == [click : 1 .. MaxClicks, for : Awaiting, tenant : Tenant, from : Time]

Answers == [to : Requests, ok : BOOLEAN, receipt : ActionReceipt \cup {None}]

PageTypeOK ==
    /\ static \in BOOLEAN
    /\ step \in {"idle", "pausing"} \cup Awaiting
    /\ label \in Labels
    /\ session \in Tenant \cup {None}
    /\ {shown, held} \subseteq ActionReceipt \cup {None}
    /\ since \in (0 .. MaxTime) \cup {None}
    /\ clicks \in 1 .. MaxClicks
    /\ answer \in Answers \cup {None}
    /\ net \subseteq Requests

\* The browser's clock dates the revocation.
Request(n, for, t) == [click |-> n, for |-> for, tenant |-> t, from |-> now + BrowserSkew]

\* Loading the page creates a session.
PageInit ==
    /\ static \in BOOLEAN
    /\ step = "creating"
    /\ label = "none"
    /\ session = None /\ shown = None /\ held = None /\ since = None
    /\ clicks = 1
    /\ answer = None
    /\ net = {Request(1, "creating", 1)}

\* Mutant: an answer is taken for whichever request like it is awaited.
AnswerToAny(r, ok, receipt) ==
    /\ r \in net
    /\ net' = net \ {r}
    /\ answer' = IF r.for = step
                 THEN [to |-> r, ok |-> ok, receipt |-> receipt] ELSE answer
    /\ UNCHANGED <<static, step, label, session, shown, held, since, clicks>>

\* The answer reaches the page only if the page still waits for it.
Answer(r, ok, receipt) ==
    /\ r \in net
    /\ net' = net \ {r}
    /\ answer' = IF r.click = clicks /\ r.for = step
                 THEN [to |-> r, ok |-> ok, receipt |-> receipt] ELSE answer
    /\ UNCHANGED <<static, step, label, session, shown, held, since, clicks>>

\* The request never arrives.
Lose(r) ==
    /\ r \in net
    /\ net' = net \ {r}
    /\ UNCHANGED <<static, step, label, session, shown, held, since, clicks, answer>>

-----------------------------------------------------------------------------
\* A click, on a button that is not disabled.
Clicks(for, t) ==
    /\ step = "idle"
    /\ clicks < MaxClicks
    /\ clicks' = clicks + 1
    /\ step' = for
    /\ net' = net \cup {Request(clicks + 1, for, t)}
    /\ UNCHANGED <<static, label, session, held, since, answer>>

Wiped == shown' = None

Displays(receipt) == shown' = receipt

\* Mutant: the display is not reset.
ResetKeepsDisplay ==
    /\ Clicks("creating", clicks + 1)
    /\ UNCHANGED shown

\* createSession, from the button: what was displayed is wiped at once.
Reset ==
    /\ Clicks("creating", clicks + 1)
    /\ Wiped

Run ==
    /\ session # None
    /\ Clicks("revoking", session)
    /\ UNCHANGED shown

Succeeded(for) == step = for /\ answer # None /\ answer.ok

Sends(for, t) ==
    /\ step' = for
    /\ net' = net \cup {Request(clicks, for, t)}
    /\ answer' = None

Rests(text) ==
    /\ step' = "idle"
    /\ label' = text
    /\ held' = None /\ since' = None /\ answer' = None
    /\ UNCHANGED <<static, clicks, net>>

Created ==
    /\ Succeeded("creating")
    /\ session' = answer.to.tenant
    /\ Sends("loading", answer.to.tenant)
    /\ UNCHANGED <<static, label, shown, held, since, clicks>>

Loaded ==
    /\ Succeeded("loading")
    /\ Rests("Ready")
    /\ UNCHANGED <<session, shown>>

\* Mutant: the request that revokes is not awaited.
RevokedUnawaited ==
    /\ step = "revoking"
    /\ step' = "pausing"
    /\ since' = now
    /\ answer' = None
    /\ UNCHANGED <<static, label, session, shown, held, clicks, net>>

Revoked ==
    /\ Succeeded("revoking")
    /\ step' = "pausing"
    /\ since' = now
    /\ answer' = None
    /\ UNCHANGED <<static, label, session, shown, held, clicks, net>>

\* The timer fires no sooner than set (unless the bounded clock has stopped).
Restarted ==
    /\ step = "pausing"
    /\ now >= since + Pause \/ now = MaxTime
    /\ Sends("evaluating", session)
    /\ since' = None
    /\ UNCHANGED <<static, label, session, shown, held, clicks>>

Evaluated ==
    /\ Succeeded("evaluating")
    /\ held' = answer.receipt
    /\ Sends("reading", session)
    /\ UNCHANGED <<static, label, session, shown, since, clicks>>

Rendered ==
    /\ Succeeded("reading")
    /\ Displays(held)
    /\ Rests(IF held.decision = "deny" THEN "Replay verified" ELSE "Review required")
    /\ UNCHANGED session

\* The request is refused, or its fetch rejects; the fixture always answers.
GivesUp ==
    /\ step \in Awaiting
    /\ ~ Succeeded(step)
    /\ static => answer # None

\* Mutant: an error leaves the page busy.
FailedBusy ==
    /\ step \in Awaiting
    /\ answer # None /\ ~ answer.ok
    /\ label' = "Failed"
    /\ UNCHANGED <<static, step, session, shown, held, since, clicks, answer, net>>

\* Mutant: the run state stays what it was.
FailedQuietly ==
    /\ GivesUp
    /\ Rests(label)
    /\ UNCHANGED <<session, shown>>

\* A session created is kept.
Failed ==
    /\ GivesUp
    /\ Rests("Failed")
    /\ UNCHANGED <<session, shown>>

-----------------------------------------------------------------------------
Page ==
    \/ Created \/ Loaded \/ Revoked \/ Restarted \/ Evaluated \/ Rendered \/ Failed

Click == Reset \/ Run

=============================================================================

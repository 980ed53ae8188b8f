---------------------------- MODULE ReplayClient ----------------------------
(***************************************************************************)
(* The page of frontend/app.js with what answers it: the service, over the *)
(* store, or the fixture of the browser-only build.  A request may be      *)
(* refused, lost, or served after the page gave up, and its handler may    *)
(* fail after some of its calls; those that it made are one step here,     *)
(* since nobody else writes to the session, or knows of it before it is    *)
(* answered.  The fixture's requests are calls within the page.            *)
(***************************************************************************)
EXTENDS StaticReplay

CONSTANTS
    TTL,         \* lifetime of a session
    UseLimit     \* budget of a session

ASSUME SessionAssumption == {TTL, UseLimit} \subseteq Nat \ {0}

vars == <<now, sessions, memories, receipts, hourly, fixture,
          static, step, label, session, shown, held, since, clicks, answer, net>>

ASSUME ReplayAbsence == None \notin MemoryId \cup ActionReceipt \cup Answers \cup Fixture

ReplayTypeOK == StoreTypeOK /\ PageTypeOK /\ FixtureTypeOK

Init == StoreInit /\ PageInit /\ FixtureInit

-----------------------------------------------------------------------------
(* The service *)

InitialMemories ==
    <<[effect |-> "allow", topic |-> PermissionTopic, from |-> now, until |-> now + TTL,
       status |-> "active", supersedes |-> None, created |-> now],
      [effect |-> "context", topic |-> AudienceTopic, from |-> now, until |-> None,
       status |-> "active", supersedes |-> None, created |-> now]>>

\* The session, with the first n of its memories.
Opens(r, n) ==
    /\ r.for = "creating"
    /\ hourly[Window] < HourlyLimit
    /\ CountAttempt
    /\ sessions' = [sessions EXCEPT ![r.tenant] =
            [token |-> r.tenant, expires |-> now + TTL, uses |-> UseLimit, version |-> n]]
    /\ memories' = [memories EXCEPT ![r.tenant] = SubSeq(InitialMemories, 1, n)]
    /\ UNCHANGED <<now, receipts>>

ServeCreate(r) == Opens(r, 2) /\ Answer(r, TRUE, None)

\* One of the calls raises: the session is opened, with no memory, or one, or, if it
\* is an answer that was lost, both, and nobody is told of it.
FailCreate(r) == (\E n \in 0 .. 2 : Opens(r, n)) /\ Answer(r, FALSE, None)

RefuseCreate(r) ==
    /\ r.for = "creating"
    /\ RefuseSession
    /\ Answer(r, FALSE, None)

Spent(t) == [sessions EXCEPT ![t].uses = @ - 1]

RefuseCall(r) ==
    /\ r.for # "creating"
    /\ ~ Authorized(r.tenant, r.tenant, TRUE)
    /\ Answer(r, FALSE, None)
    /\ UNCHANGED storeVars

ServeState(r) ==
    /\ r.for \in {"loading", "reading"}
    /\ Authorized(r.tenant, r.tenant, TRUE)
    /\ sessions' = Spent(r.tenant)
    /\ Answer(r, TRUE, None)
    /\ UNCHANGED <<now, memories, receipts, hourly>>

Revocation(r) ==
    [effect |-> "deny", topic |-> PermissionTopic, from |-> r.from, until |-> None,
     supersedes |-> <<r.tenant, 1>>]

ServeAdd(r) ==
    /\ r.for = "revoking"
    /\ Authorized(r.tenant, r.tenant, TRUE)
    /\ AddAccepted(r.tenant, Revocation(r))
    /\ sessions' = [Spent(r.tenant) EXCEPT ![r.tenant].version = @ + 1]
    /\ memories' = [memories EXCEPT ![r.tenant] =
            Append(WithSuperseded(@, Revocation(r)), NewMemoryRecord(Revocation(r)))]
    /\ Answer(r, TRUE, None)
    /\ UNCHANGED <<now, receipts, hourly>>

\* A call after the authorization raises, as it must for a permission superseded
\* already: the use is spent all the same.
FailCall(r) ==
    /\ r.for # "creating"
    /\ Authorized(r.tenant, r.tenant, TRUE)
    /\ sessions' = Spent(r.tenant)
    /\ Answer(r, FALSE, None)
    /\ UNCHANGED <<now, memories, receipts, hourly>>

Verdict(r) ==
    LET found == RecallActive(r.tenant, Publish)
    IN  [id |-> r.click, tenant |-> r.tenant, query |-> Publish, decision |-> found.decision,
         evidence |-> found.evidence, created |-> now, archived |-> FALSE]

ServeEvaluate(r) ==
    /\ r.for = "evaluating"
    /\ Authorized(r.tenant, r.tenant, TRUE)
    /\ sessions' = Spent(r.tenant)
    /\ receipts' = [receipts EXCEPT ![r.tenant] = Append(@, Verdict(r))]
    /\ Answer(r, TRUE, Verdict(r))
    /\ UNCHANGED <<now, memories, hourly>>

-----------------------------------------------------------------------------
Serve(r) ==
    \/ ServeCreate(r) \/ FailCreate(r) \/ RefuseCreate(r)
    \/ RefuseCall(r) \/ FailCall(r)
    \/ ServeState(r) \/ ServeAdd(r) \/ ServeEvaluate(r)

FromService ==
    /\ ~ static
    /\ \E r \in net : Serve(r) \/ (Lose(r) /\ UNCHANGED storeVars)
    /\ UNCHANGED fixture

FromFixture ==
    /\ static
    /\ \E r \in net : FixtureServe(r)
    /\ UNCHANGED storeVars

OnPage == Page /\ UNCHANGED <<storeVars, fixture>>

Clicked == Click /\ UNCHANGED <<storeVars, fixture>>

Clock == Tick /\ UNCHANGED <<pageVars, fixture>>

Expiry == \E t \in Tenant : Reap(t) /\ UNCHANGED <<pageVars, fixture>>

Next == OnPage \/ Clicked \/ FromService \/ FromFixture \/ Clock \/ Expiry

Spec == Init /\ [][Next]_vars

\* A fetch is answered or rejects, a call of the fixture settles, the timer
\* fires, and time passes.
FairSpec == Spec /\ WF_vars(OnPage) /\ WF_vars(FromFixture) /\ WF_vars(Clock)

-----------------------------------------------------------------------------
(* The state between a request and its answer, and between clicks *)

\* What the backend holds for the page's session.
KeptMemories == IF static THEN fixture.memories ELSE memories[session]

KeptReceipts == IF static THEN fixture.receipts ELSE receipts[session]

Denials(ms) == {i \in DOMAIN ms : ms[i].effect = "deny"}

\* A click has one request at a time under way, and no more of the page's than the
\* one it awaits; what is served late never creates the session the page holds, or
\* one that another request is for.
RequestsInOrder ==
    /\ \A r, s \in net : r.click = s.click => r = s
    /\ \A r \in net :
        /\ r.tenant <= r.click /\ r.click <= clicks
        /\ r.for = "creating" =>
            /\ r.tenant = r.click /\ r.tenant # session
            /\ \A s \in net : s.for # "creating" => s.tenant # r.tenant
        /\ r.click = clicks /\ step # "idle" =>
            /\ answer = None /\ r.for = step
            /\ r.for # "creating" => r.tenant = session
        /\ static => r.click = clicks /\ step # "idle"
    /\ session # None => session <= clicks

\* A session's memories, in either build: a permission, a context fact, and if there
\* is a third, the denial that took the permission's place.
ReplayLedger(ms) ==
    /\ Len(ms) \in 0 .. 3
    /\ Len(ms) >= 1 => ms[1].effect = "allow"
    /\ Len(ms) >= 2 => ms[2].effect = "context"
    /\ Len(ms) = 3 =>
        ~ IsActive(ms[1]) /\ ms[3].effect = "deny" /\ ms[3].supersedes = 1

Whole(ms) == Len(ms) >= 2

\* A creation that failed half done is nobody's: the page never holds its session,
\* is told of it, or has a request under way for it.
SessionsWhole ==
    ~ static =>
        /\ session # None /\ Exists(session) => Whole(memories[session])
        /\ \A r \in net : r.for # "creating" /\ Exists(r.tenant) => Whole(memories[r.tenant])
        /\ step = "creating" /\ answer # None /\ answer.ok /\ Exists(clicks) =>
            Whole(memories[clicks])

\* The receipt is one of those kept, and cites a denial that took the place of the
\* permission.
Founded(receipt, ms, kept) ==
    /\ \E i \in DOMAIN kept : kept[i] = receipt
    /\ ~ IsActive(ms[1])
    /\ \E i \in receipt.evidence \cap Denials(ms) : ms[i].supersedes = 1

\* A denial shown, or about to be, is of the page's session, whose backend has
\* recorded it, unless its rows have expired.
Recorded(receipt) ==
    /\ receipt.tenant = session
    /\ receipt.decision = "deny" /\ (static \/ Exists(session)) =>
        Founded(receipt, KeptMemories, KeptReceipts)

AnswerFits ==
    answer # None =>
        /\ answer.to.click = clicks /\ answer.to.for = step
        /\ answer.to.tenant = IF step = "creating" THEN clicks ELSE session
        /\ step = "evaluating" /\ answer.ok => answer.receipt # None /\ Recorded(answer.receipt)

StepFits ==
    /\ step \notin {"idle", "creating"} => session # None
    /\ step \in {"creating", "loading"} => shown = None
    /\ shown # None => shown.tenant = session
    /\ step = "reading" => held # None /\ Recorded(held)
    /\ step = "idle" /\ label = "Replay verified" =>
        shown # None /\ shown.decision = "deny" /\ Recorded(shown)

FixtureFits ==
    static =>
        IF step = "creating" /\ answer # None /\ answer.ok
        THEN fixture # None /\ fixture.tenant = clicks
        ELSE session = IF fixture = None THEN None ELSE fixture.tenant

\* Whatever is under way, of this click or left by others, the page, the answer it
\* awaits and the backend agree on the session and on what is recorded for it
\* (createSession, runReplay).
ReplayInv ==
    /\ ReplayTypeOK
    /\ RequestsInOrder
    /\ AnswerFits
    /\ StepFits
    /\ FixtureFits
    /\ SessionsWhole
    /\ \A t \in Tenant : ReplayLedger(memories[t])
    /\ fixture # None => Whole(fixture.memories) /\ ReplayLedger(fixture.memories)

\* The bounded clock has stopped, perhaps before a pause was over that the browser's
\* date needed.
Cut == now = MaxTime /\ BrowserSkew > 0

\* A replay's denial, from when, and of the subject of the action.
Denying(ms, at) ==
    /\ Len(ms) = 3
    /\ IsActive(ms[3]) /\ ms[3].topic = PermissionTopic
    /\ ms[3].until = None /\ ms[3].from <= at

Blocks(receipt) == receipt.decision = "deny" \/ Cut

\* No revocation is dated later than the browser's clock.
Dated ==
    /\ \A r \in net : r.from <= now + BrowserSkew
    /\ \A t \in Tenant : Len(memories[t]) = 3 => Denying(memories[t], now + BrowserSkew)

\* The denial of the session that is being replayed: recorded before the pause, and
\* in force after it.
DenialInTime ==
    ~ static /\ session \in Tenant /\ Exists(session) =>
        /\ step = "revoking" /\ answer # None /\ answer.ok =>
            Denying(memories[session], now + BrowserSkew)
        /\ step = "pausing" => since <= now /\ Denying(memories[session], since + BrowserSkew)
        /\ step = "evaluating" => Cut \/ Denying(memories[session], now)

\* While the browser's clock is not ahead by more than the pause, every evaluation of
\* a replay denies, though other requests of the same session are served late or lost
\* meanwhile (runReplay).
Blocking ==
    /\ Dated
    /\ step = "pausing" => since # None
    /\ DenialInTime
    /\ step = "evaluating" /\ answer # None /\ answer.ok => Blocks(answer.receipt)
    /\ step = "reading" => Blocks(held)
    /\ label = "Review required" => Cut

-----------------------------------------------------------------------------
(* Properties *)

\* "Replay verified" is never said of anything else: the receipt on display denies
\* the action, its backend recorded it for the session the page holds, and it cites
\* a denial that took the place of that session's permission, whatever failed, was
\* lost, late or clicked before (runReplay, in both builds).
VerifiedIsRecorded ==
    step = "idle" /\ label = "Replay verified" =>
        /\ shown # None
        /\ shown.decision = "deny"
        /\ static \/ Exists(session) => Founded(shown, KeptMemories, KeptReceipts)

\* What is on display is of the session the page holds, though a reset may fail
\* before or after it has a new session (createSession).
DisplayIsOfSession == shown # None => shown.tenant = session

\* At rest, the page's session is the one its fixture can serve: a creation that
\* fails at a digest leaves both as they were (createFixture).
FixtureIsOfSession ==
    static /\ step = "idle" =>
        session = IF fixture = None THEN None ELSE fixture.tenant

\* However often the replay is run, given up and served late, a session's
\* permission is revoked once (runReplay's supersedes_id).
RevokedOnce ==
    /\ \A t \in Tenant : Cardinality(Denials(memories[t])) <= 1
    /\ fixture # None => Cardinality(Denials(fixture.memories)) <= 1

\* "The active denial blocks publication" (README.md): a replay that runs to its
\* end shows the action blocked.
ReplayBlocks == label # "Review required"

\* The buttons come back: the page never stays busy (setBusy in every outcome).
ButtonsComeBack == step # "idle" ~> step = "idle"

=============================================================================

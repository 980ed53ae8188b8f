---------------------------- MODULE StaticReplay ----------------------------
(***************************************************************************)
(* The fixture of frontend/static-replay.js, which answers the page in the *)
(* browser-only build.  The page awaits each request before it makes the   *)
(* next, so a request is one step; what can go wrong in the middle of one  *)
(* is a digest that rejects (crypto.subtle exists only in a secure         *)
(* context), and the steps that fail keep what was assigned before it.     *)
(***************************************************************************)
EXTENDS ReplayPage

CONSTANT SessionUseLimit    \* uses of a fixture

ASSUME FixtureAssumption == SessionUseLimit \in Nat \ {0}

VARIABLE fixture    \* the one session of the page, or None

-----------------------------------------------------------------------------
FixtureMemory == [effect : Effect, status : Status, supersedes : Nat \cup {None}]

\* The uses go on falling when there are none left.
Fixture ==
    [tenant   : Tenant,
     uses     : Int,
     memories : Seq(FixtureMemory),
     receipts : Seq(ActionReceipt)]

FixtureTypeOK == fixture \in Fixture \cup {None}

FixtureInit == fixture = None

Remembered(effect, supersedes) ==
    [effect |-> effect, status |-> "active", supersedes |-> supersedes]

NewFixture(r) ==
    [tenant   |-> r.tenant,
     uses     |-> SessionUseLimit,
     memories |-> <<Remembered("allow", None), Remembered("context", None)>>,
     receipts |-> <<>>]

FixtureCreate(r) ==
    /\ r.for = "creating"
    /\ fixture' = NewFixture(r)
    /\ Answer(r, TRUE, None)

\* Mutant: the fixture is replaced before its memories are digested.
FixtureReplacedEarly(r) ==
    /\ r.for = "creating"
    /\ fixture' = NewFixture(r)
    /\ Answer(r, FALSE, None)

\* The digest of a memory rejects: the last fixture stays.
FixtureCreateFails(r) ==
    /\ r.for = "creating"
    /\ Answer(r, FALSE, None)
    /\ UNCHANGED fixture

-----------------------------------------------------------------------------
Holds(r) == fixture # None /\ fixture.tenant = r.tenant

\* assertSessionPath: a use is spent before the request is looked at.
Spend == [fixture EXCEPT !.uses = @ - 1]

Admitted(r, for) ==
    /\ r.for \in for
    /\ Holds(r)
    /\ fixture.uses > 0

FixtureRefuses(r) ==
    /\ r.for # "creating"
    /\ ~ Admitted(r, {r.for})
    /\ fixture' = IF Holds(r) THEN Spend ELSE fixture
    /\ Answer(r, FALSE, None)

FixtureState(r) ==
    /\ Admitted(r, {"loading", "reading"})
    /\ fixture' = Spend
    /\ Answer(r, TRUE, None)

Superseded == [Spend EXCEPT !.memories[1].status = "superseded"]

FixtureAdd(r) ==
    /\ Admitted(r, {"revoking"})
    /\ IsActive(fixture.memories[1])
    /\ fixture' = [Superseded EXCEPT !.memories = Append(@, Remembered("deny", 1))]
    /\ Answer(r, TRUE, None)

\* The digest rejects: the permission is superseded, and by nothing.
FixtureAddFails(r) ==
    /\ Admitted(r, {"revoking"})
    /\ IsActive(fixture.memories[1])
    /\ fixture' = Superseded
    /\ Answer(r, FALSE, None)

FixtureAddRefuses(r) ==
    /\ Admitted(r, {"revoking"})
    /\ ~ IsActive(fixture.memories[1])
    /\ fixture' = Spend
    /\ Answer(r, FALSE, None)

\* The active memories of an effect; validity is not looked at.
ActiveOf(effect) ==
    {i \in DOMAIN fixture.memories :
        fixture.memories[i].effect = effect /\ IsActive(fixture.memories[i])}

FirstOf(S) == CHOOSE i \in S : \A j \in S : i <= j

\* The decision is a literal of the code.
FixtureReceipt(r) ==
    [id |-> r.click, tenant |-> r.tenant, query |-> Publish, decision |-> "deny",
     evidence |-> {FirstOf(ActiveOf("deny")), FirstOf(ActiveOf("context"))},
     created |-> now + BrowserSkew, archived |-> FALSE]

FixtureEvaluate(r) ==
    /\ Admitted(r, {"evaluating"})
    /\ ActiveOf("deny") # {} /\ ActiveOf("context") # {}
    /\ fixture' = [Spend EXCEPT !.receipts = Append(@, FixtureReceipt(r))]
    /\ Answer(r, TRUE, FixtureReceipt(r))

\* The evidence is missing, or a digest rejects.
FixtureEvaluateFails(r) ==
    /\ Admitted(r, {"evaluating"})
    /\ fixture' = Spend
    /\ Answer(r, FALSE, None)

-----------------------------------------------------------------------------
FixtureServe(r) ==
    \/ FixtureCreate(r) \/ FixtureCreateFails(r)
    \/ FixtureRefuses(r) \/ FixtureState(r)
    \/ FixtureAdd(r) \/ FixtureAddFails(r) \/ FixtureAddRefuses(r)
    \/ FixtureEvaluate(r) \/ FixtureEvaluateFails(r)

=============================================================================

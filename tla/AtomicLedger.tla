---------------------------- MODULE AtomicLedger ----------------------------
(***************************************************************************)
(* What the service promises, with nothing of how it does it: a lease is   *)
(* granted, memories are recorded under it, and a verdict on an action is  *)
(* pronounced in one indivisible step from the memories in force at that   *)
(* instant.  There are no versions, no retries, no tokens and no requests. *)
(***************************************************************************)
EXTENDS Retrieval

CONSTANTS Tenant

VARIABLES
    clock,
    lease,     \* per tenant: when its lease expires, or None
    ledger,    \* per tenant: its memories
    verdicts   \* per tenant: the decisions pronounced, in order

ledgerVars == <<clock, lease, ledger, verdicts>>

-----------------------------------------------------------------------------
Held(t) == lease[t] # None /\ clock < lease[t]

Init ==
    /\ clock = 0
    /\ lease = [t \in Tenant |-> None]
    /\ ledger = [t \in Tenant |-> <<>>]
    /\ verdicts = [t \in Tenant |-> <<>>]

Grant(t) ==
    /\ lease[t] = None
    /\ lease'[t] \in Time
    /\ lease' = [lease EXCEPT ![t] = lease'[t]]
    /\ UNCHANGED <<clock, ledger, verdicts>>

\* The memories after m is recorded, the one it replaces no longer active.
Recorded(ms, m) ==
    Append(IF m.supersedes = None THEN ms
           ELSE [ms EXCEPT ![m.supersedes].status = "superseded"], m)

Record(t) ==
    /\ Held(t)
    /\ Len(ledger'[t]) = Len(ledger[t]) + 1
    /\ LET m == ledger'[t][Len(ledger'[t])]
       IN  /\ IsActive(m)
           /\ m.created = clock
           /\ m.supersedes # None =>
                m.supersedes \in DOMAIN ledger[t] /\ IsActive(ledger[t][m.supersedes])
           /\ ledger' = [ledger EXCEPT ![t] = Recorded(@, m)]
    /\ UNCHANGED <<clock, lease, verdicts>>

VerdictOn(ms, q, at) ==
    [query    |-> q,
     evidence |-> Evidence(ms, q, at),
     decision |-> Decide(ms, Evidence(ms, q, at))]

Pronounce(t, q) ==
    /\ Held(t)
    /\ verdicts' = [verdicts EXCEPT ![t] = Append(@, VerdictOn(ledger[t], q, clock))]
    /\ UNCHANGED <<clock, lease, ledger>>

Advance ==
    /\ clock' = clock + 1
    /\ UNCHANGED <<lease, ledger, verdicts>>

\* An expired lease may be forgotten, with everything recorded under it.
Forget(t) ==
    /\ lease[t] # None
    /\ ~ Held(t)
    /\ lease' = [lease EXCEPT ![t] = None]
    /\ ledger' = [ledger EXCEPT ![t] = <<>>]
    /\ verdicts' = [verdicts EXCEPT ![t] = <<>>]
    /\ UNCHANGED clock

Next ==
    \/ \E t \in Tenant : Grant(t) \/ Record(t) \/ Forget(t)
    \/ \E t \in Tenant, q \in Query : Pronounce(t, q)
    \/ Advance

Spec == Init /\ [][Next]_ledgerVars

=============================================================================

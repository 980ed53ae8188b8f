---------------------------- MODULE StoreClients ----------------------------
(***************************************************************************)
(* The store under the most general callers: any call of the MemoryStore   *)
(* protocol, with any arguments, in any order.  A tenant identifier is     *)
(* drawn at random and never names a session that exists, and a receipt    *)
(* identifier is never used twice; nothing else is assumed of a caller.    *)
(***************************************************************************)
EXTENDS LeaseStore

CONSTANTS
    Draft,        \* memories that callers submit
    MaxUses,      \* bound: budget of a session
    MaxMemories,  \* bound: memories per tenant
    MaxAttempts   \* bound: session creations attempted per window

ASSUME ClientAssumption ==
    /\ Draft \subseteq MemoryCreate
    /\ {MaxUses, MaxMemories, MaxAttempts} \subseteq Nat

SavedIds ==
    UNION {{receipts[t][i].id : i \in DOMAIN receipts[t]} : t \in Tenant}

CallCreate ==
    /\ hourly[Window] < MaxAttempts
    /\ \/ \E t \in Tenant, expires \in 0 .. MaxTime, uses \in 0 .. MaxUses :
             ~ Exists(t) /\ CreateSession(t, t, expires, uses)
       \/ RefuseSession

CallAuthorize ==
    \E t \in Tenant, token \in Token, consume \in BOOLEAN :
        AuthorizeSession(t, token, consume)

CallAdd ==
    \E t \in Tenant, d \in Draft :
        Len(memories[t]) < MaxMemories /\ AddMemory(t, d)

CallSave ==
    \E t \in Tenant, id \in ReceiptId \ SavedIds, q \in Query,
       version \in 0 .. MaxMemories, before \in (0 .. MaxTime) \cup {None} :
        SaveReceipt([id |-> id, tenant |-> t, query |-> q, decision |-> "needs_review",
                     evidence |-> {}, created |-> now, archived |-> FALSE], version, before)

CallAttach == \E id \in ReceiptId : AttachReceiptArchive(id)

StoreNext ==
    \/ CallCreate
    \/ CallAuthorize
    \/ CallAdd
    \/ CallSave
    \/ CallAttach
    \/ Tick
    \/ \E t \in Tenant : Reap(t)

StoreSpec == StoreInit /\ [][StoreNext]_storeVars

=============================================================================

----------------------------- MODULE Retrieval -----------------------------
(***************************************************************************)
(* Policy retrieval over one tenant's memories, as pure operators: which   *)
(* memories are in force at a time, which of them a query recalls, when    *)
(* that answer will next change on its own, and what the service decides   *)
(* from it.  Both the store and the service are built from these, and so   *)
(* is the abstract ledger they are compared with.                          *)
(*                                                                         *)
(* A tenant's memories are a sequence in the order they were recorded; a   *)
(* memory is named by its position.  Embeddings are abstracted to a table  *)
(* of scores: how close a topic is to a query.                             *)
(***************************************************************************)
EXTENDS Integers, Sequences, FiniteSets

CONSTANTS
    Topic,        \* what a memory is about (stands for its embedding)
    Query,        \* what an action request asks (stands for its embedding)
    Score,        \* similarity of a topic and a query, in [Topic -> [Query -> Int]]
    RecallLimit,  \* most memories one recall returns
    Floor,        \* least similarity that counts as relevant
    None          \* absent timestamp, identifier or record

ASSUME ScoreAssumption == Score \in [Topic -> [Query -> Int]]
ASSUME LimitAssumption == RecallLimit \in Nat \ {0} /\ Floor \in Int
ASSUME NoneAssumption  == None \notin Int

Effect   == {"allow", "deny", "context"}
Status   == {"active", "superseded"}
Decision == {"deny", "needs_review"}

Time == Int

Memory ==
    [effect     : Effect,
     topic      : Topic,
     from       : Time,
     until      : Time \cup {None},
     status     : Status,
     supersedes : Nat \cup {None},   \* position of the memory this one replaced
     created    : Time]

-----------------------------------------------------------------------------
IsActive(m) == m.status = "active"

\* Valid from "from" on, and up to but not at "until".
ValidAt(m, at) == m.from <= at /\ (m.until = None \/ at < m.until)

InForce(ms, at) == {i \in DOMAIN ms : IsActive(ms[i]) /\ ValidAt(ms[i], at)}

\* The later instants at which an active memory starts or stops being valid.
Transitions(ms, at) ==
    {t \in UNION {{ms[i].from, ms[i].until} \ {None} :
                    i \in {j \in DOMAIN ms : IsActive(ms[j])}} : at < t}

Earliest(ts) == CHOOSE t \in ts : \A u \in ts : t <= u

\* Mutant: only ends of validity are considered, not starts.
NextExpiry(ms, at) ==
    LET ends == {ms[i].until : i \in {j \in DOMAIN ms : IsActive(ms[j])}} \ {None}
        later == {t \in ends : at < t}
    IN  IF later = {} THEN None ELSE Earliest(later)

NextTransition(ms, at) ==
    IF Transitions(ms, at) = {} THEN None ELSE Earliest(Transitions(ms, at))

-----------------------------------------------------------------------------
\* Best score first, then newest; a stable sort leaves ties in recorded order.
RanksAbove(ms, q, i, j) ==
    LET si == Score[ms[i].topic][q]
        sj == Score[ms[j].topic][q]
    IN  \/ si > sj
        \/ si = sj /\ ms[i].created > ms[j].created
        \/ si = sj /\ ms[i].created = ms[j].created /\ i < j

\* Mutant: the limit is applied before memories that are not in force are left out.
RecalledBeforeFilter(ms, q, at) ==
    {i \in InForce(ms, at) :
        Cardinality({j \in DOMAIN ms : RanksAbove(ms, q, j, i)}) < RecallLimit}

Recalled(ms, q, at) ==
    {i \in InForce(ms, at) :
        Cardinality({j \in InForce(ms, at) : RanksAbove(ms, q, j, i)}) < RecallLimit}

IsRelevant(m, q) == Score[m.topic][q] >= Floor

Evidence(ms, q, at) == {i \in Recalled(ms, q, at) : IsRelevant(ms[i], q)}

Decide(ms, evidence) ==
    IF \E i \in evidence : ms[i].effect = "deny" THEN "deny" ELSE "needs_review"

=============================================================================

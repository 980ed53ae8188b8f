----------------------------- MODULE GateProofs -----------------------------
(***************************************************************************)
(* The verifier accepts what is free, and only that, whatever the shapes   *)
(* of the answers, the limits, the lifetimes and the timeout, and however  *)
(* often the clouds change while it asks.                                  *)
(*                                                                         *)
(* The argument has two parts.  Of an answer: the first of the paths tried *)
(* that is present holds the field, whichever path that is, and so a       *)
(* rendering of a cloud is accepted exactly if the cloud is free, and a    *)
(* damaged one never for another.  Of the script: an answer that is kept   *)
(* until the next is still of what was seen (GateInv).                     *)
(***************************************************************************)
EXTENDS CostGate, SequenceTheorems, TLAPS

-----------------------------------------------------------------------------
(* Looking up a field *)

LEMMA NestedOne ==
    ASSUME NEW document, NEW paths, NEW none, NEW k \in Int,
           {i \in DOMAIN paths : paths[i] \in DOMAIN document} = {k}
    PROVE  Nested(document, paths, none) = document[paths[k]]
<1>1. (CHOOSE i \in {k} : \A j \in {k} : i <= j) = k
  OBVIOUS
<1> QED
  BY <1>1 DEF Nested

LEMMA NestedNone ==
    ASSUME NEW document, NEW paths, NEW none,
           {i \in DOMAIN paths : paths[i] \in DOMAIN document} = {}
    PROVE  Nested(document, paths, none) = none
BY DEF Nested

LEMMA ShapeType ==
    ASSUME NEW shape \in Shapes
    PROVE  /\ shape.name \in {"name", "cluster.name"}
           /\ shape.plan \in {"plan", "plan_type", "planType", "cluster.plan"}
           /\ shape.state \in {"state", "cluster.state"}
           /\ shape.cloud \in {"cloud", "provider", "cloud_provider", "cloudProvider", "cluster.cloud"}
           /\ shape.limit \in 1 .. 8
<1>1. {NamePaths[i] : i \in DOMAIN NamePaths} = {"name", "cluster.name"}
  BY DEF NamePaths
<1>2. {PlanPaths[i] : i \in DOMAIN PlanPaths} = {"plan", "plan_type", "planType", "cluster.plan"}
  BY DEF PlanPaths
<1>3. {StatePaths[i] : i \in DOMAIN StatePaths} = {"state", "cluster.state"}
  BY DEF StatePaths
<1>4. {CloudPaths[i] : i \in DOMAIN CloudPaths} =
        {"cloud", "provider", "cloud_provider", "cloudProvider", "cluster.cloud"}
  BY DEF CloudPaths
<1> QED
  BY <1>1, <1>2, <1>3, <1>4, ShapeAssumption

\* The words of a document: each is found on whichever of its paths it is, if at all.
LEMMA WordFound ==
    ASSUME NEW shape \in Shapes, NEW words,
           DOMAIN words \subseteq {shape.name, shape.plan, shape.state, shape.cloud}
    PROVE  /\ Nested(words, NamePaths, Missing) =
                IF shape.name \in DOMAIN words THEN words[shape.name] ELSE Missing
           /\ Nested(words, PlanPaths, Missing) =
                IF shape.plan \in DOMAIN words THEN words[shape.plan] ELSE Missing
           /\ Nested(words, StatePaths, Missing) =
                IF shape.state \in DOMAIN words THEN words[shape.state] ELSE Missing
           /\ Nested(words, CloudPaths, Missing) =
                IF shape.cloud \in DOMAIN words THEN words[shape.cloud] ELSE Missing
<1>1. ASSUME NEW paths, NEW at, NEW k \in DOMAIN paths, k \in Int, paths[k] = at,
             \A i \in DOMAIN paths : paths[i] \in DOMAIN words => i = k
      PROVE  Nested(words, paths, Missing) = IF at \in DOMAIN words THEN words[at] ELSE Missing
  <2>1. CASE at \in DOMAIN words
    <3>1. {i \in DOMAIN paths : paths[i] \in DOMAIN words} = {k}
      BY <1>1, <2>1
    <3> QED
      BY <1>1, <2>1, <3>1, NestedOne
  <2>2. CASE at \notin DOMAIN words
    <3>1. {i \in DOMAIN paths : paths[i] \in DOMAIN words} = {}
      BY <1>1, <2>2
    <3> QED
      BY <2>2, <3>1, NestedNone
  <2> QED
    BY <2>1, <2>2
<1>2. PICK k \in DOMAIN NamePaths : k \in Int /\ NamePaths[k] = shape.name
  BY ShapeType DEF NamePaths
<1>3. \A i \in DOMAIN NamePaths : NamePaths[i] \in DOMAIN words => i = k
  BY <1>2, ShapeType DEF NamePaths
<1>4. PICK l \in DOMAIN PlanPaths : l \in Int /\ PlanPaths[l] = shape.plan
  BY ShapeType DEF PlanPaths
<1>5. \A i \in DOMAIN PlanPaths : PlanPaths[i] \in DOMAIN words => i = l
  BY <1>4, ShapeType DEF PlanPaths
<1>6. PICK m \in DOMAIN StatePaths : m \in Int /\ StatePaths[m] = shape.state
  BY ShapeType DEF StatePaths
<1>7. \A i \in DOMAIN StatePaths : StatePaths[i] \in DOMAIN words => i = m
  BY <1>6, ShapeType DEF StatePaths
<1>8. PICK n \in DOMAIN CloudPaths : n \in Int /\ CloudPaths[n] = shape.cloud
  BY ShapeType DEF CloudPaths
<1>9. \A i \in DOMAIN CloudPaths : CloudPaths[i] \in DOMAIN words => i = n
  BY <1>8, ShapeType DEF CloudPaths
<1> QED
  BY <1>1, <1>2, <1>3, <1>4, <1>5, <1>6, <1>7, <1>8, <1>9

\* A limit of a document that has the limits of a cluster.
LEMMA LimitFound ==
    ASSUME NEW limit, NEW k \in 1 .. 8, NEW limits,
           \A i \in 1 .. 8 : <<limit, i>> \in DOMAIN limits => i = k
    PROVE  Nested(limits, LimitPaths(limit), Absent) =
                IF <<limit, k>> \in DOMAIN limits THEN limits[<<limit, k>>] ELSE Absent
<1>1. /\ DOMAIN LimitPaths(limit) = 1 .. 8
      /\ \A i \in 1 .. 8 : LimitPaths(limit)[i] = <<limit, i>>
  BY DEF LimitPaths
<1>2. CASE <<limit, k>> \in DOMAIN limits
  <2>1. {i \in DOMAIN LimitPaths(limit) : LimitPaths(limit)[i] \in DOMAIN limits} = {k}
    BY <1>1, <1>2
  <2> QED
    BY <1>1, <1>2, <2>1, NestedOne
<1>3. CASE <<limit, k>> \notin DOMAIN limits
  <2>1. {i \in DOMAIN LimitPaths(limit) : LimitPaths(limit)[i] \in DOMAIN limits} = {}
    BY <1>1, <1>3
  <2> QED
    BY <1>3, <2>1, NestedNone
<1> QED
  BY <1>2, <1>3

-----------------------------------------------------------------------------
(* The cluster *)

LEMMA Amounts ==
    /\ \A n \in Nat \ {0} : Positive(Text(n)) /\ Positive(Number(n))
    /\ \A v \in Damages : ~ Positive(v) /\ ~ Positive([v EXCEPT !.n = v.n * GiB])
    /\ \A n : /\ Text(n).n = n /\ Text(n).kind = "text" /\ Text(n) # Absent
              /\ Number(n).n = n /\ Number(n).kind = "number"
<1>1. GiB \in Nat \ {0}
  BY CostGateAssumption
<1> QED
  BY <1>1 DEF Positive, IsFinite, Text, Number, Damages, Absent, NaN, Flag

LEMMA WordsRendered ==
    ASSUME NEW c, NEW shape \in Shapes
    PROVE  /\ DOMAIN Words(c, shape) = {shape.name, shape.plan, shape.state, shape.cloud}
           /\ Words(c, shape)[shape.name] = c.name
           /\ Words(c, shape)[shape.plan] = c.plan
           /\ Words(c, shape)[shape.state] = c.state
           /\ Words(c, shape)[shape.cloud] = c.provider
BY ShapeType DEF Words

LEMMA LimitsRendered ==
    ASSUME NEW c, NEW shape \in Shapes, NEW unit \in {"storage_mib", "storage_gib"}
    PROVE  LET limits == Limits(c, shape, unit)
               k      == shape.limit
           IN  /\ DOMAIN limits = {<<"request_unit", k>>, <<unit, k>>}
               /\ limits[<<"request_unit", k>>] = Text(c.units)
               /\ limits[<<unit, k>>] =
                    IF unit = "storage_mib" THEN Text(c.storage) ELSE Number(c.storage \div GiB)
BY ShapeType DEF Limits

\* A limit that is stated on the path of a shape, and nowhere else.
LEMMA LimitsFound ==
    ASSUME NEW shape \in Shapes, NEW unit \in {"storage_mib", "storage_gib"}, NEW limits,
           DOMAIN limits = {<<"request_unit", shape.limit>>, <<unit, shape.limit>>}
    PROVE  /\ Nested(limits, LimitPaths("request_unit"), Absent)
                = limits[<<"request_unit", shape.limit>>]
           /\ Nested(limits, LimitPaths("storage_mib"), Absent)
                = IF unit = "storage_mib" THEN limits[<<unit, shape.limit>>] ELSE Absent
           /\ Nested(limits, LimitPaths("storage_gib"), Absent)
                = IF unit = "storage_gib" THEN limits[<<unit, shape.limit>>] ELSE Absent
<1> DEFINE k == shape.limit
<1>1. k \in 1 .. 8
  BY ShapeType
<1>2. ASSUME NEW limit \in {"request_unit", "storage_mib", "storage_gib"}
      PROVE  \A i \in 1 .. 8 : <<limit, i>> \in DOMAIN limits => i = k
  OBVIOUS
<1>3. /\ <<"storage_mib", k>> \in DOMAIN limits <=> unit = "storage_mib"
      /\ <<"storage_gib", k>> \in DOMAIN limits <=> unit = "storage_gib"
      /\ <<"request_unit", k>> \in DOMAIN limits
  OBVIOUS
<1> HIDE DEF k
<1>4. \A limit \in {"request_unit", "storage_mib", "storage_gib"} :
        Nested(limits, LimitPaths(limit), Absent)
            = IF <<limit, k>> \in DOMAIN limits THEN limits[<<limit, k>>] ELSE Absent
  BY <1>1, <1>2, LimitFound
<1> QED
  BY <1>3, <1>4 DEF k

\* An exact number of GiB is that number of MiB.
LEMMA ExactGiB ==
    ASSUME NEW n \in Nat \ {0}, n % GiB = 0
    PROVE  n \div GiB \in Nat \ {0} /\ (n \div GiB) * GiB = n
<1>1. GiB \in Nat \ {0}
  BY CostGateAssumption
<1>2. n = GiB * (n \div GiB) + (n % GiB) /\ n \div GiB \in Nat
  BY <1>1
<1>3. (n \div GiB) * GiB = n
  BY <1>1, <1>2
<1>4. n \div GiB # 0
  BY <1>1, <1>3
<1> QED
  BY <1>2, <1>3, <1>4

\* In whichever unit, the storage limit is read in MiB.
LEMMA StorageRead ==
    ASSUME NEW c \in Cloud, NEW shape \in Shapes, NEW unit \in {"storage_mib", "storage_gib"},
           unit = "storage_gib" => c.storage % GiB = 0
    PROVE  /\ Positive(StorageLimit(Limits(c, shape, unit)))
           /\ StorageLimit(Limits(c, shape, unit)).n = c.storage
<1> DEFINE limits == Limits(c, shape, unit)
<1>1. /\ DOMAIN limits = {<<"request_unit", shape.limit>>, <<unit, shape.limit>>}
      /\ limits[<<unit, shape.limit>>] =
            IF unit = "storage_mib" THEN Text(c.storage) ELSE Number(c.storage \div GiB)
  BY LimitsRendered
<1> HIDE DEF limits
<1>2. c.storage \in Nat \ {0}
  BY DEF Cloud
<1>3. CASE unit = "storage_mib"
  <2>1. Nested(limits, LimitPaths("storage_mib"), Absent) = Text(c.storage)
    BY <1>1, <1>3, LimitsFound
  <2>2. StorageLimit(limits) = Text(c.storage)
    BY <2>1, Amounts DEF StorageLimit
  <2> QED
    BY <1>2, <2>2, Amounts DEF limits
<1>4. CASE unit = "storage_gib"
  <2>1. /\ Nested(limits, LimitPaths("storage_mib"), Absent) = Absent
        /\ Nested(limits, LimitPaths("storage_gib"), Absent) = Number(c.storage \div GiB)
    BY <1>1, <1>4, LimitsFound
  <2>2. StorageLimit(limits) =
            [Number(c.storage \div GiB) EXCEPT !.n = Number(c.storage \div GiB).n * GiB]
    BY <2>1 DEF StorageLimit
  <2>3. StorageLimit(limits) = Number((c.storage \div GiB) * GiB)
    BY <2>2 DEF Number
  <2>4. StorageLimit(limits) = Number(c.storage)
    BY <1>2, <1>4, <2>3, ExactGiB
  <2> QED
    BY <1>2, <2>4, Amounts DEF limits
<1> QED
  BY <1>3, <1>4

\* What the validation finds in an answer that is not damaged.
LEMMA ClusterComplete ==
    ASSUME NEW c \in Cloud, NEW a \in ClusterAnswers(c)
    PROVE  ClusterAccepted(a) <=> FreeCluster(c)
<1>1. PICK shape \in Shapes, unit \in {"storage_mib", "storage_gib"} :
        /\ unit = "storage_gib" => c.storage % GiB = 0
        /\ a = [words |-> Words(c, shape), limits |-> Limits(c, shape, unit)]
  BY DEF ClusterAnswers
<1>2. a.words = Words(c, shape) /\ a.limits = Limits(c, shape, unit)
  BY <1>1
<1>3. /\ Nested(a.words, NamePaths, Missing) = c.name
      /\ Nested(a.words, PlanPaths, Missing) = c.plan
      /\ Nested(a.words, StatePaths, Missing) = c.state
      /\ Nested(a.words, CloudPaths, Missing) = c.provider
  <2>1. /\ DOMAIN a.words = {shape.name, shape.plan, shape.state, shape.cloud}
        /\ a.words[shape.name] = c.name /\ a.words[shape.plan] = c.plan
        /\ a.words[shape.state] = c.state /\ a.words[shape.cloud] = c.provider
    <3>1. /\ DOMAIN Words(c, shape) = {shape.name, shape.plan, shape.state, shape.cloud}
          /\ Words(c, shape)[shape.name] = c.name
          /\ Words(c, shape)[shape.plan] = c.plan
          /\ Words(c, shape)[shape.state] = c.state
          /\ Words(c, shape)[shape.cloud] = c.provider
      BY WordsRendered
    <3> QED
      BY <1>2, <3>1
  <2> QED
    BY <2>1, WordFound
<1>4. Nested(a.limits, LimitPaths("request_unit"), Absent) = Text(c.units)
  <2>1. /\ DOMAIN a.limits = {<<"request_unit", shape.limit>>, <<unit, shape.limit>>}
        /\ a.limits[<<"request_unit", shape.limit>>] = Text(c.units)
    <3>1. /\ DOMAIN Limits(c, shape, unit) = {<<"request_unit", shape.limit>>, <<unit, shape.limit>>}
          /\ Limits(c, shape, unit)[<<"request_unit", shape.limit>>] = Text(c.units)
      BY LimitsRendered
    <3> QED
      BY <1>2, <3>1
  <2> QED
    BY <2>1, LimitsFound
<1>5. Positive(StorageLimit(a.limits)) /\ StorageLimit(a.limits).n = c.storage
  BY <1>1, <1>2, StorageRead
<1>6. Positive(Text(c.units)) /\ Text(c.units).n = c.units
  BY Amounts DEF Cloud
<1>7. /\ c.plan \in {"BASIC", "STANDARD"} /\ c.state \in {"CREATED", "CREATING"}
      /\ c.provider \in {"AWS", "GCP"}
  BY DEF Cloud
<1> QED
  BY <1>3, <1>4, <1>5, <1>6, <1>7 DEF ClusterAccepted, FreeCluster

LEMMA ClusterDamaged ==
    ASSUME NEW c, NEW a \in DamagedClusters(c)
    PROVE  ~ ClusterAccepted(a)
<1>1. PICK b \in ClusterAnswers(c) :
        \/ \E lost \in DOMAIN b.words :
              a = [b EXCEPT !.words = [p \in DOMAIN b.words \ {lost} |-> b.words[p]]]
        \/ \E p \in DOMAIN b.limits, v \in Damages : a = [b EXCEPT !.limits[p] = v]
  <2> DEFINE Damaged(b) ==
                {[b EXCEPT !.words = [p \in DOMAIN b.words \ {lost} |-> b.words[p]]] :
                    lost \in DOMAIN b.words}
                \cup {[b EXCEPT !.limits[p] = v] : p \in DOMAIN b.limits, v \in Damages}
  <2>1. DamagedClusters(c) = UNION {Damaged(b) : b \in ClusterAnswers(c)}
    BY DEF DamagedClusters
  <2>2. \E b \in ClusterAnswers(c) : a \in Damaged(b)
    <3> HIDE DEF Damaged
    <3> QED
      BY <2>1
  <2> QED
    BY <2>2
<1>2. PICK shape \in Shapes, unit \in {"storage_mib", "storage_gib"} :
        b = [words |-> Words(c, shape), limits |-> Limits(c, shape, unit)]
  BY DEF ClusterAnswers
<1>3. /\ DOMAIN b.words = {shape.name, shape.plan, shape.state, shape.cloud}
      /\ DOMAIN b.limits = {<<"request_unit", shape.limit>>, <<unit, shape.limit>>}
  BY <1>2, WordsRendered, LimitsRendered
<1>4. Missing # ClusterName /\ Missing = "missing"
  BY CostGateAssumption DEF Missing
<1>5. CASE \E lost \in DOMAIN b.words :
              a = [b EXCEPT !.words = [p \in DOMAIN b.words \ {lost} |-> b.words[p]]]
  <2>1. PICK lost \in DOMAIN b.words :
            a = [b EXCEPT !.words = [p \in DOMAIN b.words \ {lost} |-> b.words[p]]]
    BY <1>5
  <2>2. DOMAIN a.words = DOMAIN b.words \ {lost}
    BY <1>2, <2>1
  <2>3. CASE lost = shape.name
    BY <1>3, <1>4, <2>2, <2>3, WordFound DEF ClusterAccepted
  <2>4. CASE lost = shape.plan
    BY <1>3, <1>4, <2>2, <2>4, WordFound DEF ClusterAccepted
  <2>5. CASE lost = shape.state
    BY <1>3, <1>4, <2>2, <2>5, WordFound DEF ClusterAccepted
  <2>6. CASE lost = shape.cloud
    BY <1>3, <1>4, <2>2, <2>6, WordFound DEF ClusterAccepted
  <2> QED
    BY <1>3, <2>3, <2>4, <2>5, <2>6
<1>6. CASE \E p \in DOMAIN b.limits, v \in Damages : a = [b EXCEPT !.limits[p] = v]
  <2>1. PICK p \in DOMAIN b.limits, v \in Damages : a = [b EXCEPT !.limits[p] = v]
    BY <1>6
  <2>2. /\ DOMAIN a.limits = {<<"request_unit", shape.limit>>, <<unit, shape.limit>>}
        /\ a.limits[p] = v
    BY <1>2, <1>3, <2>1
  <2>3. CASE p = <<"request_unit", shape.limit>>
    <3>1. Nested(a.limits, LimitPaths("request_unit"), Absent) = v
      BY <2>2, <2>3, LimitsFound
    <3> QED
      BY <3>1, Amounts DEF ClusterAccepted
  <2>4. CASE p = <<unit, shape.limit>>
    <3>1. ~ Positive(StorageLimit(a.limits))
      <4>1. CASE unit = "storage_mib"
        <5>1. /\ Nested(a.limits, LimitPaths("storage_mib"), Absent) = v
              /\ Nested(a.limits, LimitPaths("storage_gib"), Absent) = Absent
          BY <2>2, <2>4, <4>1, LimitsFound
        <5>2. ~ Positive(v) /\ ~ Positive([Absent EXCEPT !.n = Absent.n * GiB])
          BY Amounts DEF Damages
        <5> QED
          BY <5>1, <5>2 DEF StorageLimit
      <4>2. CASE unit = "storage_gib"
        <5>1. /\ Nested(a.limits, LimitPaths("storage_mib"), Absent) = Absent
              /\ Nested(a.limits, LimitPaths("storage_gib"), Absent) = v
          BY <2>2, <2>4, <4>2, LimitsFound
        <5>2. ~ Positive([v EXCEPT !.n = v.n * GiB])
          BY Amounts
        <5> QED
          BY <5>1, <5>2 DEF StorageLimit
      <4> QED
        BY <4>1, <4>2
    <3> QED
      BY <3>1 DEF ClusterAccepted
  <2> QED
    BY <1>3, <2>1, <2>3, <2>4
<1> QED
  BY <1>1, <1>5, <1>6

-----------------------------------------------------------------------------
(* The plan *)

LEMMA PlanRendered ==
    ASSUME NEW c \in Cloud, NEW a \in PlanAnswers(c)
    PROVE  /\ a.type = c.type /\ a.status = c.status /\ a.account = c.account
           /\ a.unit = "USD" /\ a.expires = Number(c.expires)
           /\ FreePlan(c) => Positive(a.credits)
           /\ \A account : PlanAccepted(a, account) => FreePlan(c) /\ account = c.account
<1>1. PICK credits \in Either(c.credits) :
        a = [type |-> c.type, status |-> c.status, account |-> c.account, unit |-> "USD",
             credits |-> credits, expires |-> Number(c.expires)]
  BY DEF PlanAnswers
<1>2. c.credits \in Nat
  BY DEF Cloud
<1>3. credits = Number(c.credits) \/ credits = Text(c.credits)
  BY DEF Either
<1>4. Positive(credits) <=> c.credits > 0
  BY <1>2, <1>3 DEF Positive, IsFinite, Number, Text
<1>5. /\ a.type = c.type /\ a.status = c.status /\ a.account = c.account
      /\ a.unit = "USD" /\ a.expires = Number(c.expires) /\ a.credits = credits
  BY <1>1
<1> QED
  BY <1>4, <1>5 DEF PlanAccepted, FreePlan

LEMMA PlanDamaged ==
    ASSUME NEW c \in Cloud, NEW a \in DamagedPlans(c)
    PROVE  /\ a.expires.kind = "number" => a.expires.n = c.expires
           /\ \A account : ~ PlanAccepted(a, account)
<1> DEFINE Damaged(b) ==
            {[b EXCEPT ![word] = Missing] : word \in {"type", "status", "account", "unit"}}
            \cup {[b EXCEPT !.credits = v] : v \in Damages}
            \cup {[b EXCEPT !.expires = Absent]}
<1>1. DamagedPlans(c) = UNION {Damaged(b) : b \in PlanAnswers(c)}
  BY DEF DamagedPlans
<1>2. PICK b \in PlanAnswers(c) : a \in Damaged(b)
  <2> HIDE DEF Damaged
  <2> QED
    BY <1>1
<1>3. PICK credits :
        b = [type |-> c.type, status |-> c.status, account |-> c.account, unit |-> "USD",
             credits |-> credits, expires |-> Number(c.expires)]
  BY DEF PlanAnswers
<1>4. Missing = "missing"
  BY DEF Missing
<1>5. CASE \E word \in {"type", "status", "account", "unit"} : a = [b EXCEPT ![word] = Missing]
  BY <1>3, <1>4, <1>5 DEF PlanAccepted, Number
<1>6. CASE \E v \in Damages : a = [b EXCEPT !.credits = v]
  <2>1. PICK v \in Damages : a = [b EXCEPT !.credits = v]
    BY <1>6
  <2>2. a.credits = v /\ a.expires = Number(c.expires)
    BY <1>3, <2>1
  <2> QED
    BY <2>2, Amounts DEF PlanAccepted
<1>7. CASE a = [b EXCEPT !.expires = Absent]
  <2>1. a.expires.kind = "absent"
    BY <1>3, <1>7 DEF Absent
  <2> QED
    BY <2>1 DEF PlanAccepted
<1> QED
  BY <1>2, <1>5, <1>6, <1>7

-----------------------------------------------------------------------------
(* The invoices *)

Adjusted(c) ==
    [i \in DOMAIN c.trials |->
        [name |-> "Free trial credits", currency |-> "USD", amount |-> Number(c.trials[i])]]

LEMMA InvoiceFields ==
    ASSUME NEW c, NEW status
    PROVE  Invoice(c, status) =
             [status |-> status, start |-> Number(c.start), end |-> Number(c.end),
              totals |-> <<[currency |-> "USD", amount |-> Number(c.total)]>>,
              balances |-> IF c.balance = 0 THEN <<>> ELSE <<Number(c.balance)>>,
              adjustments |-> Adjusted(c)]
BY DEF Invoice, Adjusted

LEMMA AdjustedAt ==
    ASSUME NEW c, NEW i \in DOMAIN c.trials
    PROVE  /\ i \in DOMAIN Adjusted(c)
           /\ Adjusted(c)[i].name = "Free trial credits" /\ Adjusted(c)[i].currency = "USD"
           /\ Adjusted(c)[i].amount = Number(c.trials[i])
           /\ Adjusted(c)[i] = [name |-> "Free trial credits", currency |-> "USD",
                                amount |-> Number(c.trials[i])]
<1>1. Adjusted(c)[i] = [name |-> "Free trial credits", currency |-> "USD",
                        amount |-> Number(c.trials[i])]
  BY DEF Adjusted
<1>2. i \in DOMAIN Adjusted(c)
  BY DEF Adjusted
<1>3. ASSUME NEW x, NEW n,
             x = [name |-> "Free trial credits", currency |-> "USD", amount |-> n]
      PROVE  x.name = "Free trial credits" /\ x.currency = "USD" /\ x.amount = n
  BY <1>3
<1>4. /\ Adjusted(c)[i].name = "Free trial credits" /\ Adjusted(c)[i].currency = "USD"
      /\ Adjusted(c)[i].amount = Number(c.trials[i])
  BY ONLY <1>1, <1>3
<1> QED
  BY <1>1, <1>2, <1>4

LEMMA TrialsRendered ==
    ASSUME NEW c
    PROVE  TrialCreditVerified(Adjusted(c)) <=> \E i \in DOMAIN c.trials : c.trials[i] < 0
<1>1. DOMAIN Adjusted(c) = DOMAIN c.trials
  BY DEF Adjusted
<1>2. \A n : IsFinite(Number(n)) /\ Number(n).n = n
  BY DEF IsFinite, Number
<1>3. ASSUME NEW i \in DOMAIN c.trials
      PROVE  /\ Adjusted(c)[i].name = "Free trial credits" /\ Adjusted(c)[i].currency = "USD"
             /\ IsFinite(Adjusted(c)[i].amount) /\ Adjusted(c)[i].amount.n = c.trials[i]
  <2>1. /\ Adjusted(c)[i].name = "Free trial credits" /\ Adjusted(c)[i].currency = "USD"
        /\ Adjusted(c)[i].amount = Number(c.trials[i])
    BY AdjustedAt
  <2> QED
    BY <1>2, <2>1
<1> QED
  BY <1>1, <1>3 DEF TrialCreditVerified

FreeUntil(c) == FreeInvoice(c) /\ c.end > now + Lifetime

LEMMA DraftRendered ==
    ASSUME NEW c \in Cloud, c.drafts = 1
    PROVE  CurrentAccepted(Invoice(c, "DRAFT")) <=> FreeUntil(c)
<1> DEFINE draft == Invoice(c, "DRAFT")
<1>1. /\ draft.start = Number(c.start) /\ draft.end = Number(c.end)
      /\ draft.totals = <<[currency |-> "USD", amount |-> Number(c.total)]>>
      /\ draft.balances = IF c.balance = 0 THEN <<>> ELSE <<Number(c.balance)>>
      /\ draft.adjustments = Adjusted(c)
  BY InvoiceFields
<1>2. TrialCreditVerified(Adjusted(c)) <=> \E i \in DOMAIN c.trials : c.trials[i] < 0
  BY TrialsRendered
<1> HIDE DEF draft
<1>3. draft.balances = <<>> <=> c.balance = 0
  BY <1>1
<1>4. /\ Len(draft.totals) = 1 /\ draft.totals[1].currency = "USD"
      /\ draft.totals[1].amount = Number(c.total)
  BY <1>1
<1>5. IsFinite(Number(c.total))
  BY DEF IsFinite, Number
<1>6. CurrentAccepted(draft) <=> FreeUntil(c)
  BY <1>1, <1>2, <1>3, <1>4, <1>5, Amounts DEF CurrentAccepted, FreeUntil, FreeInvoice
<1> QED
  BY <1>6 DEF draft

LEMMA InvoiceComplete ==
    ASSUME NEW c \in Cloud, NEW a \in InvoiceAnswers(c)
    PROVE  InvoiceAccepted(a) <=> FreeUntil(c)
<1>1. a = [i \in 1 .. c.drafts + 1 |-> Invoice(c, IF i = 1 THEN "FINALIZED" ELSE "DRAFT")]
  BY DEF InvoiceAnswers
<1>2. /\ DOMAIN a = 1 .. c.drafts + 1 /\ c.drafts \in Nat
      /\ a[1] = Invoice(c, "FINALIZED")
      /\ \A i \in 2 .. c.drafts + 1 : a[i] = Invoice(c, "DRAFT")
  BY <1>1 DEF Cloud
<1>3. /\ Invoice(c, "FINALIZED").status = "FINALIZED"
      /\ Invoice(c, "DRAFT").status = "DRAFT"
  BY DEF Invoice
<1>4. Drafts(a) = 2 .. c.drafts + 1
  BY <1>2, <1>3 DEF Drafts
<1>5. CASE c.drafts = 1
  <2>1. Drafts(a) = {2} /\ a[2] = Invoice(c, "DRAFT") /\ 2 \in DOMAIN a
    BY <1>2, <1>4, <1>5
  <2>2. InvoiceAccepted(a) <=> CurrentAccepted(a[2])
    BY <2>1 DEF InvoiceAccepted
  <2> QED
    BY <1>5, <2>1, <2>2, DraftRendered
<1>6. CASE c.drafts # 1
  <2>1. \A i \in DOMAIN a : Drafts(a) # {i}
    BY <1>2, <1>4, <1>6
  <2> QED
    BY <1>6, <2>1 DEF InvoiceAccepted, FreeUntil, FreeInvoice
<1> QED
  BY <1>5, <1>6

Bill(c) == [i \in 1 .. c.drafts + 1 |-> Invoice(c, IF i = 1 THEN "FINALIZED" ELSE "DRAFT")]

LEMMA BillRendered ==
    ASSUME NEW c \in Cloud
    PROVE  /\ c.drafts \in Nat
           /\ DOMAIN Bill(c) = 1 .. c.drafts + 1
           /\ \A i \in 1 .. c.drafts + 1 :
                /\ i = 1 => Bill(c)[i].status = "FINALIZED"
                /\ i # 1 => Bill(c)[i] = Invoice(c, "DRAFT") /\ Bill(c)[i].status = "DRAFT"
<1>1. /\ Invoice(c, "FINALIZED").status = "FINALIZED"
      /\ Invoice(c, "DRAFT").status = "DRAFT"
  BY DEF Invoice
<1> QED
  BY <1>1 DEF Bill, Cloud

\* Damage makes a draft of nothing that is none.
LEMMA StatusDamaged ==
    ASSUME NEW c, NEW d \in DamagedInvoice(Invoice(c, "FINALIZED"))
    PROVE  d.status # "DRAFT"
<1> DEFINE b == Invoice(c, "FINALIZED")
<1>1. b = [status |-> "FINALIZED", start |-> b.start, end |-> b.end, totals |-> b.totals,
           balances |-> b.balances, adjustments |-> b.adjustments]
  BY InvoiceFields
<1>2. Missing = "missing"
  BY DEF Missing
<1> HIDE DEF b
<1>3. d \in DamagedInvoice(b)
  BY DEF b
<1> QED
  BY <1>1, <1>2, <1>3 DEF DamagedInvoice

\* A damaged document is accepted only if the document was sound, or if what is damaged
\* is its total, which has become false.
LEMMA DocumentDamaged ==
    ASSUME NEW c \in Cloud, NEW d \in DamagedInvoice(Invoice(c, "DRAFT"))
    PROVE  /\ d.status \in {"DRAFT", Missing}
           /\ CurrentAccepted(d) /\ d.status = "DRAFT" =>
                /\ c.end > now + Lifetime
                /\ \/ CurrentAccepted(Invoice(c, "DRAFT"))
                   \/ d.totals # <<>> /\ d.totals[1].amount = Flag(0)
<1> DEFINE draft == Invoice(c, "DRAFT")
           First == {[draft EXCEPT !.status = Missing], [draft EXCEPT !.start = Absent],
                     [draft EXCEPT !.end = Absent], [draft EXCEPT !.totals = <<>>],
                     [draft EXCEPT !.balances = <<Absent>>],
                     [draft EXCEPT !.adjustments = <<>>]}
           Second == {[draft EXCEPT !.totals[1].amount = v] : v \in Damages}
           Third == {[draft EXCEPT !.adjustments[i].amount = v] :
                        i \in DOMAIN draft.adjustments, v \in Damages}
           Goal == /\ c.end > now + Lifetime
                   /\ \/ CurrentAccepted(draft)
                      \/ d.totals # <<>> /\ d.totals[1].amount = Flag(0)
<1>1. d \in First \cup Second \cup Third
  BY DEF DamagedInvoice
<1>2. draft = [status |-> "DRAFT", start |-> Number(c.start), end |-> Number(c.end),
               totals |-> draft.totals, balances |-> draft.balances,
               adjustments |-> Adjusted(c)]
  BY InvoiceFields
<1>3. draft.totals = <<[currency |-> "USD", amount |-> Number(c.total)]>>
  BY InvoiceFields
<1>g. Number(c.end).n = c.end
  BY DEF Number
<1> HIDE DEF draft, First, Second, Third, Goal
<1>4. CASE d \in First
  <2>1. ASSUME CurrentAccepted(d), d.status = "DRAFT"
        PROVE  FALSE
    <3>1. d.status = "DRAFT" /\ d.start.kind = "number" /\ d.end.kind = "number"
          /\ Len(d.totals) = 1 /\ d.balances = <<>> /\ TrialCreditVerified(d.adjustments)
      BY <2>1 DEF CurrentAccepted
    <3>2. /\ Absent.kind = "absent" /\ Missing = "missing" /\ Len(<<>>) = 0
          /\ <<Absent>> # <<>> /\ ~ TrialCreditVerified(<<>>)
      BY DEF Absent, Missing, TrialCreditVerified
    <3>3. CASE d = [draft EXCEPT !.status = Missing]
      BY <1>2, <3>1, <3>2, <3>3
    <3>4. CASE d = [draft EXCEPT !.start = Absent]
      BY <1>2, <3>1, <3>2, <3>4
    <3>5. CASE d = [draft EXCEPT !.end = Absent]
      BY <1>2, <3>1, <3>2, <3>5
    <3>6. CASE d = [draft EXCEPT !.totals = <<>>]
      BY <1>2, <3>1, <3>2, <3>6
    <3>7. CASE d = [draft EXCEPT !.balances = <<Absent>>]
      BY <1>2, <3>1, <3>2, <3>7
    <3>8. CASE d = [draft EXCEPT !.adjustments = <<>>]
      BY <1>2, <3>1, <3>2, <3>8
    <3> QED
      BY <1>4, <3>3, <3>4, <3>5, <3>6, <3>7, <3>8 DEF First
  <2>2. d.status \in {"DRAFT", Missing}
    BY <1>2, <1>4 DEF First
  <2> QED
    BY <2>1, <2>2
<1>5. CASE d \in Second
  <2>1. PICK v \in Damages : d = [draft EXCEPT !.totals[1].amount = v]
    BY <1>5 DEF Second
  <2>2. /\ d.totals = [draft.totals EXCEPT ![1].amount = v]
        /\ d.status = "DRAFT" /\ d.end = Number(c.end)
    BY <1>2, <2>1
  <2>3. d.totals[1].amount = v /\ d.totals # <<>>
    BY <1>3, <2>2
  <2>4. IsFinite(v) /\ v.n = 0 => v = Flag(0)
    BY DEF Damages, IsFinite, Absent, NaN, Flag
  <2>5. ASSUME CurrentAccepted(d)
        PROVE  Goal
    <3>1. /\ IsFinite(d.totals[1].amount) /\ d.totals[1].amount.n = 0
          /\ d.end.n > now + Lifetime
      BY <2>5 DEF CurrentAccepted
    <3> QED
      BY <1>g, <2>2, <2>3, <2>4, <3>1 DEF Goal
  <2> QED
    BY <2>2, <2>5 DEF Goal, draft
<1>6. CASE d \in Third
  <2>1. PICK i \in DOMAIN draft.adjustments, v \in Damages :
            d = [draft EXCEPT !.adjustments[i].amount = v]
    BY <1>6 DEF Third
  <2>2. /\ d.start = draft.start /\ d.end = draft.end /\ d.totals = draft.totals
        /\ d.balances = draft.balances /\ draft.adjustments = Adjusted(c)
        /\ d.adjustments = [Adjusted(c) EXCEPT ![i] = [Adjusted(c)[i] EXCEPT !.amount = v]]
        /\ d.status = "DRAFT" /\ d.end = Number(c.end)
    BY <1>2, <2>1
  <2>3. DOMAIN Adjusted(c) = DOMAIN c.trials /\ i \in DOMAIN c.trials
    <3>1. DOMAIN Adjusted(c) = DOMAIN c.trials
      BY DEF Adjusted
    <3>2. i \in DOMAIN draft.adjustments /\ draft.adjustments = Adjusted(c)
      BY <2>1, <2>2
    <3> QED
      BY ONLY <3>1, <3>2
  <2>4. DOMAIN d.adjustments = DOMAIN Adjusted(c)
    BY <2>2
  <2>5. d.adjustments[i] = [Adjusted(c)[i] EXCEPT !.amount = v]
    BY <2>2, <2>3
  <2>6. d.adjustments[i].amount = v
    <3>1. ASSUME NEW x, NEW n, x = [name |-> "Free trial credits", currency |-> "USD", amount |-> n]
          PROVE  [x EXCEPT !.amount = v].amount = v
      BY <3>1
    <3>2. Adjusted(c)[i] = [name |-> "Free trial credits", currency |-> "USD",
                            amount |-> Number(c.trials[i])]
      BY <2>3, AdjustedAt
    <3>3. [Adjusted(c)[i] EXCEPT !.amount = v].amount = v
      BY ONLY <3>1, <3>2
    <3> QED
      BY <2>5, <3>3
  <2>7. ~ (v.n < 0)
    BY DEF Damages, Absent, NaN, Flag
  <2>8. \A j \in DOMAIN Adjusted(c) : j # i => d.adjustments[j] = Adjusted(c)[j]
    BY <2>2
  <2>9. ASSUME CurrentAccepted(d)
        PROVE  Goal
    <3>1. TrialCreditVerified(Adjusted(c))
      <4>1. PICK j \in DOMAIN d.adjustments :
              /\ d.adjustments[j].name = "Free trial credits"
              /\ d.adjustments[j].currency = "USD"
              /\ IsFinite(d.adjustments[j].amount)
              /\ d.adjustments[j].amount.n < 0
        BY <2>9 DEF CurrentAccepted, TrialCreditVerified
      <4>2. j # i /\ j \in DOMAIN Adjusted(c)
        BY <2>4, <2>6, <2>7, <4>1
      <4>3. d.adjustments[j] = Adjusted(c)[j]
        BY <2>8, <4>2
      <4> QED
        BY <4>1, <4>2, <4>3 DEF TrialCreditVerified
    <3>2. CurrentAccepted(draft)
      BY <2>2, <2>9, <3>1 DEF CurrentAccepted
    <3>3. d.end.n > now + Lifetime
      BY <2>9 DEF CurrentAccepted
    <3> QED
      BY <1>g, <2>2, <3>2, <3>3 DEF Goal
  <2> QED
    BY <2>2, <2>9 DEF Goal, draft
<1> QED
  BY <1>1, <1>4, <1>5, <1>6

\* What is accepted of damaged invoices is free, unless they are misread; and it lasts.
LEMMA InvoiceDamaged ==
    ASSUME NEW c \in Cloud, NEW a \in DamagedInvoices(c), InvoiceAccepted(a)
    PROVE  /\ FreeInvoice(c) \/ Misread(a, c)
           /\ c.end > now + Lifetime
<1> DEFINE Ds == 1 .. c.drafts + 1
           Damaged(b, i) == {[b EXCEPT ![i] = d] : d \in DamagedInvoice(b[i])}
<1>1. PICK i \in Ds : a \in Damaged(Bill(c), i)
  <2>1. InvoiceAnswers(c) = {Bill(c)}
    BY DEF InvoiceAnswers, Bill
  <2>2. DamagedInvoices(c) = UNION {Damaged(b, i) : b \in InvoiceAnswers(c), i \in Ds}
    BY DEF DamagedInvoices
  <2> HIDE DEF Damaged, Ds
  <2> QED
    BY <2>1, <2>2
<1>2. PICK d \in DamagedInvoice(Bill(c)[i]) : a = [Bill(c) EXCEPT ![i] = d]
  BY <1>1
<1>3. /\ c.drafts \in Nat /\ DOMAIN a = Ds /\ a[i] = d
      /\ \A j \in Ds : j # i => a[j] = Bill(c)[j]
  BY <1>1, <1>2, BillRendered
<1>4. PICK k \in DOMAIN a : Drafts(a) = {k} /\ CurrentAccepted(a[k])
  BY DEF InvoiceAccepted
<1>5. /\ k \in Ds /\ a[k].status = "DRAFT"
      /\ \A j \in Ds : a[j].status = "DRAFT" => j = k
  <2>1. Drafts(a) = {j \in Ds : a[j].status = "DRAFT"}
    BY <1>3 DEF Drafts
  <2> QED
    BY <1>4, <2>1
<1>6. ASSUME NEW j \in Ds, j # i, j # 1
      PROVE  j = k
  <2>1. a[j] = Bill(c)[j] /\ Bill(c)[j].status = "DRAFT"
    BY <1>3, <1>6, BillRendered
  <2> HIDE DEF Ds
  <2> QED
    BY <1>5, <1>6, <2>1
<1>7. CASE k # i
  <2>1. k # 1 /\ a[k] = Invoice(c, "DRAFT")
    BY <1>3, <1>5, <1>7, BillRendered
  <2>2. CurrentAccepted(Invoice(c, "DRAFT"))
    BY <1>4, <2>1
  <2>3. c.end > now + Lifetime
    <3>1. Invoice(c, "DRAFT").end = Number(c.end)
      BY InvoiceFields
    <3> QED
      BY <2>2, <3>1, Amounts DEF CurrentAccepted
  <2>4. CASE i = 1
    <3>1. c.drafts = 1
      BY <1>3, <1>5, <1>6, <2>1, <2>4
    <3> QED
      BY <2>2, <2>3, <3>1, DraftRendered DEF FreeUntil
  <2>5. CASE i # 1
    <3>1. c.drafts > 1 /\ i \in 2 .. c.drafts + 1
      BY <1>1, <1>3, <1>5, <1>7, <2>1, <2>5
    <3>2. d \in DamagedInvoice(Invoice(c, "DRAFT"))
      BY <1>1, <1>2, <2>5, BillRendered
    <3>3. a[i].status = Missing
      BY <1>1, <1>3, <1>5, <1>7, <3>2, DocumentDamaged
    <3> QED
      BY <2>3, <3>1, <3>3 DEF Misread
  <2> QED
    BY <2>4, <2>5
<1>8. CASE k = i
  <2>1. i # 1
    <3>1. SUFFICES ASSUME i = 1 PROVE FALSE
      OBVIOUS
    <3>2. d \in DamagedInvoice(Invoice(c, "FINALIZED")) /\ d.status = "DRAFT"
      BY <1>2, <1>3, <1>5, <1>8, <3>1 DEF Bill
    <3>3. Invoice(c, "FINALIZED").status = "FINALIZED"
      BY DEF Invoice
    <3> QED
      BY <3>2, <3>3, StatusDamaged
  <2>2. d \in DamagedInvoice(Invoice(c, "DRAFT"))
    BY <1>1, <1>2, <2>1, BillRendered
  <2>3. /\ c.end > now + Lifetime
        /\ \/ CurrentAccepted(Invoice(c, "DRAFT"))
           \/ d.totals # <<>> /\ d.totals[1].amount = Flag(0)
    BY <1>3, <1>4, <1>5, <1>8, <2>2, DocumentDamaged
  <2>4. i \in 2 .. c.drafts + 1 /\ (c.drafts = 1 \/ c.drafts > 1)
    BY <1>1, <1>3, <2>1
  <2>5. CASE d.totals # <<>> /\ d.totals[1].amount = Flag(0)
    BY <1>3, <2>3, <2>4, <2>5 DEF Misread
  <2>6. CASE CurrentAccepted(Invoice(c, "DRAFT"))
    <3>1. c.drafts = 1
      <4>1. SUFFICES ASSUME c.drafts > 1 PROVE FALSE
        BY <2>4
      <4>2. PICK j \in Ds : j # i /\ j # 1
        <5>1. 2 \in Ds /\ 3 \in Ds
          BY <1>3, <4>1
        <5> QED
          BY <5>1
      <4> QED
        BY <1>6, <1>8, <4>2
    <3> QED
      BY <2>3, <2>6, <3>1, DraftRendered DEF FreeUntil
  <2> QED
    BY <2>3, <2>5, <2>6
<1> QED
  BY <1>7, <1>8

-----------------------------------------------------------------------------
(* The script *)

\* The invariant, with what it makes true of the outcome.
Sound == GateInv /\ VerifiedIsFree /\ RejectedForCause

LEMMA GateConstants ==
    /\ MaxUnits \in Nat \ {0} /\ GiB \in Nat \ {0} /\ Timeout \in Nat \ {0}
    /\ Lifetime \in Nat /\ MaxChanges \in Nat
    /\ Missing \notin Account
BY CostGateAssumption DEF Missing

LEMMA AnsweredType ==
    ASSUME GateTypeOK, misread' \in BOOLEAN, NEW command \in Commands,
           NEW next \in Commands \cup {"verified", "rejected"}, NEW kept,
           NEW free \in BOOLEAN, NEW until \in Nat, NEW damaged \in BOOLEAN,
           Answered(command, next, kept, free, until, damaged)
    PROVE  /\ GateTypeOK'
           /\ step = command /\ step' = next /\ elapsed' = 0 /\ answer' = kept
           /\ seen'[command] = [free |-> free, until |-> until, account |-> cloud.account]
           /\ \A c \in Commands : c # command => seen'[c] = seen[c]
           /\ faulted' = (faulted \/ damaged)
           /\ now' = now /\ cloud' = cloud /\ selection' = selection
           /\ cloud \in Cloud /\ cloud.account \in Account
           /\ seen'[command] # Nothing
<1>1. cloud \in Cloud /\ cloud.account \in Account
  BY DEF GateTypeOK, Cloud
<1> DEFINE new == [free |-> free, until |-> until, account |-> cloud.account]
<1>2. new \in [free : BOOLEAN, until : Nat, account : Account \cup {Missing}]
      /\ new.account = cloud.account
  BY <1>1
<1>3. /\ step = command /\ step' = next /\ elapsed' = 0 /\ answer' = kept
      /\ seen' = [seen EXCEPT ![command] = new]
      /\ faulted' = (faulted \/ damaged)
      /\ UNCHANGED <<now, cloud, changes, selection>>
  BY DEF Answered
<1> HIDE DEF new
<1>4. seen' \in [Commands -> [free : BOOLEAN, until : Nat, account : Account \cup {Missing}]]
  BY <1>2, <1>3 DEF GateTypeOK
<1>5. /\ seen'[command] = new
      /\ \A c \in Commands : c # command => seen'[c] = seen[c]
  BY <1>3 DEF GateTypeOK
<1>6. GateTypeOK'
  BY <1>3, <1>4, GateConstants DEF GateTypeOK
<1>7. new # Nothing
  BY <1>1, <1>2, GateConstants DEF Nothing
<1> QED
  BY <1>1, <1>3, <1>5, <1>6, <1>7 DEF new


LEMMA AskPlanKeeps ==
    ASSUME Sound, AskPlan
    PROVE  Sound'
<1>0. PICK damaged \in BOOLEAN :
        \E a \in IF damaged THEN DamagedPlans(cloud) ELSE PlanAnswers(cloud) :
            /\ Answered("plan", "identity", a, FreePlan(cloud), cloud.expires, damaged)
            /\ UNCHANGED misread
  BY DEF AskPlan
<1>1. PICK a \in IF damaged THEN DamagedPlans(cloud) ELSE PlanAnswers(cloud) :
        /\ Answered("plan", "identity", a, FreePlan(cloud), cloud.expires, damaged)
        /\ UNCHANGED misread
  BY <1>0
<1>2. GateTypeOK /\ cloud \in Cloud /\ cloud.expires \in Nat /\ FreePlan(cloud) \in BOOLEAN
  BY DEF Sound, GateInv, GateTypeOK, Cloud, FreePlan
<1>m. misread \in BOOLEAN
  BY DEF Sound, GateInv, GateTypeOK
<1>3. /\ GateTypeOK'
      /\ step = "plan" /\ step' = "identity" /\ answer' = a
      /\ seen'["plan"] = [free |-> FreePlan(cloud), until |-> cloud.expires,
                          account |-> cloud.account]
      /\ faulted' = (faulted \/ damaged)
      /\ now' = now /\ selection' = selection /\ cloud.account \in Account
  BY <1>1, <1>2, <1>m, AnsweredType DEF Commands
<1>4. selection' # "cockroach"
  BY <1>3 DEF Sound, GateInv
<1>5. /\ seen'["plan"].free <=> FreePlan(cloud)
      /\ seen'["plan"].until = cloud.expires
      /\ seen'["plan"].account = cloud.account
  BY <1>3
<1>6. /\ a.expires.kind = "number" => a.expires.n = cloud.expires
      /\ \A account : PlanAccepted(a, account) => FreePlan(cloud) /\ account = cloud.account
      /\ ~ damaged =>
            /\ a.account = cloud.account /\ a.expires.kind = "number"
            /\ FreePlan(cloud) => /\ a.type = "FREE" /\ a.status = "ACTIVE"
                                  /\ a.unit = "USD" /\ Positive(a.credits)
  <2>1. CASE damaged
    BY <1>1, <1>2, <2>1, PlanDamaged
  <2>2. CASE ~ damaged
    <3>1. a \in PlanAnswers(cloud)
      BY <1>1, <2>2
    <3>2. /\ a.type = cloud.type /\ a.status = cloud.status /\ a.account = cloud.account
          /\ a.unit = "USD" /\ a.expires = Number(cloud.expires)
          /\ FreePlan(cloud) => Positive(a.credits)
          /\ \A account : PlanAccepted(a, account) => FreePlan(cloud) /\ account = cloud.account
      BY <1>2, <3>1, PlanRendered
    <3>3. FreePlan(cloud) => cloud.type = "FREE" /\ cloud.status = "ACTIVE"
      BY DEF FreePlan
    <3>4. a.expires.kind = "number" /\ a.expires.n = cloud.expires
      BY <3>2, Amounts
    <3> QED
      BY <3>2, <3>3, <3>4
  <2> QED
    BY <2>1, <2>2
<1>7. PlanKept'
  <2>1. \A account \in Account \cup {Missing} :
            PlanAccepted(answer, account)' => FreePlan(cloud) /\ account = cloud.account
    BY <1>3, <1>6 DEF PlanAccepted
  <2> QED
    BY <1>3, <1>5, <1>6, <2>1 DEF PlanKept
<1> QED
  BY <1>3, <1>4, <1>7 DEF Sound, GateInv, VerifiedIsFree, RejectedForCause

\* The plan is accepted exactly if it was free, of this account and lasts.
LEMMA PlanJudged ==
    ASSUME Sound, step = "identity", NEW account \in Account \cup {Missing}
    PROVE  /\ PlanAccepted(answer, account) =>
                /\ seen["plan"].free /\ seen["plan"].account = account
                /\ seen["plan"].until > now + Lifetime
           /\ ~ PlanAccepted(answer, account) =>
                \/ faulted \/ ~ seen["plan"].free \/ seen["plan"].account # account
                \/ seen["plan"].until <= now + Lifetime
<1>1. PlanKept /\ now \in Nat /\ seen["plan"].until \in Nat /\ seen["plan"].account \in Account
  BY DEF Sound, GateInv, GateTypeOK, PlanKept, Commands
<1>2. PlanAccepted(answer, account) =>
        /\ answer.expires.kind = "number" /\ answer.expires.n > now + Lifetime
  BY DEF PlanAccepted
<1>3. PlanAccepted(answer, account) =>
        /\ seen["plan"].free /\ seen["plan"].account = account
        /\ seen["plan"].until > now + Lifetime
  BY <1>1, <1>2 DEF PlanKept
<1>4. ASSUME ~ faulted, seen["plan"].free, seen["plan"].account = account,
             seen["plan"].until > now + Lifetime
      PROVE  PlanAccepted(answer, account)
  <2>1. /\ answer.type = "FREE" /\ answer.status = "ACTIVE" /\ answer.unit = "USD"
        /\ Positive(answer.credits) /\ answer.account = account
        /\ answer.expires.kind = "number" /\ answer.expires.n = seen["plan"].until
    BY <1>1, <1>4 DEF PlanKept
  <2>2. account # Missing
    BY <1>1, <1>4, GateConstants
  <2> QED
    BY <1>4, <2>1, <2>2 DEF PlanAccepted
<1> QED
  BY <1>1, <1>3, <1>4, GateConstants

LEMMA AskIdentityKeeps ==
    ASSUME Sound, AskIdentity
    PROVE  Sound'
<1>1. PICK damaged \in BOOLEAN :
        LET account == IF damaged THEN Missing ELSE cloud.account
        IN  /\ Answered("identity",
                        IF PlanAccepted(answer, account) THEN AfterAws ELSE "rejected",
                        <<>>, TRUE, 0, damaged)
            /\ UNCHANGED misread
  BY DEF AskIdentity
<1> DEFINE account == IF damaged THEN Missing ELSE cloud.account
           next == IF PlanAccepted(answer, account) THEN AfterAws ELSE "rejected"
<1>2. Answered("identity", next, <<>>, TRUE, 0, damaged) /\ UNCHANGED misread
  BY <1>1
<1>3. GateTypeOK /\ misread \in BOOLEAN /\ next \in {"verified", "cluster", "rejected"}
  BY DEF Sound, GateInv, GateTypeOK, AfterAws
<1>4. account \in Account \cup {Missing}
  BY <1>3 DEF GateTypeOK, Cloud
<1>5. PlanAccepted(answer, account) => next = AfterAws
  OBVIOUS
<1>6. ~ PlanAccepted(answer, account) => next = "rejected"
  OBVIOUS
<1>7. ~ damaged => account = cloud.account
  OBVIOUS
<1>8. damaged => account = Missing
  OBVIOUS
<1> HIDE DEF account, next
<1>9. /\ GateTypeOK'
      /\ step = "identity" /\ step' = next /\ elapsed' = 0
      /\ seen'["identity"] = [free |-> TRUE, until |-> 0, account |-> cloud.account]
      /\ seen'["plan"] = seen["plan"]
      /\ faulted' = (faulted \/ damaged)
      /\ now' = now /\ selection' = selection /\ seen'["identity"] # Nothing
  BY <1>2, <1>3, AnsweredType DEF Commands
<1>10. seen'["identity"].account = cloud.account
  BY <1>9
<1>11. selection # "cockroach" /\ seen["plan"].account \in Account
       /\ now \in Nat /\ seen["plan"].until \in Nat
  BY <1>9 DEF Sound, GateInv, PlanKept, GateTypeOK, Commands
<1>12. CASE PlanAccepted(answer, account)
  <2>1. /\ seen["plan"].free /\ seen["plan"].account = account
        /\ seen["plan"].until > now + Lifetime
    BY <1>4, <1>9, <1>12, PlanJudged
  <2>2. account = cloud.account
    BY <1>7, <1>8, <1>11, <2>1, GateConstants
  <2>3. PlanStands(0)'
    BY <1>9, <1>10, <1>11, <2>1, <2>2, GateConstants DEF PlanStands
  <2>4. CASE selection = "aws"
    <3>1. step' = "verified"
      BY <1>5, <1>9, <1>12, <2>4 DEF AfterAws
    <3>2. VerifiedIsFree'
      BY <1>9, <1>10, <1>11, <2>1, <2>2, <2>4, GateConstants DEF VerifiedIsFree
    <3> QED
      BY <1>9, <3>1, <3>2 DEF Sound, GateInv, RejectedForCause
  <2>5. CASE selection # "aws"
    <3>1. step' = "cluster"
      BY <1>5, <1>9, <1>12, <2>5 DEF AfterAws
    <3> QED
      BY <1>9, <2>3, <2>5, <3>1 DEF Sound, GateInv, VerifiedIsFree, RejectedForCause
  <2> QED
    BY <2>4, <2>5
<1>13. CASE ~ PlanAccepted(answer, account)
  <2>1. \/ faulted \/ ~ seen["plan"].free \/ seen["plan"].account # account
        \/ seen["plan"].until <= now + Lifetime
    BY <1>4, <1>9, <1>13, PlanJudged
  <2>2. seen'["plan"] # Nothing
    BY <1>9, <1>11, GateConstants DEF Nothing
  <2>3. Asked("plan")' /\ Asked("identity")'
    BY <1>9, <2>2 DEF Asked
  <2>4. RejectedForCause'
    BY <1>7, <1>9, <1>10, <2>1, <2>3 DEF RejectedForCause
  <2> QED
    BY <1>6, <1>9, <1>13, <2>4 DEF Sound, GateInv, VerifiedIsFree
<1> QED
  BY <1>12, <1>13


LEMMA AskClusterKeeps ==
    ASSUME Sound, AskCluster
    PROVE  Sound'
<1>0. PICK damaged \in BOOLEAN :
        \E a \in IF damaged THEN DamagedClusters(cloud) ELSE ClusterAnswers(cloud) :
            /\ Answered("cluster", "invoices", a, FreeCluster(cloud), 0, damaged)
            /\ UNCHANGED misread
  BY DEF AskCluster
<1>1. PICK a \in IF damaged THEN DamagedClusters(cloud) ELSE ClusterAnswers(cloud) :
        /\ Answered("cluster", "invoices", a, FreeCluster(cloud), 0, damaged)
        /\ UNCHANGED misread
  BY <1>0
<1>2. GateTypeOK /\ misread \in BOOLEAN /\ cloud \in Cloud /\ FreeCluster(cloud) \in BOOLEAN
  BY DEF Sound, GateInv, GateTypeOK, FreeCluster
<1>3. /\ GateTypeOK'
      /\ step = "cluster" /\ step' = "invoices" /\ answer' = a /\ elapsed' = 0
      /\ seen'["cluster"] = [free |-> FreeCluster(cloud), until |-> 0, account |-> cloud.account]
      /\ seen'["plan"] = seen["plan"] /\ seen'["identity"] = seen["identity"]
      /\ faulted' = (faulted \/ damaged)
      /\ now' = now /\ selection' = selection /\ cloud.account \in Account
  BY <1>1, <1>2, AnsweredType DEF Commands
<1>4. /\ seen'["cluster"].free <=> FreeCluster(cloud)
      /\ seen'["cluster"].account = cloud.account
  BY <1>3
<1>5. /\ ClusterAccepted(a) => FreeCluster(cloud)
      /\ ~ damaged /\ FreeCluster(cloud) => ClusterAccepted(a)
  <2>1. CASE damaged
    <3>1. a \in DamagedClusters(cloud)
      BY <1>1, <2>1
    <3> QED
      BY <2>1, <3>1, ClusterDamaged
  <2>2. CASE ~ damaged
    <3>1. a \in ClusterAnswers(cloud)
      BY <1>1, <2>2
    <3> QED
      BY <1>2, <3>1, ClusterComplete
  <2> QED
    BY <2>1, <2>2
<1>6. ClusterKept'
  BY <1>3, <1>4, <1>5 DEF ClusterKept
<1>7. selection # "aws" /\ (selection # "cockroach" => PlanStands(0))
  BY <1>3 DEF Sound, GateInv
<1>8. selection # "cockroach" => PlanStands(Timeout)'
  <2>1. /\ now \in Nat /\ seen["plan"].until \in Nat /\ elapsed \in Nat /\ elapsed <= Timeout
    BY <1>2, GateConstants DEF GateTypeOK, Commands
  <2> QED
    BY <1>3, <1>7, <2>1, GateConstants DEF PlanStands
<1> QED
  BY <1>3, <1>6, <1>7, <1>8 DEF Sound, GateInv, VerifiedIsFree, RejectedForCause

LEMMA AskInvoicesKeeps ==
    ASSUME Sound, AskInvoices
    PROVE  Sound'
<1> DEFINE Verdict(damaged, a) ==
        [accepted |-> InvoiceAccepted(a), misread |-> damaged /\ Misread(a, cloud)]
           Of(damaged) == IF damaged THEN DamagedInvoices(cloud) ELSE InvoiceAnswers(cloud)
<1>0. PICK damaged \in BOOLEAN :
        \E verdict \in {Verdict(damaged, a) : a \in Of(damaged)} :
            /\ Answered("invoices",
                        IF ClusterAccepted(answer) /\ verdict.accepted THEN "verified"
                                                                      ELSE "rejected",
                        <<>>, FreeInvoice(cloud), cloud.end, damaged)
            /\ misread' = verdict.misread
  BY DEF AskInvoices
<1> HIDE DEF Verdict, Of
<1>a. PICK a \in Of(damaged) :
        /\ Answered("invoices",
                    IF ClusterAccepted(answer) /\ Verdict(damaged, a).accepted THEN "verified"
                                                                  ELSE "rejected",
                    <<>>, FreeInvoice(cloud), cloud.end, damaged)
        /\ misread' = Verdict(damaged, a).misread
  BY <1>0
<1>b. /\ Verdict(damaged, a).accepted = InvoiceAccepted(a)
      /\ Verdict(damaged, a).misread = (damaged /\ Misread(a, cloud))
  BY DEF Verdict
<1>1. /\ a \in IF damaged THEN DamagedInvoices(cloud) ELSE InvoiceAnswers(cloud)
      /\ Answered("invoices",
                  IF ClusterAccepted(answer) /\ InvoiceAccepted(a) THEN "verified" ELSE "rejected",
                  <<>>, FreeInvoice(cloud), cloud.end, damaged)
      /\ misread' = (damaged /\ Misread(a, cloud))
  BY <1>a, <1>b DEF Of
<1>c. misread' \in BOOLEAN
  BY <1>1 DEF Misread
<1> DEFINE next ==
        IF ClusterAccepted(answer) /\ InvoiceAccepted(a) THEN "verified" ELSE "rejected"
<1>2. /\ GateTypeOK /\ cloud \in Cloud /\ FreeInvoice(cloud) \in BOOLEAN
      /\ cloud.end \in Nat
  BY DEF Sound, GateInv, GateTypeOK, FreeInvoice, Cloud
<1>3. /\ next \in {"verified", "rejected"}
      /\ next = "verified" => ClusterAccepted(answer) /\ InvoiceAccepted(a)
      /\ next = "rejected" => ~ ClusterAccepted(answer) \/ ~ InvoiceAccepted(a)
  OBVIOUS
<1> HIDE DEF next
<1>4. /\ GateTypeOK'
      /\ step = "invoices" /\ step' = next /\ elapsed' = 0
      /\ seen'["invoices"] = [free |-> FreeInvoice(cloud), until |-> cloud.end,
                              account |-> cloud.account]
      /\ seen'["plan"] = seen["plan"] /\ seen'["identity"] = seen["identity"]
      /\ seen'["cluster"] = seen["cluster"]
      /\ faulted' = (faulted \/ damaged)
      /\ now' = now /\ selection' = selection /\ seen'["invoices"] # Nothing
  BY <1>1, <1>c, <1>2, <1>3, AnsweredType DEF Commands, next
<1>5. /\ seen'["invoices"].free <=> FreeInvoice(cloud)
      /\ seen'["invoices"].until = cloud.end
  BY <1>4
<1>6. /\ InvoiceAccepted(a) =>
            (FreeInvoice(cloud) \/ misread') /\ cloud.end > now + Lifetime
      /\ ~ damaged /\ FreeUntil(cloud) => InvoiceAccepted(a)
  <2>1. CASE damaged
    <3>1. a \in DamagedInvoices(cloud)
      BY <1>1, <2>1
    <3> QED
      BY <1>1, <1>2, <2>1, <3>1, InvoiceDamaged
  <2>2. CASE ~ damaged
    <3>1. a \in InvoiceAnswers(cloud)
      BY <1>1, <2>2
    <3> QED
      BY <1>2, <2>2, <3>1, InvoiceComplete DEF FreeUntil
  <2> QED
    BY <2>1, <2>2
<1>7. ClusterKept /\ (selection # "cockroach" => PlanStands(Timeout))
  BY <1>4 DEF Sound, GateInv
<1>8. now \in Nat /\ seen["plan"].until \in Nat /\ elapsed \in Nat /\ elapsed <= Timeout
  BY <1>2, GateConstants DEF GateTypeOK, Commands
<1>9. CASE next = "verified"
  <2>1. /\ seen'["cluster"].free
        /\ seen'["invoices"].free \/ misread'
        /\ seen'["invoices"].until > now' + Lifetime
    BY <1>3, <1>4, <1>5, <1>6, <1>7, <1>9 DEF ClusterKept, FreeUntil
  <2>2. ASSUME selection # "cockroach"
        PROVE  /\ seen'["plan"].free
               /\ seen'["plan"].account = seen'["identity"].account
               /\ seen'["plan"].until + 2 * Timeout > now' + Lifetime
    BY <1>4, <1>7, <1>8, <2>2, GateConstants DEF PlanStands
  <2>3. VerifiedIsFree'
    BY <1>4, <2>1, <2>2 DEF VerifiedIsFree
  <2> QED
    BY <1>4, <1>9, <2>3 DEF Sound, GateInv, RejectedForCause
<1>10. CASE next = "rejected"
  <2>1. Asked("invoices")'
    BY <1>4 DEF Asked
  <2>2. ASSUME ~ faulted', ~ ClusterAccepted(answer)
        PROVE  Asked("cluster")' /\ ~ seen'["cluster"].free
    <3>1. seen'["cluster"].account # Missing
      BY <1>4, <1>7, GateConstants DEF ClusterKept
    <3>2. seen'["cluster"] # Nothing
      BY <3>1 DEF Nothing
    <3> QED
      BY <1>4, <1>7, <2>2, <3>2 DEF ClusterKept, Asked
  <2>3. ASSUME ~ faulted', ~ InvoiceAccepted(a)
        PROVE  ~ seen'["invoices"].free \/ seen'["invoices"].until <= now' + Lifetime
    <3>1. ~ FreeUntil(cloud)
      BY <1>4, <1>6, <2>3
    <3>2. cloud.end > now + Lifetime \/ cloud.end <= now + Lifetime
      BY <1>2, <1>8, GateConstants
    <3> QED
      BY <1>4, <1>5, <3>1, <3>2 DEF FreeUntil
  <2>4. RejectedForCause'
    BY <1>3, <1>10, <2>1, <2>2, <2>3 DEF RejectedForCause
  <2> QED
    BY <1>4, <1>10, <2>4 DEF Sound, GateInv, VerifiedIsFree
<1> QED
  BY <1>3, <1>9, <1>10

LEMMA RejectsKeeps ==
    ASSUME Sound, Rejects
    PROVE  Sound'
BY DEF Rejects, Sound, GateInv, GateTypeOK, VerifiedIsFree, RejectedForCause, Commands

\* Whatever changes, it is still a cloud.
LEMMA CloudChanges ==
    ASSUME NEW c \in Cloud, NEW f \in DOMAIN Alternatives, NEW v \in Alternatives[f]
    PROVE  [c EXCEPT ![f] = v] \in Cloud
<1>1. DOMAIN Alternatives =
        {"type", "status", "account", "credits", "expires", "name", "plan", "state", "provider",
         "units", "storage", "drafts", "start", "end", "total", "balance", "trials"}
  BY DEF Alternatives
<1>2. DOMAIN c = DOMAIN Alternatives
  BY <1>1 DEF Cloud
<1>3. v \in CASE f = "type" -> {"FREE", "PAID"}
              [] f = "status" -> {"ACTIVE", "EXPIRED"}
              [] f = "account" -> Account
              [] f = "name" -> {ClusterName, "another"}
              [] f = "plan" -> {"BASIC", "STANDARD"}
              [] f = "state" -> {"CREATED", "CREATING"}
              [] f = "provider" -> {"AWS", "GCP"}
              [] f \in {"units", "storage"} -> Nat \ {0}
              [] f \in {"credits", "expires", "drafts", "start", "end", "total", "balance"} -> Nat
              [] f = "trials" -> Seq(Int)
  <2>1. CASE f \in {"type", "status", "account", "name", "plan", "state", "provider"}
    BY <2>1 DEF Alternatives
  <2>2. CASE f \in {"units", "storage"}
    BY <2>2, GateConstants DEF Alternatives
  <2>3. CASE f \in {"credits", "expires", "drafts", "start", "end", "total", "balance"}
    BY <2>3, GateConstants DEF Alternatives
  <2>4. CASE f = "trials"
    <3>1. v \in {<<>>, <<1>>, <<1, -1>>}
      BY <2>4 DEF Alternatives
    <3>2. <<>> \in Seq(Int) /\ <<1>> \in Seq(Int) /\ <<1, -1>> \in Seq(Int)
      OBVIOUS
    <3> QED
      BY <2>4, <3>1, <3>2
  <2> QED
    BY <1>1, <2>1, <2>2, <2>3, <2>4
<1> QED
  BY <1>1, <1>2, <1>3 DEF Cloud


LEMMA ChangeKeeps ==
    ASSUME Sound, Change
    PROVE  Sound'
<1>1. /\ changes' = changes + 1
      /\ UNCHANGED <<now, selection, step, elapsed, answer, seen, faulted, misread>>
      /\ \E f \in DOMAIN Alternatives : \E v \in Alternatives[f] : cloud' = [cloud EXCEPT ![f] = v]
  BY DEF Change
<1>2. cloud' \in Cloud
  <2>1. PICK f \in DOMAIN Alternatives : \E v \in Alternatives[f] : cloud' = [cloud EXCEPT ![f] = v]
    BY <1>1
  <2>2. PICK v \in Alternatives[f] : cloud' = [cloud EXCEPT ![f] = v]
    BY <2>1
  <2>3. cloud \in Cloud
    BY DEF Sound, GateInv, GateTypeOK
  <2>4. [cloud EXCEPT ![f] = v] \in Cloud
    BY <2>3, CloudChanges
  <2> QED
    BY <2>2, <2>4
<1>3. GateTypeOK'
  BY <1>1, <1>2 DEF Sound, GateInv, GateTypeOK
<1>4. /\ PlanKept => PlanKept'
      /\ ClusterKept => ClusterKept'
      /\ \A lag : PlanStands(lag) => PlanStands(lag)'
      /\ VerifiedIsFree => VerifiedIsFree'
      /\ RejectedForCause => RejectedForCause'
  BY <1>1 DEF PlanKept, PlanAccepted, ClusterKept, PlanStands, VerifiedIsFree,
              RejectedForCause, Asked
<1> QED
  BY <1>1, <1>3, <1>4 DEF Sound, GateInv

\* What time passes the validation does not notice, except that less is left.
LEMMA TickKeeps ==
    ASSUME Sound, Tick
    PROVE  Sound'
<1>1. /\ step \in Commands /\ elapsed < Timeout /\ now' = now + 1 /\ elapsed' = elapsed + 1
      /\ UNCHANGED <<cloud, changes, selection, step, answer, seen, faulted, misread>>
  BY DEF Tick, Running
<1>2. GateTypeOK /\ now \in Nat /\ elapsed \in Nat /\ seen["plan"].until \in Nat
  BY GateConstants DEF Sound, GateInv, GateTypeOK, Commands
<1>3. GateTypeOK'
  BY <1>1, <1>2, GateConstants DEF GateTypeOK
<1>4. PlanKept => PlanKept'
  <2>1. ASSUME PlanKept, NEW account \in Account \cup {Missing}, PlanAccepted(answer, account)'
        PROVE  PlanAccepted(answer, account)
    <3>1. /\ answer.expires.kind = "number"
          /\ answer.expires.n > (now + 1) + Lifetime
      BY <1>1, <2>1 DEF PlanAccepted
    <3>2. answer.expires.n \in Nat
      BY <1>2, <2>1, <3>1 DEF PlanKept
    <3>3. answer.expires.n > now + Lifetime
      BY <1>2, <3>1, <3>2, GateConstants
    <3> QED
      BY <1>1, <2>1, <3>3 DEF PlanAccepted
  <2> QED
    BY <1>1, <2>1 DEF PlanKept
<1>5. ClusterKept => ClusterKept'
  BY <1>1 DEF ClusterKept
<1>6. \A lag : PlanStands(lag) => PlanStands(lag)'
  <2>1. now' - elapsed' = now - elapsed
    BY <1>1, <1>2
  <2> QED
    BY <1>1, <2>1 DEF PlanStands
<1>7. VerifiedIsFree' /\ RejectedForCause'
  BY <1>1 DEF VerifiedIsFree, RejectedForCause, Commands
<1> QED
  BY <1>1, <1>3, <1>4, <1>5, <1>6, <1>7 DEF Sound, GateInv

LEMMA GateInit == Init => Sound
<1> SUFFICES ASSUME Init PROVE Sound
  OBVIOUS
<1>1. PICK account \in Account : account = CHOOSE a \in Account : TRUE
  BY CostGateAssumption
<1>2. Lifetime + 4 * Timeout \in Nat /\ 0 \in 0 .. Timeout
  BY GateConstants
<1>3. <<-1>> \in Seq(Int)
  OBVIOUS
<1>4. Free \in Cloud
  BY <1>1, <1>2, <1>3, GateConstants DEF Free, Cloud
<1>5. seen \in [Commands -> [free : BOOLEAN, until : Nat, account : Account \cup {Missing}]]
  BY DEF Init, Nothing
<1>6. step \in {"plan", "cluster"} /\ (step = "plan" => selection # "cockroach")
      /\ (step = "cluster" => selection = "cockroach")
  BY DEF Init, FirstOf
<1>7. GateTypeOK
  BY <1>2, <1>4, <1>5, <1>6 DEF Init, GateTypeOK, Commands
<1> QED
  BY <1>6, <1>7 DEF Sound, GateInv, VerifiedIsFree, RejectedForCause

LEMMA GateStep == Sound /\ [Next]_vars => Sound'
<1> SUFFICES ASSUME Sound, [Next]_vars PROVE Sound'
  OBVIOUS
<1>1. CASE AskPlan
  BY <1>1, AskPlanKeeps
<1>2. CASE AskIdentity
  BY <1>2, AskIdentityKeeps
<1>3. CASE AskCluster
  BY <1>3, AskClusterKeeps
<1>4. CASE AskInvoices
  BY <1>4, AskInvoicesKeeps
<1>5. CASE CommandFails \/ TimesOut
  BY <1>5, RejectsKeeps DEF CommandFails, TimesOut
<1>6. CASE Change
  BY <1>6, ChangeKeeps
<1>7. CASE Tick
  BY <1>7, TickKeeps
<1>8. CASE UNCHANGED vars
  BY <1>8 DEF vars, Sound, GateInv, GateTypeOK, PlanKept, PlanAccepted, ClusterKept,
       PlanStands,
              VerifiedIsFree, RejectedForCause, Asked
<1> QED
  BY <1>1, <1>2, <1>3, <1>4, <1>5, <1>6, <1>7, <1>8 DEF Next, Ask

\* What main keeps of one answer until the next command is answered still fits what was
\* the case when it was given, however the clouds change meanwhile; and a plan that was
\* accepted has lost no more of its days than the commands since then may take.
THEOREM GateCorrect == Spec => []GateInv
<1>1. Sound => GateInv
  BY DEF Sound
<1> QED
  BY <1>1, GateInit, GateStep, PTL DEF Spec

\* A deployment main reports as verified was free, cloud by cloud, when each command
\* looked, belongs to the account the credentials are of, and stays free for the days
\* required, less the two timeouts that pass after the plan was compared: whatever the
\* answers were, except that of the invoices' total and number main may be wrong if a
\* draft's total is a boolean or one of several drafts has no status.
THEOREM FreeCorrect == Spec => []VerifiedIsFree
<1>1. Sound => VerifiedIsFree
  BY DEF Sound
<1> QED
  BY <1>1, GateInit, GateStep, PTL DEF Spec

\* Whatever shape an answer has, of those _nested tries, and in whichever unit it states
\* its limits, main turns nothing down that is free for long enough, unless a command
\* failed or its answer was malformed.
THEOREM CauseCorrect == Spec => []RejectedForCause
<1>1. Sound => RejectedForCause
  BY DEF Sound
<1> QED
  BY <1>1, GateInit, GateStep, PTL DEF Spec

=============================================================================

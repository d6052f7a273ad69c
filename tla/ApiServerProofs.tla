-------------------------- MODULE ApiServerProofs --------------------------
(***************************************************************************)
(* Proofs about ApiServer, for every set of processes and services, any    *)
(* number of migrations, attempts and detached statements, and both        *)
(* backends.                                                               *)
(***************************************************************************)
EXTENDS ApiServer, TLAPS

USE ServiceAssumption, BoundAssumption, NoneAssumption, DatabaseAssumption

\* Where development keys can be, and where none can.
Kept ==
    /\ ToldOnce
    /\ DevKeysInDevelopment
    /\ \A p \in Processes : pc[p] = "down" \/ backend = "postgres" =>
         keys[p] = NoKeys /\ \A s \in Services : given[p][s] = {}
    /\ \A d \in detached : d.op = "create" /\ d.key \in DevServices => Database \in developed
    /\ \A p \in Processes : toSeed[p] # {} => Database \in developed
    /\ \A p \in Processes : pc[p] \in Starting /\ ~config[p].production => Database \in developed

IInv == TypeOK /\ Migrated /\ Kept

LEMMA UnsetIsConfig == Unset \in Config
  BY DEF Unset, Config

LEMMA InsertKeeps ==
    ASSUME TypeOK, NEW h \in Homes, NEW s \in Services, NEW k \in Keys \cup DevServices,
           Insert(h, s, k)
    PROVE  /\ keys' \in [Homes -> [Services -> Row \cup {None}]]
           /\ \A g \in Homes, t \in Services :
                \/ keys'[g][t] = keys[g][t]
                \/ /\ g = h /\ t = s /\ keys[g][t] = None
                   /\ keys'[g][t] = [key |-> k, revoked |-> FALSE]
           /\ keys[h][s] = None => keys'[h][s] = [key |-> k, revoked |-> FALSE]
           /\ \A g \in Homes : g # h => keys'[g] = keys[g]
<1>1. [key |-> k, revoked |-> FALSE] \in Row
  BY DEF Row
<1>2. CASE keys[h][s] # None
  BY <1>2 DEF Insert, TypeOK
<1>3. CASE keys[h][s] = None
  BY <1>1, <1>3 DEF Insert, TypeOK
<1>4. QED
  BY <1>2, <1>3

LEMMA RevokedRowKeeps ==
    ASSUME NEW row \in Row \cup {None}
    PROVE  /\ RevokedRow(row) \in Row \cup {None}
           /\ RevokedRow(row) = None <=> row = None
           /\ row # None => RevokedRow(row).key = row.key
           /\ row # None /\ row.revoked => RevokedRow(row) = row
<1>1. CASE row = None
  BY <1>1 DEF RevokedRow
<1>2. CASE row \in Row
  <2>1. /\ [row EXCEPT !.revoked = TRUE] \in Row
        /\ [row EXCEPT !.revoked = TRUE].key = row.key
        /\ row.revoked => [row EXCEPT !.revoked = TRUE] = row
    BY <1>2 DEF Row
  <2>2. QED
    BY <1>2, <2>1 DEF RevokedRow
<1>3. QED
  BY <1>1, <1>2

LEMMA ProcessHomes == Database \in Homes /\ \A q \in Processes : q \in Homes /\ q # Database
  BY DEF Homes

LEMMA SetRevokedKeeps ==
    ASSUME TypeOK, NEW h \in Homes, NEW s \in Services, SetRevoked(h, s)
    PROVE  /\ keys' \in [Homes -> [Services -> Row \cup {None}]]
           /\ \A g \in Homes, t \in Services :
                /\ keys'[g][t] = None <=> keys[g][t] = None
                /\ keys[g][t] # None => keys'[g][t].key = keys[g][t].key
                /\ keys[g][t] # None /\ keys[g][t].revoked => keys'[g][t] = keys[g][t]
           /\ \A g \in Homes : g # h => keys'[g] = keys[g]
<1>1. \A g \in Homes, t \in Services :
        keys'[g][t] = IF g = h /\ t = s THEN RevokedRow(keys[g][t]) ELSE keys[g][t]
  BY DEF SetRevoked, TypeOK
<1>2. keys[h][s] \in Row \cup {None}
  BY DEF TypeOK
<1>3. RevokedRow(keys[h][s]) \in Row \cup {None}
  BY <1>2, RevokedRowKeeps
<1>4. keys' \in [Homes -> [Services -> Row \cup {None}]] /\ \A g \in Homes : g # h => keys'[g] = keys[g]
  BY <1>3 DEF SetRevoked, TypeOK
<1>5. QED
  BY <1>1, <1>2, <1>4, RevokedRowKeeps

LEMMA Initially == Init => IInv
<1> SUFFICES ASSUME Init
             PROVE  IInv
  OBVIOUS
<1> USE DEF Init
<1>1. TypeOK
  BY UnsetIsConfig DEF TypeOK, NoKeys, Homes
<1>2. Migrated
  BY DEF Migrated
<1>3. Kept
  <2>1. \A h \in Homes, s \in Services : keys[h][s] = None /\ given[h][s] = {}
    BY DEF NoKeys
  <2>2. ToldOnce /\ DevKeysInDevelopment
    BY <2>1 DEF ToldOnce, DevKeysInDevelopment
  <2>3. \A p \in Processes : keys[p] = NoKeys /\ \A s \in Services : given[p][s] = {}
    BY <2>1 DEF Homes
  <2>4. QED
    BY <2>2, <2>3 DEF Kept, Starting
<1>4. QED
  BY <1>1, <1>2, <1>3 DEF IInv

-----------------------------------------------------------------------------
(* Starting. A step that leaves the keys alone keeps Kept if it keeps what  *)
(* Kept says of the process.                                                *)

LEMMA StartKept ==
    ASSUME IInv, UNCHANGED <<backend, keys, given, developed, minted>>, NEW p \in Processes,
           NEW point \in Starting \cup {"down", "serve"}, NEW store, NEW v, At(p, point, store, v),
           pc[p] \in Starting, backend = "postgres",
           \A q \in Processes : q # p => toSeed'[q] = toSeed[q] /\ config'[q] = config[q],
           point = "down" \/ config'[p] = config[p],
           toSeed'[p] # {} => Database \in developed,
           \A d \in detached' : d \in detached \/ Database \in developed
    PROVE  Kept'
<1> USE DEF IInv, TypeOK, Kept
<1>1. (ToldOnce /\ DevKeysInDevelopment)'
  BY DEF ToldOnce, DevKeysInDevelopment
<1>2. \A q \in Processes : (pc[q] = "down" \/ backend = "postgres" =>
         keys[q] = NoKeys /\ \A s \in Services : given[q][s] = {})'
  OBVIOUS
<1>3. \A q \in Processes : pc'[q] = IF q = p THEN point ELSE pc[q]
  BY DEF At
<1>4. \A q \in Processes : (pc[q] \in Starting /\ ~config[q].production => Database \in developed)'
  BY <1>3 DEF Starting
<1>5. QED
  BY <1>1, <1>2, <1>4

LEMMA AtType ==
    ASSUME TypeOK, NEW p \in Processes, NEW point \in Starting \cup {"down", "serve"},
           NEW store \in {"did", "keys", "credentials"}, NEW v \in 1 .. Versions + 1,
           At(p, point, store, v)
    PROVE  /\ pc' \in [Processes -> Starting \cup {"down", "serve"}]
           /\ opening' \in [Processes -> {"did", "keys", "credentials"}]
           /\ version' \in [Processes -> 1 .. Versions + 1]
           /\ \A q \in Processes : /\ pc'[q] = IF q = p THEN point ELSE pc[q]
                                   /\ opening'[q] = IF q = p THEN store ELSE opening[q]
                                   /\ version'[q] = IF q = p THEN v ELSE version[q]
  BY DEF At, TypeOK

\* Going to a point keeps Migrated if what the point stands for is recorded.
LEMMA AtStarted ==
    ASSUME IInv, UNCHANGED <<backend, tables, recorded>>, NEW p \in Processes,
           NEW point \in Starting \cup {"down", "serve"},
           NEW store \in {"did", "keys", "credentials"}, NEW v \in 1 .. Versions + 1,
           At(p, point, store, v),
           1 .. (v - 1) \subseteq recorded,
           store # "did" \/ (point = "serve" /\ backend = "postgres") => recorded = 1 .. Versions,
           point = "seed" => store = "keys",
           point \in {"create", "record", "commit"} => v <= Versions,
           backend = "memory" => point \in {"down", "serve"},
           \A t \in left' : t \in left \/ 1 .. (t.version - 1) \subseteq recorded
    PROVE  Migrated'
<1>1. \A q \in Processes : /\ pc'[q] = IF q = p THEN point ELSE pc[q]
                           /\ opening'[q] = IF q = p THEN store ELSE opening[q]
                           /\ version'[q] = IF q = p THEN v ELSE version[q]
  BY DEF At, IInv, TypeOK
<1> USE DEF IInv, Migrated
<1>2. \A q \in Processes : (1 .. (version[q] - 1) \subseteq recorded)'
  BY <1>1
<1>3. \A q \in Processes :
        (opening[q] # "did" \/ (pc[q] = "serve" /\ backend = "postgres") => recorded = 1 .. Versions)'
  BY <1>1
<1>4. \A q \in Processes : (pc[q] = "seed" => opening[q] = "keys")'
  BY <1>1
<1>5. \A q \in Processes : (pc[q] \in {"create", "record", "commit"} => version[q] <= Versions)'
  BY <1>1
<1>6. \A q \in Processes : (backend = "memory" => pc[q] \in {"down", "serve"})'
  BY <1>1
<1>7. \A t \in left' : 1 .. (t.version - 1) \subseteq recorded'
  OBVIOUS
<1>8. QED
  BY <1>2, <1>3, <1>4, <1>5, <1>6, <1>7

\* A transaction left open is one its process was in.
LEMMA AbandonKeeps ==
    ASSUME IInv, NEW p \in Processes, Abandon(p)
    PROVE  /\ left' \subseteq Transaction
           /\ \A t \in left' : t \in left \/ 1 .. (t.version - 1) \subseteq recorded
<1>1. \A t \in Leavable(p) : t \in Transaction /\ t.version = version[p]
  BY DEF Leavable
<1>2. \A t \in left' : t \in left \/ t \in Leavable(p)
  BY DEF Abandon
<1>3. 1 .. (version[p] - 1) \subseteq recorded /\ left \subseteq Transaction
  BY DEF IInv, Migrated, TypeOK
<1>4. QED
  BY <1>1, <1>2, <1>3

LEMMA OpenFailedKeeps ==
    ASSUME IInv, NEW p \in Processes, OpenFailed(p), pc[p] \in Starting
    PROVE  /\ \E point \in {"migrate", "down"} :
                /\ At(p, point, "did", 1)
                /\ point = "down" \/ config'[p] = config[p]
           /\ attempt' \in [Processes -> 1 .. MaxAttempts]
           /\ config' \in [Processes -> Config]
           /\ \A q \in Processes : q # p => config'[q] = config[q]
<1> USE DEF IInv, TypeOK
<1>1. CASE opening[p] = "did" /\ attempt[p] < MaxAttempts
  <2>1. /\ At(p, "migrate", "did", 1)
        /\ attempt' = [attempt EXCEPT ![p] = @ + 1] /\ UNCHANGED config
    BY <1>1 DEF OpenFailed
  <2>2. attempt[p] + 1 \in 1 .. MaxAttempts
    BY <1>1
  <2>3. attempt' \in [Processes -> 1 .. MaxAttempts]
    BY <2>1, <2>2
  <2>4. QED
    BY <2>1, <2>3
<1>2. CASE ~(opening[p] = "did" /\ attempt[p] < MaxAttempts)
  <2>1. Down(p)
    BY <1>2 DEF OpenFailed
  <2>2. /\ At(p, "down", "did", 1)
        /\ attempt' = [attempt EXCEPT ![p] = 1]
        /\ config' = [config EXCEPT ![p] = Unset]
    BY <2>1 DEF Down
  <2>3. attempt' \in [Processes -> 1 .. MaxAttempts]
    BY <2>2
  <2>4. config' \in [Processes -> Config] /\ \A q \in Processes : q # p => config'[q] = config[q]
    BY <2>2, UnsetIsConfig
  <2>5. QED
    BY <2>2, <2>3, <2>4
<1>3. QED
  BY <1>1, <1>2

LEMMA CallFailsKeeps ==
    ASSUME IInv, NEW p \in Processes, UNCHANGED backend, CallFails(p)
    PROVE  IInv'
<1>1. PICK point \in {"migrate", "down"} :
        At(p, point, "did", 1) /\ (point = "down" \/ config'[p] = config[p])
  BY OpenFailedKeeps DEF CallFails
<1>2. point \in Starting \cup {"down", "serve"} /\ 1 \in 1 .. Versions + 1
  BY DEF Starting
<1>3. pc[p] \in Starting /\ backend = "postgres"
  BY DEF CallFails, Starting, IInv, Migrated, TypeOK
<1>5. UNCHANGED <<tables, recorded, keys, minted, given, developed>>
  BY DEF CallFails, Starts
<1>6. TypeOK'
  <2>1. detached' \subseteq Statement
    BY DEF CallFails, IInv, TypeOK, Statement
  <2>2. /\ pc' \in [Processes -> Starting \cup {"down", "serve"}]
        /\ opening' \in [Processes -> {"did", "keys", "credentials"}]
        /\ version' \in [Processes -> 1 .. Versions + 1]
    BY <1>1, <1>2, AtType DEF IInv
  <2>3. toSeed' \in [Processes -> SUBSET DevServices]
    BY DEF CallFails, IInv, TypeOK
  <2>4. left' \subseteq Transaction
    BY AbandonKeeps DEF CallFails
  <2>5. QED
    BY <1>3, <1>5, <2>1, <2>2, <2>3, <2>4, OpenFailedKeeps DEF IInv, TypeOK, CallFails
<1>7. Migrated'
  <2>1. \A t \in left' : t \in left \/ 1 .. (t.version - 1) \subseteq recorded
    BY AbandonKeeps DEF CallFails
  <2>2. QED
    BY <1>1, <1>2, <1>3, <1>5, <2>1, AtStarted DEF IInv, Migrated
<1>8. Kept'
  <2>1. toSeed'[p] = {} /\ \A q \in Processes : q # p => toSeed'[q] = toSeed[q]
    BY DEF CallFails, IInv, TypeOK
  <2>2. \A d \in detached' : d \in detached \/ Database \in developed
    BY DEF CallFails, IInv, Kept
  <2>3. QED
    BY <1>1, <1>2, <1>3, <1>5, <2>1, <2>2, OpenFailedKeeps, StartKept DEF CallFails
<1>9. QED
  BY <1>6, <1>7, <1>8 DEF IInv

LEMMA Extends ==
    ASSUME NEW n \in Nat \ {0}, NEW R
    PROVE  /\ 1 .. (n + 1 - 1) = 1 .. n
           /\ 1 .. (n - 1) \subseteq R => 1 .. n \subseteq R \cup {n}
<1>1. n + 1 - 1 = n
  OBVIOUS
<1>2. \A i \in 1 .. n : i = n \/ i \in 1 .. (n - 1)
  OBVIOUS
<1>3. QED
  BY <1>1, <1>2

\* A process that is applying a migration: what it knows.
LEMMA Applying ==
    ASSUME IInv, NEW p \in Processes, pc[p] \in {"create", "record", "commit"}
    PROVE  /\ pc[p] \in Starting /\ backend = "postgres"
           /\ version[p] \in 1 .. Versions /\ version[p] + 1 \in 1 .. Versions + 1
           /\ 1 .. (version[p] - 1) \subseteq recorded
           /\ opening[p] \in {"did", "keys", "credentials"}
           /\ opening[p] # "did" => recorded = 1 .. Versions
<1>1. pc[p] \in Starting /\ backend = "postgres"
  BY DEF Starting, IInv, Migrated, TypeOK
<1>2. version[p] \in 1 .. Versions + 1 /\ version[p] <= Versions
  BY DEF IInv, Migrated, TypeOK
<1>3. version[p] \in 1 .. Versions /\ version[p] + 1 \in 1 .. Versions + 1
  BY <1>2
<1>4. /\ 1 .. (version[p] - 1) \subseteq recorded
      /\ opening[p] # "did" => recorded = 1 .. Versions
  BY DEF IInv, Migrated
<1>5. opening[p] \in {"did", "keys", "credentials"}
  BY DEF IInv, TypeOK
<1>6. QED
  BY <1>1, <1>3, <1>4, <1>5

LEMMA MigrateKeeps ==
    ASSUME IInv, NEW p \in Processes, UNCHANGED backend, Migrate(p)
    PROVE  IInv'
<1>1. UNCHANGED <<config, tables, recorded, left, keys, detached, minted, given, developed>>
  BY DEF Migrate, Starts
<1>2. pc[p] \in Starting /\ backend = "postgres"
  BY DEF Migrate, Starting, IInv, Migrated, TypeOK
<1>3. version[p] \in 1 .. Versions + 1 /\ 1 .. (version[p] - 1) \subseteq recorded
      /\ recorded \subseteq 1 .. Versions /\ opening[p] \in {"did", "keys", "credentials"}
  BY DEF IInv, Migrated, TypeOK
<1>4. LastVersion(version[p]) => recorded = 1 .. Versions
  <2>1. LastVersion(version[p]) => version[p] = Versions + 1
    BY <1>3 DEF LastVersion
  <2>2. ASSUME LastVersion(version[p])
        PROVE  recorded = 1 .. Versions
    <3>1. version[p] - 1 = Versions
      BY <2>1, <2>2
    <3>2. 1 .. Versions \subseteq recorded
      BY <1>3, <3>1
    <3>3. QED
      BY <1>3, <3>2
  <2>3. QED
    BY <2>2
<1>5. PICK point \in {"migrate", "create", "seed", "serve"}, store \in {"did", "keys", "credentials"},
           v \in 1 .. Versions + 1 :
        /\ At(p, point, store, v)
        /\ 1 .. (v - 1) \subseteq recorded
        /\ store # "did" \/ point = "serve" => recorded = 1 .. Versions
        /\ point = "seed" => store = "keys"
        /\ point = "create" => v <= Versions
  <2>1. CASE LastVersion(version[p]) /\ Opened(p)
    <3>1. 1 \in 1 .. Versions + 1 /\ 1 .. (1 - 1) \subseteq recorded
      OBVIOUS
    <3>2. \/ At(p, "migrate", "keys", 1) \/ At(p, "migrate", "credentials", 1)
          \/ At(p, "seed", "keys", 1) \/ At(p, "serve", "did", 1)
      BY <2>1 DEF Opened
    <3>3. QED
      BY <1>4, <2>1, <3>1, <3>2
  <2>2. CASE ~LastVersion(version[p]) /\ version[p] \in recorded /\ At(p, "migrate", opening[p], version[p] + 1)
    <3>1. version[p] + 1 \in 1 .. Versions + 1 /\ 1 .. (version[p] + 1 - 1) \subseteq recorded
      BY <1>3, <2>2 DEF IInv, Migrated
    <3>2. opening[p] # "did" => recorded = 1 .. Versions
      BY DEF IInv, Migrated
    <3>3. QED
      BY <1>3, <2>2, <3>1, <3>2
  <2>3. CASE ~LastVersion(version[p]) /\ At(p, "create", opening[p], version[p])
    <3>1. version[p] <= Versions
      BY <1>3, <2>3 DEF LastVersion
    <3>2. opening[p] # "did" => recorded = 1 .. Versions
      BY DEF IInv, Migrated
    <3>3. QED
      BY <1>3, <2>3, <3>1, <3>2
  <2>4. QED
    BY <2>1, <2>2, <2>3 DEF Migrate
<1>6. point \in Starting \cup {"down", "serve"}
  BY DEF Starting
<1>7. Migrated'
  BY <1>1, <1>2, <1>5, <1>6, AtStarted
<1>8. /\ attempt' \in [Processes -> 1 .. MaxAttempts]
      /\ toSeed' \in [Processes -> SUBSET DevServices]
      /\ \A q \in Processes : q # p => toSeed'[q] = toSeed[q]
      /\ toSeed'[p] \subseteq toSeed[p] \/ toSeed'[p] = Seeds(config[p].production)
  <2>1. CASE UNCHANGED <<attempt, toSeed>>
    BY <2>1 DEF IInv, TypeOK
  <2>2. CASE attempt' = [attempt EXCEPT ![p] = 1] /\ UNCHANGED toSeed
    BY <2>2 DEF IInv, TypeOK
  <2>3. CASE toSeed' = [toSeed EXCEPT ![p] = Seeds(config[p].production)] /\ UNCHANGED attempt
    <3>1. Seeds(config[p].production) \subseteq DevServices
      BY DEF Seeds
    <3>2. QED
      BY <2>3, <3>1 DEF IInv, TypeOK
  <2>4. QED
    BY <2>1, <2>2, <2>3 DEF Migrate, Opened
<1>9. TypeOK'
  BY <1>1, <1>5, <1>6, <1>8, AtType DEF IInv, TypeOK
<1>10. toSeed'[p] # {} => Database \in developed
  BY <1>2, <1>8 DEF IInv, Kept, Seeds, TypeOK
<1>11. Kept'
  BY <1>1, <1>2, <1>5, <1>6, <1>8, <1>10, StartKept
<1>12. QED
  BY <1>7, <1>9, <1>11 DEF IInv

LEMMA ApplyKeeps ==
    ASSUME IInv, NEW p \in Processes, UNCHANGED backend, ApplyCreate(p) \/ ApplyRecord(p)
    PROVE  IInv'
<1>1. UNCHANGED <<config, attempt, toSeed, tables, recorded, left, keys, detached, minted, given,
             developed>>
  BY DEF ApplyCreate, ApplyRecord, Starts
<1>2. pc[p] \in {"create", "record", "commit"}
  BY DEF ApplyCreate, ApplyRecord
<1>3. /\ pc[p] \in Starting /\ backend = "postgres"
      /\ version[p] \in 1 .. Versions /\ version[p] + 1 \in 1 .. Versions + 1
      /\ 1 .. (version[p] - 1) \subseteq recorded
      /\ opening[p] \in {"did", "keys", "credentials"}
      /\ opening[p] # "did" => recorded = 1 .. Versions
  BY <1>2, Applying
<1>4. PICK point \in {"migrate", "record", "commit"}, v \in 1 .. Versions + 1 :
        /\ At(p, point, opening[p], v)
        /\ 1 .. (v - 1) \subseteq recorded
        /\ point # "migrate" => v <= Versions
  <2>1. CASE At(p, "record", opening[p], version[p]) \/ At(p, "commit", opening[p], version[p])
    BY <1>3, <2>1
  <2>2. CASE version[p] \in recorded /\ At(p, "migrate", opening[p], version[p] + 1)
    <3> DEFINE n == version[p] + 1
    <3>1. n \in 1 .. Versions + 1 /\ 1 .. (n - 1) \subseteq recorded /\ At(p, "migrate", opening[p], n)
      BY <1>3, <2>2 DEF IInv, Migrated
    <3> HIDE DEF n
    <3>2. QED
      BY <3>1
  <2>3. QED
    BY <2>1, <2>2 DEF ApplyCreate, ApplyRecord
<1>5. point \in Starting \cup {"down", "serve"}
  BY DEF Starting
<1>6. Migrated'
  BY <1>1, <1>3, <1>4, <1>5, AtStarted
<1>7. TypeOK'
  BY <1>1, <1>3, <1>4, <1>5, AtType DEF IInv, TypeOK
<1>8. toSeed'[p] # {} => Database \in developed
  BY <1>1 DEF IInv, Kept
<1>9. Kept'
  BY <1>1, <1>2, <1>3, <1>4, <1>5, <1>8, StartKept
<1>10. QED
  BY <1>6, <1>7, <1>9 DEF IInv

\* A commit records the next migration.
LEMMA ApplyCommitKeeps ==
    ASSUME IInv, NEW p \in Processes, UNCHANGED backend, ApplyCommit(p)
    PROVE  IInv'
<1> DEFINE v == version[p]
<1>1. /\ UNCHANGED <<toSeed, left, keys, detached, minted, given, developed>>
      /\ tables' = tables \cup {v} /\ recorded' = recorded \cup {v}
  BY DEF ApplyCommit, Starts
<1>2. /\ pc[p] = "commit" /\ pc[p] \in Starting /\ backend = "postgres"
      /\ v \in 1 .. Versions /\ 1 .. (v - 1) \subseteq recorded
      /\ opening[p] \in {"did", "keys", "credentials"}
  BY Applying DEF ApplyCommit
<1>3. PICK point \in {"migrate", "down"}, store \in {"did", "keys", "credentials"}, n \in {1, v + 1} :
        /\ At(p, point, store, n)
        /\ store = "did" \/ store = opening[p]
        /\ point = "down" \/ config'[p] = config[p]
  <2>1. CASE At(p, "migrate", opening[p], v + 1) /\ UNCHANGED <<attempt, config>>
    BY <1>2, <2>1
  <2>2. CASE OpenFailed(p)
    BY <1>2, <2>2, OpenFailedKeeps
  <2>3. QED
    BY <2>1, <2>2 DEF ApplyCommit
<1>4. /\ attempt' \in [Processes -> 1 .. MaxAttempts]
      /\ config' \in [Processes -> Config]
      /\ \A q \in Processes : q # p => config'[q] = config[q]
  <2>1. CASE UNCHANGED <<attempt, config>>
    BY <2>1 DEF IInv, TypeOK
  <2>2. CASE OpenFailed(p)
    BY <1>2, <2>2, OpenFailedKeeps
  <2>3. QED
    BY <2>1, <2>2 DEF ApplyCommit
<1>5. point \in Starting \cup {"down", "serve"} /\ n \in 1 .. Versions + 1
  BY <1>2 DEF Starting
<1>6. /\ pc' \in [Processes -> Starting \cup {"down", "serve"}]
      /\ opening' \in [Processes -> {"did", "keys", "credentials"}]
      /\ version' \in [Processes -> 1 .. Versions + 1]
      /\ \A q \in Processes : /\ pc'[q] = IF q = p THEN point ELSE pc[q]
                              /\ opening'[q] = IF q = p THEN store ELSE opening[q]
                              /\ version'[q] = IF q = p THEN n ELSE version[q]
  BY <1>3, <1>5, AtType DEF IInv
<1>7. TypeOK'
  BY <1>1, <1>2, <1>4, <1>6 DEF IInv, TypeOK
<1>8. Migrated'
  <2>1. 1 .. v \subseteq recorded' /\ recorded \subseteq recorded' /\ recorded' \subseteq 1 .. Versions
    <3>1. recorded \subseteq 1 .. Versions /\ v \in Nat \ {0}
      BY <1>2 DEF IInv, TypeOK
    <3>2. QED
      BY <1>1, <1>2, <3>1, Extends
  <2>2. tables' = recorded' /\ \A u \in recorded' : 1 .. u \subseteq recorded'
    BY <1>1, <2>1 DEF IInv, Migrated
  <2>3. \A q \in Processes : 1 .. (version'[q] - 1) \subseteq recorded'
    <3>1. 1 .. (n - 1) \subseteq recorded'
      BY <1>2, <2>1
    <3>2. QED
      BY <1>6, <2>1, <3>1 DEF IInv, Migrated
  <2>4. \A q \in Processes : opening'[q] # "did" \/ (pc'[q] = "serve" /\ backend' = "postgres")
                               => recorded' = 1 .. Versions
    BY <1>3, <1>6, <2>1 DEF IInv, Migrated
  <2>5. /\ \A q \in Processes : pc'[q] = "seed" => opening'[q] = "keys"
        /\ \A q \in Processes : pc'[q] \in {"create", "record", "commit"} => version'[q] <= Versions
        /\ \A q \in Processes : backend' = "memory" => pc'[q] \in {"down", "serve"}
    BY <1>2, <1>6 DEF IInv, Migrated
  <2>6. \A t \in left' : 1 .. (t.version - 1) \subseteq recorded'
    BY <1>1, <2>1 DEF IInv, Migrated
  <2>7. QED
    BY <2>2, <2>3, <2>4, <2>5, <2>6 DEF Migrated
<1>9. Kept'
  <2>1. toSeed'[p] # {} => Database \in developed
    BY <1>1 DEF IInv, Kept
  <2>2. QED
    BY <1>1, <1>2, <1>3, <1>4, <1>5, <2>1, StartKept
<1>10. QED
  BY <1>7, <1>8, <1>9 DEF IInv

\* So does a late COMMIT.
LEMMA EndLeftKeeps ==
    ASSUME IInv, NEW t \in left, UNCHANGED backend, EndLeft(t)
    PROVE  IInv'
<1> DEFINE v == t.version
<1>1. UNCHANGED <<startVars, keys, detached, minted, given, developed>> /\ left' = left \ {t}
  BY DEF EndLeft, Starts
<1>2. v \in 1 .. Versions /\ 1 .. (v - 1) \subseteq recorded /\ left \subseteq Transaction
  BY DEF IInv, TypeOK, Migrated, Transaction
<1>3. Kept'
  BY <1>1 DEF startVars, IInv, Kept, ToldOnce, DevKeysInDevelopment
<1>4. CASE UNCHANGED <<tables, recorded>>
  BY <1>1, <1>2, <1>3, <1>4 DEF startVars, IInv, TypeOK, Migrated
<1>5. CASE tables' = tables \cup {v} /\ recorded' = recorded \cup {v}
  <2>1. 1 .. v \subseteq recorded' /\ recorded \subseteq recorded' /\ recorded' \subseteq 1 .. Versions
    <3>1. recorded \subseteq 1 .. Versions /\ v \in Nat \ {0}
      BY <1>2 DEF IInv, TypeOK
    <3>2. QED
      BY <1>2, <1>5, <3>1, Extends
  <2>2. tables' = recorded' /\ \A u \in recorded' : 1 .. u \subseteq recorded'
    BY <1>5, <2>1 DEF IInv, Migrated
  <2>3. /\ \A q \in Processes : 1 .. (version'[q] - 1) \subseteq recorded'
        /\ \A q \in Processes : opening'[q] # "did" \/ (pc'[q] = "serve" /\ backend' = "postgres")
                                   => recorded' = 1 .. Versions
        /\ \A u \in left' : 1 .. (u.version - 1) \subseteq recorded'
    BY <1>1, <2>1 DEF startVars, IInv, Migrated
  <2>4. Migrated'
    BY <1>1, <2>2, <2>3 DEF startVars, IInv, Migrated
  <2>5. TypeOK'
    BY <1>1, <1>2, <2>1, <2>2 DEF startVars, IInv, TypeOK
  <2>6. QED
    BY <1>3, <2>4, <2>5 DEF IInv
<1>6. QED
  BY <1>4, <1>5 DEF EndLeft

-----------------------------------------------------------------------------
(* Where a step leaves the keys to Insert and SetRevoked. *)

\* A row more, told to those who are told, keeps the two invariants of keys.
LEMMA InsertIsSafe ==
    ASSUME IInv, NEW h \in Homes, NEW s \in Services, NEW k \in Keys \cup DevServices,
           Insert(h, s, k), developed \subseteq developed',
           k \in DevServices => h \in developed',
           \A g \in Homes, t \in Services :
             \/ given'[g][t] = given[g][t]
             \/ keys[g][t] = None /\ g = h /\ t = s /\ given'[g][t] = given[g][t] \cup {k}
    PROVE  (ToldOnce /\ DevKeysInDevelopment)'
<1>1. \A g \in Homes, t \in Services :
        \/ keys'[g][t] = keys[g][t]
        \/ /\ g = h /\ t = s /\ keys[g][t] = None
           /\ keys'[g][t] = [key |-> k, revoked |-> FALSE]
  BY InsertKeeps DEF IInv
<1>2. keys[h][s] = None => keys'[h][s] = [key |-> k, revoked |-> FALSE]
  BY InsertKeeps DEF IInv
<1>3. [key |-> k, revoked |-> FALSE] # None /\ [key |-> k, revoked |-> FALSE].key = k
  <2>1. [key |-> k, revoked |-> FALSE] \in Row
    BY DEF Row
  <2>2. QED
    BY <2>1
<1>4. ASSUME NEW g \in Homes, NEW t \in Services, given'[g][t] # {}
      PROVE  keys'[g][t] # None /\ given'[g][t] = {keys'[g][t].key}
  <2>1. given[g][t] # {} => keys[g][t] # None /\ given[g][t] = {keys[g][t].key}
    BY DEF IInv, Kept, ToldOnce
  <2>2. CASE given'[g][t] = given[g][t]
    BY <1>1, <1>4, <2>1, <2>2
  <2>3. CASE keys[g][t] = None /\ g = h /\ t = s /\ given'[g][t] = given[g][t] \cup {k}
    BY <1>2, <1>3, <2>1, <2>3
  <2>4. QED
    BY <2>2, <2>3
<1>5. ASSUME NEW g \in Homes, NEW t \in Services, keys'[g][t] # None, keys'[g][t].key \in DevServices
      PROVE  g \in developed'
  BY <1>1, <1>3, <1>5 DEF IInv, Kept, DevKeysInDevelopment
<1>6. QED
  BY <1>4, <1>5 DEF ToldOnce, DevKeysInDevelopment

LEMMA SetRevokedIsSafe ==
    ASSUME IInv, NEW h \in Homes, NEW s \in Services, SetRevoked(h, s), UNCHANGED <<given, developed>>
    PROVE  (ToldOnce /\ DevKeysInDevelopment)'
<1>1. \A g \in Homes, t \in Services :
        /\ keys'[g][t] = None <=> keys[g][t] = None
        /\ keys[g][t] # None => keys'[g][t].key = keys[g][t].key
  BY SetRevokedKeeps DEF IInv
<1>2. QED
  BY <1>1 DEF IInv, Kept, ToldOnce, DevKeysInDevelopment

LEMMA SeedKeeps ==
    ASSUME IInv, NEW p \in Processes, NEW s \in DevServices, UNCHANGED backend, Seed(p, s)
    PROVE  IInv'
<1>1. /\ Insert(Database, s, s) /\ Database \in Homes /\ s \in Services /\ s \in Keys \cup DevServices
      /\ UNCHANGED <<config, attempt, tables, recorded, left, detached, minted, given, developed>>
      /\ toSeed' = [toSeed EXCEPT ![p] = @ \ {s}]
  BY DEF Seed, Starts, Homes
<1>2. /\ pc[p] \in Starting /\ backend = "postgres" /\ Database \in developed
      /\ recorded = 1 .. Versions
  <2>1. pc[p] = "seed" /\ s \in toSeed[p]
    BY DEF Seed
  <2>2. QED
    BY <2>1 DEF Starting, IInv, Migrated, Kept, TypeOK
<1>3. PICK point \in {"migrate", "seed"}, store \in {"keys", "credentials"} :
        /\ At(p, point, store, 1)
        /\ point = "seed" => store = "keys"
  BY DEF Seed
<1>4. /\ point \in Starting \cup {"down", "serve"} /\ 1 \in 1 .. Versions + 1
      /\ 1 .. (1 - 1) \subseteq recorded
      /\ store \in {"did", "keys", "credentials"}
  BY DEF Starting
<1>5. Migrated'
  BY <1>1, <1>2, <1>3, <1>4, AtStarted
<1>6. TypeOK'
  <2>1. keys' \in [Homes -> [Services -> Row \cup {None}]]
    BY <1>1, InsertKeeps DEF IInv
  <2>2. /\ pc' \in [Processes -> Starting \cup {"down", "serve"}]
        /\ opening' \in [Processes -> {"did", "keys", "credentials"}]
        /\ version' \in [Processes -> 1 .. Versions + 1]
    BY <1>3, <1>4, AtType DEF IInv
  <2>3. QED
    BY <1>1, <2>1, <2>2 DEF IInv, TypeOK
<1>7. Kept'
  <2>1. (ToldOnce /\ DevKeysInDevelopment)'
    BY <1>1, <1>2, InsertIsSafe
  <2>2. \A q \in Processes : keys'[q] = keys[q]
    <3>1. \A g \in Homes : g # Database => keys'[g] = keys[g]
      BY <1>1, InsertKeeps DEF IInv
    <3>2. QED
      BY <3>1, ProcessHomes
  <2>3. \A q \in Processes : toSeed'[q] \subseteq toSeed[q]
    BY <1>1 DEF IInv, TypeOK
  <2>4. \A q \in Processes : pc'[q] = IF q = p THEN point ELSE pc[q]
    BY <1>3 DEF At, IInv, TypeOK
  <2>5. \A q \in Processes : (pc[q] = "down" \/ backend = "postgres" =>
          keys[q] = NoKeys /\ \A t \in Services : given[q][t] = {})'
    BY <1>1, <1>2, <2>2 DEF IInv, Kept
  <2>6. QED
    BY <1>1, <1>2, <2>1, <2>3, <2>4, <2>5 DEF IInv, Kept
<1>8. QED
  BY <1>5, <1>6, <1>7 DEF IInv

LEMMA RunDetachedKeeps ==
    ASSUME IInv, NEW d \in detached, UNCHANGED backend, RunDetached(d)
    PROVE  IInv'
<1>1. /\ UNCHANGED <<startVars, tables, recorded, left, minted, given, developed>>
      /\ detached' = detached \ {d} /\ Database \in Homes
  BY DEF RunDetached, Homes
<1>2. Migrated'
  BY <1>1 DEF startVars, IInv, Migrated
<1>3. /\ keys' \in [Homes -> [Services -> Row \cup {None}]]
      /\ \A q \in Processes : keys'[q] = keys[q]
      /\ (ToldOnce /\ DevKeysInDevelopment)'
  <2>1. CASE UNCHANGED keys
    BY <1>1, <2>1 DEF IInv, TypeOK, Kept, ToldOnce, DevKeysInDevelopment
  <2>2. CASE d.op = "create" /\ Insert(Database, d.service, d.key)
    <3>1. /\ d.service \in Services /\ d.key \in Keys \cup DevServices
          /\ d.key \in DevServices => Database \in developed
      BY <2>2 DEF IInv, TypeOK, Statement, Kept
    <3>2. /\ keys' \in [Homes -> [Services -> Row \cup {None}]]
          /\ \A g \in Homes : g # Database => keys'[g] = keys[g]
      BY <1>1, <2>2, <3>1, InsertKeeps DEF IInv
    <3>3. (ToldOnce /\ DevKeysInDevelopment)'
      BY <1>1, <2>2, <3>1, InsertIsSafe
    <3>4. QED
      BY <3>2, <3>3, ProcessHomes
  <2>3. CASE d.op = "revoke" /\ SetRevoked(Database, d.service)
    <3>1. d.service \in Services
      BY <2>3 DEF IInv, TypeOK, Statement
    <3>2. /\ keys' \in [Homes -> [Services -> Row \cup {None}]]
          /\ \A g \in Homes : g # Database => keys'[g] = keys[g]
      BY <1>1, <2>3, <3>1, SetRevokedKeeps DEF IInv
    <3>3. (ToldOnce /\ DevKeysInDevelopment)'
      BY <1>1, <2>3, <3>1, SetRevokedIsSafe
    <3>4. QED
      BY <3>2, <3>3, ProcessHomes
  <2>4. QED
    BY <2>1, <2>2, <2>3 DEF RunDetached
<1>4. TypeOK'
  BY <1>1, <1>3 DEF startVars, IInv, TypeOK
<1>5. Kept'
  BY <1>1, <1>3 DEF startVars, IInv, Kept
<1>6. QED
  BY <1>2, <1>4, <1>5 DEF IInv

\* A serving process leaves the start alone.
LEMMA ServesStarted ==
    ASSUME IInv, NEW p \in Processes, Serves(p)
    PROVE  Migrated' /\ Home(p) \in Homes
           /\ UNCHANGED <<backend, pc, opening, attempt, version, config, toSeed, tables,
                          recorded, left, developed>>
           /\ \A q \in Processes : pc[q] = "down" \/ backend = "postgres" => q # Home(p)
  BY DEF Serves, startVars, IInv, Migrated, Home, Homes

\* What a served request may do to the keys.
LEMMA ServesKept ==
    ASSUME IInv, NEW p \in Processes, Serves(p), minted' \subseteq Keys,
           given' \in [Homes -> [Services -> SUBSET Keys]],
           keys' \in [Homes -> [Services -> Row \cup {None}]],
           detached' \subseteq Statement,
           \A g \in Homes : g # Home(p) => keys'[g] = keys[g] /\ given'[g] = given[g],
           (ToldOnce /\ DevKeysInDevelopment)',
           \A d \in detached' : d \in detached \/ d.op = "revoke" \/ d.key \in Keys
    PROVE  IInv'
<1>1. /\ Migrated' /\ Home(p) \in Homes
      /\ UNCHANGED <<backend, pc, opening, attempt, version, config, toSeed, tables,
                     recorded, left, developed>>
      /\ \A q \in Processes : pc[q] = "down" \/ backend = "postgres" => q # Home(p)
  BY ServesStarted
<1>2. TypeOK'
  BY <1>1 DEF IInv, TypeOK
<1>3. Kept'
  <2>1. \A d \in detached' : d.op = "create" /\ d.key \in DevServices => Database \in developed'
    BY <1>1 DEF IInv, Kept
  <2>2. \A q \in Processes : pc'[q] = "down" \/ backend' = "postgres" =>
          keys'[q] = NoKeys /\ \A s \in Services : given'[q][s] = {}
    BY <1>1, ProcessHomes DEF IInv, Kept
  <2>3. QED
    BY <1>1, <2>1, <2>2 DEF IInv, Kept
<1>4. QED
  BY <1>1, <1>2, <1>3 DEF IInv

LEMMA CreateKeyKeeps ==
    ASSUME IInv, NEW p \in Processes, NEW s \in Services, NEW k \in Keys, CreateKey(p, s, k)
    PROVE  IInv'
<1> DEFINE h == Home(p)
<1>1. /\ Serves(p) /\ h \in Homes /\ minted' \subseteq Keys /\ k \notin DevServices
      /\ UNCHANGED developed
  BY ServesStarted DEF CreateKey, Admits, IInv, TypeOK
<1>2. \/ Insert(h, s, k) \/ UNCHANGED keys
  BY DEF CreateKey, MayHaveRun
<1>3. \/ UNCHANGED given
      \/ given' = [given EXCEPT ![h][s] = @ \cup {k}] /\ keys[h][s] = None /\ Insert(h, s, k)
  BY DEF CreateKey
<1> HIDE DEF h
<1>4. /\ given' \in [Homes -> [Services -> SUBSET Keys]]
      /\ \A g \in Homes : g # h => given'[g] = given[g]
  <2>1. given \in [Homes -> [Services -> SUBSET Keys]]
    BY DEF IInv, TypeOK
  <2>2. CASE UNCHANGED given
    BY <2>1, <2>2
  <2>3. CASE given' = [given EXCEPT ![h][s] = @ \cup {k}]
    <3>1. given[h] \in [Services -> SUBSET Keys] /\ given[h][s] \cup {k} \in SUBSET Keys
      BY <1>1, <2>1
    <3>2. [given[h] EXCEPT ![s] = given[h][s] \cup {k}] \in [Services -> SUBSET Keys]
      BY <3>1
    <3>3. given' = [given EXCEPT ![h] = [given[h] EXCEPT ![s] = given[h][s] \cup {k}]]
      BY <2>3
    <3>4. QED
      BY <1>1, <2>1, <3>2, <3>3
  <2>4. QED
    BY <1>3, <2>2, <2>3
<1>5. /\ keys' \in [Homes -> [Services -> Row \cup {None}]]
      /\ \A g \in Homes : g # h => keys'[g] = keys[g]
  BY <1>1, <1>2, InsertKeeps DEF IInv, TypeOK
<1>6. (ToldOnce /\ DevKeysInDevelopment)'
  <2>1. CASE UNCHANGED <<keys, given>>
    BY <1>1, <2>1 DEF IInv, Kept, ToldOnce, DevKeysInDevelopment
  <2>2. CASE Insert(h, s, k)
    <3>1. \A g \in Homes, t \in Services :
             \/ given'[g][t] = given[g][t]
             \/ keys[g][t] = None /\ g = h /\ t = s /\ given'[g][t] = given[g][t] \cup {k}
      BY <1>1, <1>3 DEF IInv, TypeOK
    <3>2. QED
      BY <1>1, <2>2, <3>1, InsertIsSafe
  <2>3. QED
    BY <1>2, <1>3, <2>1, <2>2
<1>7. /\ detached' \subseteq Statement
      /\ \A d \in detached' : d \in detached \/ d.op = "revoke" \/ d.key \in Keys
  <2>1. \/ UNCHANGED detached
        \/ detached' = detached \cup {[op |-> "create", service |-> s, key |-> k]}
    BY DEF CreateKey, MayHaveRun
  <2>2. [op |-> "create", service |-> s, key |-> k] \in Statement
    BY DEF Statement
  <2>3. QED
    BY <2>1, <2>2 DEF IInv, TypeOK
<1>8. QED
  BY <1>1, <1>4, <1>5, <1>6, <1>7, ServesKept DEF h

LEMMA RevokeKeyKeeps ==
    ASSUME IInv, NEW p \in Processes, NEW s \in Services, RevokeKey(p, s)
    PROVE  IInv'
<1>1. /\ Serves(p) /\ Home(p) \in Homes /\ UNCHANGED <<minted, given, developed>>
  BY ServesStarted DEF RevokeKey, Admits
<1>2. /\ keys' \in [Homes -> [Services -> Row \cup {None}]]
      /\ \A g \in Homes : g # Home(p) => keys'[g] = keys[g]
      /\ (ToldOnce /\ DevKeysInDevelopment)'
  <2>1. CASE UNCHANGED keys
    BY <1>1, <2>1 DEF IInv, TypeOK, Kept, ToldOnce, DevKeysInDevelopment
  <2>2. CASE SetRevoked(Home(p), s)
    BY <1>1, <2>2, SetRevokedKeeps, SetRevokedIsSafe DEF IInv
  <2>3. QED
    BY <2>1, <2>2 DEF RevokeKey, MayHaveRun
<1>3. /\ detached' \subseteq Statement
      /\ \A d \in detached' : d \in detached \/ d.op = "revoke"
  <2>1. detached' \subseteq detached \cup {[op |-> "revoke", service |-> s]}
    BY DEF RevokeKey, MayHaveRun
  <2>2. [op |-> "revoke", service |-> s] \in Statement
    BY DEF Statement
  <2>3. QED
    BY <2>1, <2>2 DEF IInv, TypeOK
<1>4. QED
  BY <1>1, <1>2, <1>3, ServesKept DEF IInv, TypeOK

LEMMA UseKeeps ==
    ASSUME IInv, NEW p \in Processes, NEW s, NEW k, Use(p, s, k)
    PROVE  IInv'
<1>1. Serves(p) /\ UNCHANGED <<keys, detached, minted, given>>
  BY DEF Use, keyVars
<1>2. (ToldOnce /\ DevKeysInDevelopment)'
  BY <1>1 DEF Serves, IInv, Kept, ToldOnce, DevKeysInDevelopment
<1>3. QED
  BY <1>1, <1>2, ServesKept DEF IInv, TypeOK

LEMMA RefuseAdminKeeps ==
    ASSUME IInv, NEW p \in Processes, RefuseAdmin(p)
    PROVE  IInv'
<1>1. Serves(p) /\ UNCHANGED <<keys, detached, minted, given>>
  BY DEF RefuseAdmin, keyVars
<1>2. (ToldOnce /\ DevKeysInDevelopment)'
  BY <1>1 DEF Serves, IInv, Kept, ToldOnce, DevKeysInDevelopment
<1>3. QED
  BY <1>1, <1>2, ServesKept DEF IInv, TypeOK

LEMMA StartKeeps ==
    ASSUME IInv, NEW p \in Processes, NEW env \in Environment, UNCHANGED backend, Start(p, env)
    PROVE  IInv'
<1> DEFINE prod == IsProduction(env)
           cfg == [production |-> prod, admin |-> env.adminToken # ""]
<1>0. prod \in BOOLEAN /\ cfg \in Config /\ cfg.production = prod
  BY DEF IsProduction, Config
<1>1. /\ pc[p] = "down" /\ config' = [config EXCEPT ![p] = cfg]
      /\ developed' = IF prod THEN developed ELSE developed \cup {Home(p)}
      /\ UNCHANGED <<attempt, toSeed, tables, recorded, left, detached, minted, given>>
      /\ p \in Homes /\ Home(p) \in Homes /\ 1 \in 1 .. Versions + 1
  <2>1. /\ pc[p] = "down" /\ config' = [config EXCEPT ![p] = cfg]
        /\ developed' = IF prod THEN developed ELSE developed \cup {Home(p)}
    BY Zenon DEF Start
  <2>2. UNCHANGED <<attempt, toSeed, tables, recorded, left, detached, minted, given>>
    BY DEF Start
  <2>3. p \in Homes /\ Home(p) \in Homes /\ 1 \in 1 .. Versions + 1
    BY DEF Homes, Home
  <2>4. QED
    BY <2>1, <2>2, <2>3
<1>11. backend = "memory" =>
         /\ At(p, "serve", "did", 1)
         /\ keys' = [keys EXCEPT ![p] =
                        [s \in Services |-> IF s \in Seeds(prod) THEN [key |-> s, revoked |-> FALSE] ELSE None]]
  BY Zenon DEF Start
<1>12. backend = "postgres" => At(p, "migrate", "did", 1) /\ UNCHANGED keys
  BY DEF Start
<1> HIDE DEF prod, cfg
<1>2. config' \in [Processes -> Config] /\ developed' \subseteq Homes
      /\ (\A q \in Processes : q # p => config'[q] = config[q]) /\ config'[p].production = prod
  BY <1>0, <1>1 DEF IInv, TypeOK
<1>3. keys[p] = NoKeys /\ \A s \in Services : given[p][s] = {}
  BY <1>1 DEF IInv, Kept
<1>4. CASE backend = "memory"
  <2> DEFINE seeded == [s \in Services |-> IF s \in Seeds(prod) THEN [key |-> s, revoked |-> FALSE] ELSE None]
  <2>1. At(p, "serve", "did", 1) /\ keys' = [keys EXCEPT ![p] = seeded]
    BY <1>4, <1>11
  <2>2. /\ "serve" \in Starting \cup {"down", "serve"}
        /\ 1 .. (1 - 1) \subseteq recorded
    BY DEF Starting
  <2>3. Migrated'
    BY <1>1, <1>4, <2>1, <2>2, AtStarted
  <2>4. \A s \in Services : seeded[s] # None => s \in DevServices /\ ~prod /\ seeded[s] \in Row
    BY DEF Seeds, Row
  <2>5. seeded \in [Services -> Row \cup {None}]
    BY <2>4
  <2> HIDE DEF seeded
  <2>6. keys' \in [Homes -> [Services -> Row \cup {None}]] /\ keys'[p] = seeded
        /\ \A h \in Homes : h # p => keys'[h] = keys[h]
    BY <1>1, <2>1, <2>5 DEF IInv, TypeOK
  <2>7. /\ pc' \in [Processes -> Starting \cup {"down", "serve"}]
        /\ opening' \in [Processes -> {"did", "keys", "credentials"}]
        /\ version' \in [Processes -> 1 .. Versions + 1]
        /\ \A q \in Processes : pc'[q] = IF q = p THEN "serve" ELSE pc[q]
    BY <1>1, <2>1, <2>2, AtType DEF IInv
  <2>8. TypeOK'
    BY <1>1, <1>2, <2>6, <2>7 DEF IInv, TypeOK
  <2>9. Kept'
    <3>1. ToldOnce'
      BY <1>1, <1>3, <2>6 DEF IInv, Kept, ToldOnce
    <3>2. DevKeysInDevelopment'
      BY <1>1, <1>4, <2>4, <2>6 DEF IInv, Kept, DevKeysInDevelopment, Home
    <3>3. \A q \in Processes : (pc[q] = "down" \/ backend = "postgres" =>
            keys[q] = NoKeys /\ \A s \in Services : given[q][s] = {})'
      BY <1>1, <1>4, <2>6, <2>7, ProcessHomes DEF IInv, Kept
    <3>4. \A q \in Processes : pc'[q] \notin Starting
      BY <1>4, <2>7 DEF IInv, Migrated, Starting
    <3>5. QED
      BY <1>1, <3>1, <3>2, <3>3, <3>4 DEF IInv, Kept
  <2>10. QED
    BY <2>3, <2>8, <2>9 DEF IInv
<1>5. CASE backend = "postgres"
  <2>1. At(p, "migrate", "did", 1) /\ UNCHANGED keys
    BY <1>5, <1>12
  <2>2. /\ "migrate" \in Starting \cup {"down", "serve"}
        /\ 1 .. (1 - 1) \subseteq recorded
    BY DEF Starting
  <2>3. Migrated'
    BY <1>1, <1>5, <2>1, <2>2, AtStarted
  <2>4. /\ pc' \in [Processes -> Starting \cup {"down", "serve"}]
        /\ opening' \in [Processes -> {"did", "keys", "credentials"}]
        /\ version' \in [Processes -> 1 .. Versions + 1]
        /\ \A q \in Processes : pc'[q] = IF q = p THEN "migrate" ELSE pc[q]
    BY <1>1, <2>1, <2>2, AtType DEF IInv
  <2>5. TypeOK'
    BY <1>1, <1>2, <2>1, <2>4 DEF IInv, TypeOK
  <2>6. Kept'
    <3>1. (ToldOnce /\ DevKeysInDevelopment)'
      BY <1>1, <2>1 DEF IInv, Kept, ToldOnce, DevKeysInDevelopment
    <3>2. \A q \in Processes : (pc[q] \in Starting /\ ~config[q].production => Database \in developed)'
      BY <1>1, <1>2, <1>5, <2>4 DEF IInv, Kept, Home
    <3>3. QED
      BY <1>1, <1>5, <2>1, <3>1, <3>2 DEF IInv, Kept
  <2>7. QED
    BY <2>3, <2>5, <2>6 DEF IInv
<1>6. QED
  BY <1>4, <1>5 DEF IInv, TypeOK

LEMMA CrashKeeps ==
    ASSUME IInv, NEW p \in Processes, UNCHANGED backend, Crash(p)
    PROVE  IInv'
<1>1. /\ At(p, "down", "did", 1) /\ p \in Homes /\ p # Database /\ 1 \in 1 .. Versions + 1
      /\ attempt' = [attempt EXCEPT ![p] = 1]
      /\ config' = [config EXCEPT ![p] = Unset]
      /\ toSeed' = [toSeed EXCEPT ![p] = {}]
      /\ keys' = [keys EXCEPT ![p] = NoKeys]
      /\ given' = [given EXCEPT ![p] = [s \in Services |-> {}]]
      /\ developed' = developed \ {p}
      /\ UNCHANGED <<tables, recorded, detached, minted>>
  BY ProcessHomes DEF Crash, Down
<1>2. "down" \in Starting \cup {"down", "serve"} /\ 1 .. (1 - 1) \subseteq recorded
  OBVIOUS
<1>l. /\ left' \subseteq Transaction
      /\ \A t \in left' : t \in left \/ 1 .. (t.version - 1) \subseteq recorded
  BY AbandonKeeps DEF Crash
<1>3. Migrated'
  BY <1>1, <1>2, <1>l, AtStarted
<1>4. /\ pc' \in [Processes -> Starting \cup {"down", "serve"}]
      /\ opening' \in [Processes -> {"did", "keys", "credentials"}]
      /\ version' \in [Processes -> 1 .. Versions + 1]
      /\ \A q \in Processes : pc'[q] = IF q = p THEN "down" ELSE pc[q]
  BY <1>1, <1>2, AtType DEF IInv
<1>5. /\ keys' \in [Homes -> [Services -> Row \cup {None}]] /\ keys'[p] = NoKeys
      /\ \A h \in Homes : h # p => keys'[h] = keys[h]
  BY <1>1 DEF IInv, TypeOK, NoKeys
<1>6. /\ given' \in [Homes -> [Services -> SUBSET Keys]] /\ \A s \in Services : given'[p][s] = {}
      /\ \A h \in Homes : h # p => given'[h] = given[h]
  BY <1>1 DEF IInv, TypeOK
<1>7. TypeOK'
  <2>1. attempt' \in [Processes -> 1 .. MaxAttempts] /\ config' \in [Processes -> Config]
        /\ toSeed' \in [Processes -> SUBSET DevServices]
    BY <1>1, UnsetIsConfig DEF IInv, TypeOK
  <2>2. QED
    BY <1>1, <1>4, <1>5, <1>6, <1>l, <2>1 DEF IInv, TypeOK
<1>8. Kept'
  <2>1. ToldOnce'
    BY <1>5, <1>6 DEF IInv, Kept, ToldOnce
  <2>2. DevKeysInDevelopment'
    BY <1>1, <1>5 DEF IInv, Kept, DevKeysInDevelopment, NoKeys
  <2>3. \A q \in Processes : (pc[q] = "down" \/ backend = "postgres" =>
          keys[q] = NoKeys /\ \A s \in Services : given[q][s] = {})'
    BY <1>4, <1>5, <1>6, ProcessHomes DEF IInv, Kept
  <2>4. \A q \in Processes : (toSeed[q] # {} => Database \in developed)'
    BY <1>1 DEF IInv, TypeOK, Kept
  <2>5. \A q \in Processes : (pc[q] \in Starting /\ ~config[q].production => Database \in developed)'
    BY <1>1, <1>4 DEF IInv, TypeOK, Kept, Starting
  <2>6. QED
    BY <1>1, <2>1, <2>2, <2>3, <2>4, <2>5 DEF IInv, Kept
<1>9. QED
  BY <1>3, <1>7, <1>8 DEF IInv

-----------------------------------------------------------------------------

LEMMA InvariantInductive == IInv /\ [Next]_vars => IInv'
<1> SUFFICES ASSUME IInv, [Next]_vars
             PROVE  IInv'
  OBVIOUS
<1>1. CASE UNCHANGED vars
  BY <1>1 DEF vars, startVars, keyVars, IInv, TypeOK, Migrated, Kept, ToldOnce, DevKeysInDevelopment
<1>2. CASE Next
  <2>1. UNCHANGED backend /\ Act
    BY <1>2 DEF Next
  <2>2. CASE \E p \in Processes, env \in Environment : Start(p, env)
    BY <2>1, <2>2, StartKeeps
  <2>3. CASE \E p \in Processes : StartupStep(p)
    BY <2>1, <2>3, MigrateKeeps, ApplyKeeps, ApplyCommitKeeps, SeedKeeps, CallFailsKeeps DEF StartupStep
  <2>4. CASE \E p \in Processes, s \in Services, k \in Keys : CreateKey(p, s, k)
    BY <2>4, CreateKeyKeeps
  <2>5. CASE \E p \in Processes, s \in Services : RevokeKey(p, s)
    BY <2>5, RevokeKeyKeeps
  <2>6. CASE \E p \in Processes, s \in Services, k \in minted \cup DevServices : Use(p, s, k)
    BY <2>6, UseKeeps
  <2>7. CASE \E p \in Processes : Crash(p)
    BY <2>1, <2>7, CrashKeeps
  <2>8. CASE \E d \in detached : RunDetached(d)
    BY <2>1, <2>8, RunDetachedKeeps
  <2>9. CASE \E p \in Processes : RefuseAdmin(p)
    BY <2>9, RefuseAdminKeeps
  <2>10. CASE \E t \in left : EndLeft(t)
    BY <2>1, <2>10, EndLeftKeeps
  <2>11. QED
    BY <2>1, <2>2, <2>3, <2>4, <2>5, <2>6, <2>7, <2>8, <2>9, <2>10 DEF Act
<1>3. QED
  BY <1>1, <1>2

LEMMA Invariant == Spec => []IInv
  BY Initially, InvariantInductive, PTL DEF Spec

\* A process that config.Load let start in production has an admin token.
Configured == \A p \in Processes : config[p].production => config[p].admin

LEMMA ConfiguredStays == IInv /\ Configured /\ [Next]_vars => Configured'
<1> SUFFICES ASSUME IInv, Configured, [Next]_vars
             PROVE  Configured'
  OBVIOUS
<1>1. CASE UNCHANGED config
  BY <1>1 DEF Configured
<1>2. ASSUME NEW p \in Processes, NEW env \in Environment, Start(p, env)
      PROVE  Configured'
  <2>1. /\ config' = [config EXCEPT ![p] = [production |-> IsProduction(env), admin |-> env.adminToken # ""]]
        /\ IsProduction(env) => env.adminToken = "own"
    BY <1>2 DEF Start, Acceptable
  <2>2. \A q \in Processes \ {p} : config'[q] = config[q]
    BY <2>1 DEF IInv, TypeOK
  <2>3. /\ config'[p].production = IsProduction(env)
        /\ config'[p].admin = (env.adminToken # "")
    BY <2>1 DEF IInv, TypeOK
  <2>4. QED
    BY <2>1, <2>2, <2>3 DEF Configured
<1>3. ASSUME NEW p \in Processes, config' = [config EXCEPT ![p] = Unset]
      PROVE  Configured'
  <2>1. \A q \in Processes \ {p} : config'[q] = config[q]
    BY <1>3 DEF IInv, TypeOK
  <2>2. ~config'[p].production
    BY <1>3 DEF IInv, TypeOK, Unset
  <2>3. QED
    BY <2>1, <2>2 DEF Configured
<1>4. ASSUME NEW p \in Processes, StartupStep(p) \/ Crash(p)
      PROVE  UNCHANGED config \/ config' = [config EXCEPT ![p] = Unset]
  BY <1>4 DEF StartupStep, Migrate, ApplyCreate, ApplyRecord, ApplyCommit, Seed, CallFails, OpenFailed, Down, Crash
<1>5. ASSUME NEW p \in Processes, Serves(p)
      PROVE  UNCHANGED config
  BY <1>5 DEF Serves, startVars
<1>6. CASE Next
  BY <1>1, <1>2, <1>3, <1>4, <1>5, <1>6
     DEF Next, Act, CreateKey, RefuseAdmin, RevokeKey, Admits, Use, RunDetached, EndLeft, startVars
<1>7. QED
  BY <1>1, <1>6 DEF vars, startVars

\* However many processes start at once (main.go:28-60, router.go:23-41), crash,
\* time out, lose a commit's answer or leave transactions open that end or commit
\* later: the migrations on record are those applied,
\* from the first without a gap (migrations.go:98-146), no process seeds or
\* serves before all of them are, and none is in production without an admin token
\* (config.go:57-69).
THEOREM StartsStayConsistent == Spec => []Consistent
<1>1. Init => Configured
  BY DEF Init, Unset, Configured
<1>2. IInv /\ Configured => Consistent
  BY DEF IInv, Configured, Consistent
<1>3. QED
  BY <1>1, <1>2, Initially, InvariantInductive, ConfiguredStays, PTL DEF Spec

\* handlers/api_key.go:20-60 answers a key once per service, and the key answered
\* is the one that Validate compares with (api_key_store.go:62-75).
THEOREM KeysAreToldOnce == Spec => []ToldOnce
<1>1. IInv => ToldOnce
  BY DEF IInv, Kept
<1>2. QED
  BY <1>1, Invariant, PTL

\* The well-known keys of api_key_store.go:142-158 are in no store that only
\* production processes have used.
THEOREM DevKeysStayInDevelopment == Spec => []DevKeysInDevelopment
<1>1. IInv => DevKeysInDevelopment
  BY DEF IInv, Kept
<1>2. QED
  BY <1>1, Invariant, PTL

-----------------------------------------------------------------------------
\* What becomes of a revoked key in a step.
Lost(h) == h # Database /\ keys'[h] = NoKeys
Stays(h, s) == keys[h][s] # None /\ keys[h][s].revoked => Lost(h) \/ keys'[h][s] = keys[h][s]
ServedWith(h, s) == reply'.code = "served" /\ reply'.home = h /\ reply'.service = s

LEMMA SilentServesNone == ASSUME reply' = Silent, NEW h, NEW s PROVE ~ServedWith(h, s)
  BY DEF Silent, ServedWith

LEMMA AnswerServesNone ==
    ASSUME NEW c, c # "served", NEW g, NEW t, Answer(c, g, t), NEW h, NEW s
    PROVE  ~ServedWith(h, s)
  BY DEF Answer, ServedWith

LEMMA InsertStays ==
    ASSUME TypeOK, NEW g \in Homes, NEW t \in Services, NEW k \in Keys \cup DevServices,
           Insert(g, t, k), NEW h \in Homes, NEW s \in Services
    PROVE  Stays(h, s)
<1>1. \A f \in Homes, u \in Services :
        \/ keys'[f][u] = keys[f][u]
        \/ /\ f = g /\ u = t /\ keys[f][u] = None
           /\ keys'[f][u] = [key |-> k, revoked |-> FALSE]
  BY InsertKeeps
<1>2. keys'[h][s] = keys[h][s] \/ keys[h][s] = None
  BY <1>1
<1>3. QED
  BY <1>2 DEF Stays

LEMMA SetRevokedStays ==
    ASSUME TypeOK, NEW g \in Homes, NEW t \in Services, SetRevoked(g, t),
           NEW h \in Homes, NEW s \in Services
    PROVE  Stays(h, s)
  BY SetRevokedKeeps DEF Stays

LEMMA StartingStays ==
    ASSUME IInv, NEW p \in Processes, UNCHANGED backend,
           (\E env \in Environment : Start(p, env)) \/ StartupStep(p) \/ Crash(p),
           NEW h \in Homes, NEW s \in Services
    PROVE  Stays(h, s) /\ ~ServedWith(h, s)
<1>1. reply' = Silent
  BY DEF Start, StartupStep, Migrate, ApplyCreate, ApplyRecord, ApplyCommit, Seed, CallFails, Starts, Crash
<1>2. Stays(h, s)
  <2>1. ASSUME NEW env \in Environment, Start(p, env)
        PROVE  Stays(h, s)
    <3>1. \A g \in Homes : g # p => keys'[g] = keys[g]
      BY <2>1 DEF Start, IInv, TypeOK
    <3>2. keys[p] = NoKeys
      BY <2>1 DEF Start, IInv, Kept
    <3>3. QED
      BY <3>1, <3>2 DEF Stays, NoKeys
  <2>2. CASE UNCHANGED keys
    BY <2>2 DEF Stays
  <2>3. ASSUME NEW t \in DevServices, Seed(p, t)
        PROVE  Stays(h, s)
    BY <2>3, InsertStays, ProcessHomes DEF Seed, IInv
  <2>4. CASE Crash(p)
    <3>1. keys' = [keys EXCEPT ![p] = NoKeys] /\ p \in Homes /\ p # Database
      BY <2>4, ProcessHomes DEF Crash
    <3>2. keys'[h] = IF h = p THEN NoKeys ELSE keys[h]
      BY <3>1 DEF IInv, TypeOK
    <3>3. CASE h = p
      BY <3>1, <3>2, <3>3 DEF Stays, Lost
    <3>4. CASE h # p
      BY <3>2, <3>4 DEF Stays
    <3>5. QED
      BY <3>3, <3>4
  <2>5. QED
    BY <2>1, <2>2, <2>3, <2>4 DEF StartupStep, Migrate, ApplyCreate, ApplyRecord, ApplyCommit, CallFails
<1>3. QED
  BY <1>1, <1>2, SilentServesNone

LEMMA ServingStays ==
    ASSUME IInv, NEW p \in Processes, NEW t \in Services,
           (\E k \in Keys : CreateKey(p, t, k)) \/ RevokeKey(p, t),
           NEW h \in Homes, NEW s \in Services
    PROVE  Stays(h, s) /\ ~ServedWith(h, s)
<1>1. Home(p) \in Homes
  BY ServesStarted DEF CreateKey, RevokeKey, Admits
<1>2. \/ UNCHANGED keys
      \/ \E k \in Keys : Insert(Home(p), t, k)
      \/ SetRevoked(Home(p), t)
  BY DEF CreateKey, RevokeKey, MayHaveRun
<1>3. Stays(h, s)
  BY <1>1, <1>2, InsertStays, SetRevokedStays DEF Stays, IInv
<1>4. \E c \in {"200", "201", "404", "409", "500"} : Answer(c, Home(p), t)
  BY DEF CreateKey, RevokeKey, MayHaveRun
<1>5. ~ServedWith(h, s)
  BY <1>4, AnswerServesNone
<1>6. QED
  BY <1>3, <1>5

LEMMA UseStays ==
    ASSUME IInv, NEW p \in Processes, NEW t \in Services, NEW k, Use(p, t, k),
           NEW h \in Homes, NEW s \in Services
    PROVE  Stays(h, s) /\ (ServedWith(h, s) => keys[h][s] = None \/ ~keys[h][s].revoked)
<1>1. Stays(h, s)
  BY DEF Use, keyVars, Stays
<1>2. CASE Validates(keys[Home(p)][t], k) /\ Answer("served", Home(p), t)
  <2>1. ~keys[Home(p)][t].revoked
    BY <1>2 DEF Validates
  <2>2. ServedWith(h, s) => h = Home(p) /\ s = t
    BY <1>2 DEF Answer, ServedWith
  <2>3. QED
    BY <1>1, <2>1, <2>2
<1>3. CASE Answer("401", Home(p), t)
  BY <1>1, <1>3, AnswerServesNone
<1>4. QED
  BY <1>2, <1>3 DEF Use

LEMMA DetachedStays ==
    ASSUME IInv, NEW d \in detached, RunDetached(d), NEW h \in Homes, NEW s \in Services
    PROVE  Stays(h, s) /\ ~ServedWith(h, s)
<1>1. reply' = Silent /\ Database \in Homes
  BY ProcessHomes DEF RunDetached
<1>2. d \in Statement
  BY DEF IInv, TypeOK
<1>3. Stays(h, s)
  <2>1. CASE UNCHANGED keys
    BY <2>1 DEF Stays
  <2>2. CASE d.op = "create" /\ Insert(Database, d.service, d.key)
    <3>1. d.service \in Services /\ d.key \in Keys \cup DevServices
      BY <1>2, <2>2 DEF Statement
    <3>2. QED
      BY <1>1, <2>2, <3>1, InsertStays DEF IInv
  <2>3. CASE d.op = "revoke" /\ SetRevoked(Database, d.service)
    <3>1. d.service \in Services
      BY <1>2, <2>3 DEF Statement
    <3>2. QED
      BY <1>1, <2>3, <3>1, SetRevokedStays DEF IInv
  <2>4. QED
    BY <2>1, <2>2, <2>3 DEF RunDetached
<1>4. QED
  BY <1>1, <1>3, SilentServesNone

\* A key whose revocation is recorded (api_key_store.go:107-120, 219-236) is
\* never accepted by RequireAPIKey (auth.go:9-29) again while its store lasts: the
\* database for good, a process's memory until the process ends, after which a
\* development key is seeded anew and valid again (api_key_store.go:52-60).
THEOREM RevokedIsOut == Spec => RevokedStaysOut
<1>1. ASSUME IInv, Next, NEW h \in Homes, NEW s \in Services, keys[h][s] # None, keys[h][s].revoked
      PROVE  (Lost(h) \/ keys'[h][s] = keys[h][s]) /\ ~ServedWith(h, s)
  <2>1. UNCHANGED backend /\ Act
    BY <1>1 DEF Next
  <2>2. Stays(h, s) /\ (ServedWith(h, s) => keys[h][s] = None \/ ~keys[h][s].revoked)
    <3>1. CASE \E p \in Processes : (\E env \in Environment : Start(p, env)) \/ StartupStep(p) \/ Crash(p)
      BY <1>1, <2>1, <3>1, StartingStays
    <3>2. CASE \E p \in Processes, t \in Services : (\E k \in Keys : CreateKey(p, t, k)) \/ RevokeKey(p, t)
      BY <1>1, <3>2, ServingStays
    <3>3. CASE \E p \in Processes, t \in Services, k \in minted \cup DevServices : Use(p, t, k)
      BY <1>1, <3>3, UseStays
    <3>4. CASE \E d \in detached : RunDetached(d)
      BY <1>1, <3>4, DetachedStays
    <3>5. CASE \E p \in Processes : RefuseAdmin(p)
      BY <3>5, SilentServesNone DEF RefuseAdmin, keyVars, Stays
    <3>6. CASE \E t \in left : EndLeft(t)
      BY <3>6, SilentServesNone DEF EndLeft, Starts, Stays
    <3>7. QED
      BY <2>1, <3>1, <3>2, <3>3, <3>4, <3>5, <3>6 DEF Act
  <2>3. QED
    BY <1>1, <2>2 DEF Stays
<1>2. IInv /\ [Next]_vars =>
        [\A h \in Homes, s \in Services : keys[h][s] # None /\ keys[h][s].revoked =>
           \/ h # Database /\ keys'[h] = NoKeys
           \/ /\ keys'[h][s] = keys[h][s]
              /\ ~(reply'.code = "served" /\ reply'.home = h /\ reply'.service = s)]_vars
  BY <1>1 DEF Lost, ServedWith
<1>3. QED
  BY <1>2, Initially, InvariantInductive, PTL DEF Spec, RevokedStaysOut
=============================================================================

----------------------------- MODULE ApiServer -----------------------------
(***************************************************************************)
(* API processes from start to service: main.go opens the DID store with   *)
(* retries, server/router.go the API key and credential stores without,    *)
(* each of which runs the migrations of storage/migrations.go against the  *)
(* one database; outside production the development API keys are seeded.   *)
(* A serving process creates, revokes and checks API keys                  *)
(* (middleware/api_key_store.go, handlers/api_key.go, middleware/auth.go). *)
(*                                                                         *)
(* Several processes may start at once, each can crash at any point, every *)
(* database call can fail, and a statement reported as failed may have run *)
(* or run later; so may a transaction be left open, or commit late, after  *)
(* its process has failed or gone.  Without a database a process keeps its keys in memory    *)
(* and serves at once.                                                     *)
(***************************************************************************)
EXTENDS Naturals, FiniteSets

CONSTANTS
    Processes,
    Services,       \* service ids
    DevServices,    \* those of the development keys; each names its key, too
    Keys,           \* what GenerateAPIKey draws
    Versions,       \* number of migrations (3)
    MaxAttempts,    \* startupDependencyAttempts (12)
    MaxDetached,    \* bound: statements and transactions that outlive their call
    Database,       \* the database, as a place where keys are kept
    None

Row == [key : Keys \cup DevServices, revoked : BOOLEAN]
Statement == [op : {"create"}, service : Services, key : Keys \cup DevServices]
             \cup [op : {"revoke"}, service : Services]

\* A transaction that applies a migration: its table is made ("record" is next),
\* its row as well ("commit" is next), or its COMMIT is with the database.
Transaction == [version : 1 .. Versions, point : {"record", "commit", "sent"}]

\* The environment a process is started with, as config.Load reads it.
Environment == [name : {"production", "development"}, adminToken : {"", "dev", "own"},
                origins : {"any", "listed"}]

\* What of it still matters when the process is up.
Config == [production : BOOLEAN, admin : BOOLEAN]

ASSUME ServiceAssumption == /\ DevServices \subseteq Services /\ DevServices # {}
                            /\ Keys \cap DevServices = {}
ASSUME BoundAssumption == Versions \in Nat /\ MaxAttempts \in Nat \ {0}
ASSUME NoneAssumption == None \notin Row
ASSUME DatabaseAssumption == Database \notin Processes

Homes == Processes \cup {Database}

VARIABLES
    backend,    \* "memory" or "postgres": the configuration of all processes
    pc,         \* [Processes -> ...]: the call a process is about to make
    opening,    \* [Processes -> {"did", "keys", "credentials"}]: for which store
    attempt,    \* [Processes -> 1..MaxAttempts]
    version,    \* [Processes -> 1..Versions+1]: the migration in hand
    config,     \* [Processes -> Config]: what it was started with
    toSeed,     \* [Processes -> SUBSET DevServices]
    tables, recorded,   \* migrations the database has, and has on record
    left,       \* SUBSET Transaction: open though their process failed or went
    keys,       \* [Homes -> [Services -> Row \cup {None}]]
    detached,   \* SUBSET Statement: statements that outlive their call
    minted,     \* SUBSET Keys: keys drawn
    given,      \* [Homes -> [Services -> SUBSET Keys]]: keys answered with 201
    developed,  \* SUBSET Homes: where a process not in production has started
    reply       \* what the last step answered, and about which key

startVars == <<pc, opening, attempt, version, config, toSeed>>
keyVars == <<keys, detached, minted, given>>
vars == <<backend, startVars, tables, recorded, left, keyVars, developed, reply>>

Starting == {"migrate", "create", "record", "commit", "seed"}

Silent == [code |-> "-", home |-> None, service |-> None]

NoKeys == [s \in Services |-> None]

Unset == [production |-> FALSE, admin |-> FALSE]

Home(p) == IF backend = "memory" THEN p ELSE Database

Init == /\ backend \in {"memory", "postgres"}
        /\ pc = [p \in Processes |-> "down"]
        /\ opening = [p \in Processes |-> "did"]
        /\ attempt = [p \in Processes |-> 1]
        /\ version = [p \in Processes |-> 1]
        /\ config = [p \in Processes |-> Unset]
        /\ toSeed = [p \in Processes |-> {}]
        /\ tables = {} /\ recorded = {} /\ left = {}
        /\ keys = [h \in Homes |-> NoKeys]
        /\ detached = {}
        /\ minted = {}
        /\ given = [h \in Homes |-> [s \in Services |-> {}]]
        /\ developed = {}
        /\ reply = Silent

-----------------------------------------------------------------------------
(* Starting. *)

At(p, point, store, v) == /\ pc' = [pc EXCEPT ![p] = point]
                          /\ opening' = [opening EXCEPT ![p] = store]
                          /\ version' = [version EXCEPT ![p] = v]

Down(p) == /\ At(p, "down", "did", 1)
           /\ attempt' = [attempt EXCEPT ![p] = 1]
           /\ config' = [config EXCEPT ![p] = Unset]

\* Mutant: development keys are seeded in production as well.
SeedsAlways(prod) == DevServices

\* newAPIKeyStore.
Seeds(prod) == IF prod THEN {} ELSE DevServices

IsProduction(env) == env.name = "production"

\* validate: production insists on a token of its own and on listed origins.
Acceptable(env) == IsProduction(env) => env.adminToken = "own" /\ env.origins = "listed"

(* A process starts, unless config.Load refuses its environment: then main *)
(* exits.  Without a database it seeds its own store and serves.           *)
Start(p, env) ==
    LET prod == IsProduction(env) IN
    /\ pc[p] = "down" /\ Acceptable(env)
    /\ config' = [config EXCEPT ![p] = [production |-> prod, admin |-> env.adminToken # ""]]
    /\ developed' = IF prod THEN developed ELSE developed \cup {Home(p)}
    /\ \/ /\ backend = "memory"
          /\ At(p, "serve", "did", 1)
          /\ keys' = [keys EXCEPT ![p] = [s \in Services |->
                        IF s \in Seeds(prod) THEN [key |-> s, revoked |-> FALSE] ELSE None]]
       \/ /\ backend = "postgres"
          /\ At(p, "migrate", "did", 1)
          /\ UNCHANGED keys
    /\ reply' = Silent
    /\ UNCHANGED <<attempt, toSeed, tables, recorded, left, detached, minted, given>>

\* Mutant: the attempts are not counted.
OpenFailedAgain(p) == At(p, "migrate", "did", 1) /\ UNCHANGED <<attempt, config>>

\* An open failed. Only the DID store's is tried again
\* (connectPostgresDIDStore); else the process exits.
OpenFailed(p) ==
    \/ /\ opening[p] = "did" /\ attempt[p] < MaxAttempts
       /\ At(p, "migrate", "did", 1)
       /\ attempt' = [attempt EXCEPT ![p] = @ + 1] /\ UNCHANGED config
    \/ /\ ~(opening[p] = "did" /\ attempt[p] < MaxAttempts)
       /\ Down(p)

Starts == reply' = Silent /\ UNCHANGED <<minted, given, developed>>

\* A transaction, of a process or left open, is past one of these points of
\* migration v.
Holds(v, points) == \/ \E q \in Processes : pc[q] \in points /\ version[q] = v
                    \/ \E t \in left : t.point \in points /\ t.version = v

\* CREATE TABLE IF NOT EXISTS waits for whoever creates the table, the INSERT
\* for whoever records the migration.
MayCreate(v) == v \in tables \/ ~Holds(v, {"record", "commit", "sent"})
MayRecord(v) == v \notin recorded /\ ~Holds(v, {"commit", "sent"})

\* What p's transaction may have come to when the database last hears of p.
Leavable(p) ==
    {t \in Transaction :
       /\ t.version = version[p]
       /\ \/ pc[p] = "create" /\ t.point = "record" /\ MayCreate(t.version)
          \/ pc[p] = "record" /\ t.point = "record"
          \/ pc[p] = "record" /\ t.point = "commit" /\ MayRecord(t.version)
          \/ pc[p] = "commit" /\ t.point \in {"commit", "sent"}}

Outlives == Cardinality(detached) + Cardinality(left) < MaxDetached

\* p's transaction is rolled back at once, or left open.
Abandon(p) == \/ UNCHANGED left
              \/ Outlives /\ \E t \in Leavable(p) : left' = left \cup {t}

(* A call fails: refused, timed out after its 10 s, or the network. *)
CallFails(p) ==
    /\ pc[p] \in Starting
    /\ OpenFailed(p)
    /\ toSeed' = [toSeed EXCEPT ![p] = {}]
    /\ \/ UNCHANGED detached
       \/ /\ Outlives
          /\ \E s \in toSeed[p] :
               detached' = detached \cup {[op |-> "create", service |-> s, key |-> s]}
    /\ Abandon(p)
    /\ Starts /\ UNCHANGED <<tables, recorded, keys>>

\* A store is open: on to the next one, at last to service.
Opened(p) ==
    \/ /\ opening[p] = "did" /\ At(p, "migrate", "keys", 1)
       /\ attempt' = [attempt EXCEPT ![p] = 1] /\ UNCHANGED toSeed
    \/ /\ opening[p] = "keys"
       /\ toSeed' = [toSeed EXCEPT ![p] = Seeds(config[p].production)]
       /\ IF toSeed'[p] = {} THEN At(p, "migrate", "credentials", 1) ELSE At(p, "seed", "keys", 1)
       /\ UNCHANGED attempt
    \/ opening[p] = "credentials" /\ At(p, "serve", "did", 1) /\ UNCHANGED <<attempt, toSeed>>

LastVersion(v) == v > Versions

(* OpenPostgres, a Ping, then Migrate: is the next version on record? *)
Migrate(p) ==
    LET v == version[p] IN
    /\ pc[p] = "migrate"
    /\ \/ LastVersion(v) /\ Opened(p)
       \/ /\ ~LastVersion(v)
          /\ IF v \in recorded THEN At(p, "migrate", opening[p], v + 1)
                               ELSE At(p, "create", opening[p], v)
          /\ UNCHANGED <<attempt, toSeed>>
    /\ Starts /\ UNCHANGED <<config, tables, recorded, left, keys, detached>>

\* Mutant: the migration's SQL does not run in the transaction.
ApplyCreateOutside(p) ==
    LET v == version[p] IN
    /\ pc[p] = "create" /\ MayCreate(v)
    /\ tables' = tables \cup {v}
    /\ At(p, "record", opening[p], v)
    /\ Starts /\ UNCHANGED <<config, attempt, toSeed, recorded, left, keys, detached>>

(* applyMigration: in one transaction, the migration's SQL, *)
ApplyCreate(p) ==
    LET v == version[p] IN
    /\ pc[p] = "create" /\ MayCreate(v)
    /\ At(p, "record", opening[p], v)
    /\ Starts /\ UNCHANGED <<config, attempt, toSeed, tables, recorded, left, keys, detached>>

(* the INSERT of its row, where a conflict means that it is applied and *)
(* this transaction is rolled back,                                     *)
ApplyRecord(p) ==
    LET v == version[p] IN
    /\ pc[p] = "record"
    /\ \/ v \in recorded /\ At(p, "migrate", opening[p], v + 1)
       \/ MayRecord(v) /\ At(p, "commit", opening[p], v)
    /\ Starts /\ UNCHANGED <<config, attempt, toSeed, tables, recorded, left, keys, detached>>

(* and the COMMIT of both, though the process may not hear of it. *)
ApplyCommit(p) ==
    LET v == version[p] IN
    /\ pc[p] = "commit"
    /\ tables' = tables \cup {v} /\ recorded' = recorded \cup {v}
    /\ \/ At(p, "migrate", opening[p], v + 1) /\ UNCHANGED <<attempt, config>>
       \/ OpenFailed(p)
    /\ Starts /\ UNCHANGED <<toSeed, left, keys, detached>>

(* The database ends a transaction that was left open: rolls it back, or *)
(* runs the COMMIT it was sent.                                          *)
EndLeft(t) ==
    /\ t \in left
    /\ left' = left \ {t}
    /\ \/ UNCHANGED <<tables, recorded>>
       \/ /\ t.point = "sent"
          /\ tables' = tables \cup {t.version} /\ recorded' = recorded \cup {t.version}
    /\ Starts /\ UNCHANGED <<startVars, keys, detached>>

-----------------------------------------------------------------------------
\* Mutant: an upsert.
InsertUpsert(h, s, k) == keys' = [keys EXCEPT ![h][s] = [key |-> k, revoked |-> FALSE]]

\* INSERT, or the map under its mutex; a key that is there stays.
Insert(h, s, k) ==
    keys' = IF keys[h][s] # None THEN keys
            ELSE [keys EXCEPT ![h][s] = [key |-> k, revoked |-> FALSE]]

(* One development key is seeded; if it exists that is fine. *)
Seed(p, s) ==
    /\ pc[p] = "seed" /\ s \in toSeed[p]
    /\ Insert(Database, s, s)
    /\ toSeed' = [toSeed EXCEPT ![p] = @ \ {s}]
    /\ IF toSeed'[p] = {} THEN At(p, "migrate", "credentials", 1) ELSE At(p, "seed", "keys", 1)
    /\ Starts /\ UNCHANGED <<config, attempt, tables, recorded, left, detached>>

-----------------------------------------------------------------------------
(* Serving. *)

Serves(p) == pc[p] = "serve" /\ UNCHANGED <<backend, startVars, tables, recorded, left, developed>>

Answer(code, h, s) == reply' = [code |-> code, home |-> h, service |-> s]

CanFail == backend = "postgres"

\* A statement reported as failed was not run, was, or is still to be.
MayHaveRun(h, s, statement, Effect) ==
    /\ CanFail /\ Answer("500", h, s)
    /\ \/ UNCHANGED <<keys, detached>>
       \/ Effect /\ UNCHANGED detached
       \/ /\ Outlives
          /\ detached' = detached \cup {statement} /\ UNCHANGED keys

(* RequireAdminToken, before any admin route: no token is configured (503), *)
(* or it is not the one the request brings (401).                           *)
RefuseAdmin(p) == Serves(p) /\ reply' = Silent /\ UNCHANGED keyVars

Admits(p) == Serves(p) /\ config[p].admin

(* POST /v1/admin/api-keys: a key is drawn, stored and answered. *)
CreateKey(p, s, k) ==
    LET h == Home(p) IN
    /\ Admits(p) /\ k \notin minted
    /\ minted' = minted \cup {k}
    /\ \/ /\ keys[h][s] = None /\ Insert(h, s, k)
          /\ given' = [given EXCEPT ![h][s] = @ \cup {k}]
          /\ Answer("201", h, s) /\ UNCHANGED detached
       \/ keys[h][s] # None /\ Answer("409", h, s) /\ UNCHANGED <<keys, given, detached>>
       \/ /\ MayHaveRun(h, s, [op |-> "create", service |-> s, key |-> k], Insert(h, s, k))
          /\ UNCHANGED given

RevokedRow(row) == IF row = None THEN None ELSE [row EXCEPT !.revoked = TRUE]

SetRevoked(h, s) == keys' = [keys EXCEPT ![h][s] = RevokedRow(@)]

(* POST /v1/admin/api-keys/revoke. *)
RevokeKey(p, s) ==
    LET h == Home(p) IN
    /\ Admits(p)
    /\ \/ keys[h][s] # None /\ SetRevoked(h, s) /\ Answer("200", h, s) /\ UNCHANGED detached
       \/ keys[h][s] = None /\ Answer("404", h, s) /\ UNCHANGED <<keys, detached>>
       \/ MayHaveRun(h, s, [op |-> "revoke", service |-> s], SetRevoked(h, s))
    /\ UNCHANGED <<minted, given>>

\* Mutant: a revoked key is as good as any.
ValidatesRevoked(row, k) == row \in [key : {k}, revoked : BOOLEAN]

\* Validate.
Validates(row, k) == row \in [key : {k}, revoked : {FALSE}]

(* RequireAPIKey, before any credential or verify route. *)
Use(p, s, k) ==
    /\ Serves(p)
    /\ \/ Validates(keys[Home(p)][s], k) /\ Answer("served", Home(p), s)
       \/ (~Validates(keys[Home(p)][s], k) \/ CanFail) /\ Answer("401", Home(p), s)
    /\ UNCHANGED keyVars

(* The database runs such a statement, or gives it up. *)
RunDetached(d) ==
    /\ d \in detached
    /\ detached' = detached \ {d}
    /\ \/ d.op = "create" /\ Insert(Database, d.service, d.key)
       \/ d.op = "revoke" /\ SetRevoked(Database, d.service)
       \/ UNCHANGED keys
    /\ reply' = Silent
    /\ UNCHANGED <<startVars, tables, recorded, left, minted, given, developed>>

(* A process ends, with what it has in memory. *)
Crash(p) ==
    /\ pc[p] # "down"
    /\ Down(p)
    /\ Abandon(p)
    /\ toSeed' = [toSeed EXCEPT ![p] = {}]
    /\ keys' = [keys EXCEPT ![p] = NoKeys]
    /\ given' = [given EXCEPT ![p] = [s \in Services |-> {}]]
    /\ developed' = developed \ {p}
    /\ reply' = Silent
    /\ UNCHANGED <<tables, recorded, detached, minted>>

StartupStep(p) == \/ Migrate(p)
                  \/ ApplyCreate(p) \/ ApplyRecord(p) \/ ApplyCommit(p)
                  \/ \E s \in DevServices : Seed(p, s)
                  \/ CallFails(p)

Act == \/ \E p \in Processes :
            \/ \E env \in Environment : Start(p, env)
            \/ StartupStep(p)
            \/ \E s \in Services, k \in Keys : CreateKey(p, s, k)
            \/ RefuseAdmin(p)
            \/ \E s \in Services : RevokeKey(p, s)
            \/ \E s \in Services, k \in minted \cup DevServices : Use(p, s, k)
            \/ Crash(p)
       \/ \E d \in detached : RunDetached(d)
       \/ \E t \in left : EndLeft(t)

Next == Act /\ UNCHANGED backend

Spec == Init /\ [][Next]_vars

\* A process that is starting goes on: each of its calls ends within 10 s.
FairSpec == Spec /\ \A p \in Processes : WF_vars(StartupStep(p) /\ UNCHANGED backend)

-----------------------------------------------------------------------------
(* Properties. *)

TypeOK == /\ backend \in {"memory", "postgres"}
          /\ pc \in [Processes -> Starting \cup {"down", "serve"}]
          /\ opening \in [Processes -> {"did", "keys", "credentials"}]
          /\ attempt \in [Processes -> 1 .. MaxAttempts]
          /\ version \in [Processes -> 1 .. Versions + 1]
          /\ config \in [Processes -> Config]
          /\ toSeed \in [Processes -> SUBSET DevServices]
          /\ tables \subseteq 1 .. Versions /\ recorded \subseteq 1 .. Versions
          /\ left \subseteq Transaction
          /\ keys \in [Homes -> [Services -> Row \cup {None}]]
          /\ detached \subseteq Statement
          /\ minted \subseteq Keys
          /\ given \in [Homes -> [Services -> SUBSET Keys]]
          /\ developed \subseteq Homes

\* How far a starting process, or a transaction left open, is tells what the
\* database has.
Migrated ==
    /\ tables = recorded
    /\ \A v \in recorded : 1 .. v \subseteq recorded
    /\ \A p \in Processes : 1 .. (version[p] - 1) \subseteq recorded
    /\ \A t \in left : 1 .. (t.version - 1) \subseteq recorded
    /\ \A p \in Processes :
         opening[p] # "did" \/ (pc[p] = "serve" /\ backend = "postgres") => recorded = 1 .. Versions
    /\ \A p \in Processes : pc[p] = "seed" => opening[p] = "keys"
    /\ \A p \in Processes : pc[p] \in {"create", "record", "commit"} => version[p] <= Versions
    /\ \A p \in Processes : backend = "memory" => pc[p] \in {"down", "serve"}

\* However many processes start at once, crash, lose their connection or leave
\* transactions open that end or commit later: the migrations on record are
\* those applied, without a gap, and whoever is past the first store finds all
\* of them; and in production the admin API is
\* always configured.
Consistent ==
    /\ TypeOK
    /\ Migrated
    /\ \A p \in Processes : config[p].production => config[p].admin

\* A service's key is told once, and the key told is the key stored, whatever
\* was tried before, failed, landed late or was revoked.
ToldOnce == \A h \in Homes, s \in Services :
    given[h][s] # {} => keys[h][s] # None /\ given[h][s] = {keys[h][s].key}

\* Development keys are only where some process outside production has run.
\* (They stay there when the next process is in production.)
DevKeysInDevelopment == \A h \in Homes, s \in Services :
    keys[h][s] # None /\ keys[h][s].key \in DevServices => h \in developed

\* A revoked key stays revoked and is never served again, whatever is seeded,
\* created a second time or lands late; in the database also across restarts.
\* What a process has in memory goes with it, revocations included: the next one
\* seeds a revoked development key anew, and it is valid again.
RevokedStaysOut ==
    [][\A h \in Homes, s \in Services : keys[h][s] # None /\ keys[h][s].revoked =>
         \/ h # Database /\ keys'[h] = NoKeys
         \/ /\ keys'[h][s] = keys[h][s]
            /\ ~(reply'.code = "served" /\ reply'.home = h /\ reply'.service = s)]_vars

\* Every start comes to service or to an exit.
StartEnds == \A p \in Processes : pc[p] \in Starting ~> pc[p] \notin Starting
=============================================================================

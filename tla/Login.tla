------------------------------- MODULE Login --------------------------------
(***************************************************************************)
(* POST /api/auth/login against one credential row (core.local_users or    *)
(* core.users) and one client address. Handlers run concurrently: the row  *)
(* is read, the password compared, and the outcome written by a later      *)
(* UPDATE that counts in the database. The address is limited separately,  *)
(* by rows that may be unreadable.                                         *)
(***************************************************************************)
EXTENDS Naturals, FiniteSets

CONSTANTS
  Logins,       \* login requests, each sent once
  Threshold,    \* LOCKOUT_THRESHOLD
  MaxAttempts   \* failures of an address before checkAllowed refuses it

ASSUME LoginAssumption == {Threshold, MaxAttempts} \subseteq Nat \ {0}

VARIABLES
  cred,     \* the credential: enabled, failures, lock, and whether a role is granted
  ipFails,  \* rows of core.login_rate_limit_failures inside the horizon
  login,    \* the requests: step, right password, outcome
  cookies,  \* requests whose session cookie is still valid
  lapsed    \* history: the lock ran out since the last success

loginVars == <<cred, ipFails, login, cookies, lapsed>>

Unsent == [at |-> "unsent", right |-> FALSE, outcome |-> "none"]

LoginInit ==
  /\ \E granted \in BOOLEAN : cred = [enabled |-> TRUE, fails |-> 0, locked |-> FALSE, granted |-> granted]
  /\ ipFails = 0 /\ login = [l \in Logins |-> Unsent] /\ cookies = {} /\ lapsed = FALSE

-----------------------------------------------------------------------------
(* checkAllowed: a count, TRUE when the table cannot be read. *)
Allowed == {ipFails < MaxAttempts, TRUE}

CheckAllowed(l) ==
  /\ login[l] = Unsent
  /\ \E ok \in Allowed, right \in BOOLEAN :
       login' = [login EXCEPT ![l] = [Unsent EXCEPT !.at = IF ok THEN "read" ELSE "done", !.right = right]]
  /\ UNCHANGED <<cred, ipFails, cookies, lapsed>>

(* authenticate up to the comparison: disabled and locked end here, counted *)
(* against the address only; no password is compared.                       *)
ReadCredential(l) ==
  /\ login[l].at = "read"
  /\ login' = [login EXCEPT
       ![l].at = IF ~cred.enabled \/ cred.locked THEN "address" ELSE "record",
       ![l].outcome = IF ~cred.enabled THEN "disabled" ELSE IF cred.locked THEN "locked"
                      ELSE IF login[l].right THEN "ok" ELSE "bad_credentials"]
  /\ UNCHANGED <<cred, ipFails, cookies, lapsed>>

(* PostgresRoleResolver: no grant, or no answer from the database, is no role. *)
Resolved(outcome) == IF outcome = "ok" THEN {"no_role"} \cup (IF cred.granted THEN {"ok"} ELSE {}) ELSE {outcome}

(* applyAttempt, as the CASE of the atomic UPDATE: the lock is set on the    *)
(* step to the threshold and never again before a success.                   *)
Attempted(ok) ==
  IF ok THEN [cred EXCEPT !.fails = 0, !.locked = FALSE]
  ELSE [cred EXCEPT !.fails = @ + 1, !.locked = @ \/ cred.fails + 1 = Threshold]

(* recordLoginAttempt with the audit row in its transaction. A failing audit *)
(* insert rolls the count back and the request ends in a 500.                *)
RecordAttempt(l) ==
  /\ login[l].at = "record"
  /\ \/ /\ cred' = Attempted(login[l].outcome = "ok")
        /\ lapsed' = (lapsed /\ login[l].outcome # "ok")
        /\ \E o \in Resolved(login[l].outcome) :
             login' = [login EXCEPT ![l].at = "address", ![l].outcome = o]
     \/ login' = [login EXCEPT ![l].at = "done", ![l].outcome = "error"] /\ UNCHANGED <<cred, lapsed>>
  /\ UNCHANGED <<ipFails, cookies>>

(* recordSuccess or recordFailure, which do nothing when the database fails, *)
(* then issueCookie.                                                         *)
RecordAddress(l) ==
  /\ login[l].at = "address"
  /\ ipFails' \in {ipFails, IF login[l].outcome = "ok" THEN 0 ELSE ipFails + 1}
  /\ cookies' = (IF login[l].outcome = "ok" THEN cookies \cup {l} ELSE cookies)
  /\ login' = [login EXCEPT ![l].at = "done"]
  /\ UNCHANGED <<cred, lapsed>>

(* LOCKOUT_DURATION_MS pass: isLocked is false from here on. *)
LockLapses ==
  /\ cred.locked /\ cred' = [cred EXCEPT !.locked = FALSE] /\ lapsed' = TRUE
  /\ UNCHANGED <<ipFails, login, cookies>>

(* The failures leave the horizon; recordFailure prunes them. *)
WindowPasses == ipFails > 0 /\ ipFails' = 0 /\ UNCHANGED <<cred, login, cookies, lapsed>>

(* SESSION_LIFETIME_MS pass; verifyCookie refuses the cookie. Nothing else  *)
(* ends it: not logout, a disabled account or a revoked grant.              *)
CookieExpires(l) == l \in cookies /\ cookies' = cookies \ {l} /\ UNCHANGED <<cred, ipFails, login, lapsed>>

(* disable, and a revoke applied at the members desk *)
Withdraw ==
  /\ \/ cred.enabled /\ cred' = [cred EXCEPT !.enabled = FALSE]
     \/ cred.granted /\ cred' = [cred EXCEPT !.granted = FALSE]
  /\ UNCHANGED <<ipFails, login, cookies, lapsed>>

LoginNext ==
  \/ \E l \in Logins : CheckAllowed(l) \/ ReadCredential(l) \/ RecordAttempt(l) \/ RecordAddress(l) \/ CookieExpires(l)
  \/ LockLapses \/ WindowPasses \/ Withdraw

-----------------------------------------------------------------------------
(* However the failures interleave, the one that reaches the threshold sets *)
(* the lock: a count at or above it means locked, or that the lock has run  *)
(* its course. Below it nothing is locked.                                  *)
LockedAtThreshold == (cred.fails >= Threshold) <=> (cred.locked \/ lapsed)

-----------------------------------------------------------------------------
(* What a server pod does before it serves: take the session signing key    *)
(* from Vault or from core.auth_secrets, and see to it that a super admin   *)
(* exists. Pods start concurrently and may die anywhere.                    *)
CONSTANTS
  Replicas,   \* server pods
  MaxBoots,   \* bound on the starts of pods
  NoKey

ASSUME AuthSecretsAssumption == NoKey \notin Replicas /\ MaxBoots \in Nat \ {0}

VaultKey == "vault"

VARIABLES
  vaultHas,  \* Vault, or the environment, holds both keys
  dbKey,     \* the row of core.auth_secrets, named by the pod that generated it
  admin,     \* the 'admin' row of core.local_users: absent, disabled or active
  replica,   \* the pods: step and key
  boots,
  missed     \* history: a pod could not reach the source that holds the keys

secretVars == <<vaultHas, dbKey, admin, replica, boots, missed>>

Down == [at |-> "down", key |-> NoKey]

SecretsInit ==
  /\ vaultHas \in BOOLEAN /\ dbKey = NoKey /\ admin \in {"absent", "disabled", "active"}
  /\ replica = [p \in Replicas |-> Down] /\ boots = 0 /\ missed = FALSE

Steps(p, s) == replica' = [replica EXCEPT ![p].at = s]

-----------------------------------------------------------------------------
(* selectBaseAuthReader and the memoised kvRead: what the base source gives *)
(* wins, and a source that throws counts as empty.                          *)
ReadBase(p) ==
  /\ replica[p].at = "down" /\ boots < MaxBoots /\ boots' = boots + 1
  /\ \E reached \in BOOLEAN :
       /\ replica' = [replica EXCEPT ![p] =
            IF vaultHas /\ reached THEN [at |-> "admins", key |-> VaultKey] ELSE [at |-> "ensure", key |-> NoKey]]
       /\ missed' = (missed \/ (vaultHas /\ ~reached))
  /\ UNCHANGED <<vaultHas, dbKey, admin>>

(* ensure: read, and generate when there is no row *)
ReadSecrets(p) ==
  /\ replica[p].at = "ensure"
  /\ replica' = [replica EXCEPT ![p] =
       IF dbKey # NoKey THEN [at |-> "admins", key |-> dbKey] ELSE [at |-> "insert", key |-> NoKey]]
  /\ UNCHANGED <<vaultHas, dbKey, admin, boots, missed>>

(* The row re-read after INSERT ... ON CONFLICT DO NOTHING. *)
Persisted(p) == IF dbKey = NoKey THEN p ELSE dbKey

InsertSecrets(p) ==
  /\ replica[p].at = "insert"
  /\ dbKey' = (IF dbKey = NoKey THEN p ELSE dbKey)
  /\ replica' = [replica EXCEPT ![p] = [at |-> "admins", key |-> Persisted(p)]]
  /\ UNCHANGED <<vaultHas, admin, boots, missed>>

(* bootstrapSuperAdmin: listActiveSuperAdmins, then getByUsername *)
ListAdmins(p) ==
  /\ replica[p].at = "admins"
  /\ Steps(p, IF admin = "active" THEN "up" ELSE "seed")
  /\ UNCHANGED <<vaultHas, dbKey, admin, boots, missed>>

LookUpAdmin(p) ==
  /\ replica[p].at = "seed"
  /\ Steps(p, IF admin = "absent" THEN "create" ELSE "reactivate")
  /\ UNCHANGED <<vaultHas, dbKey, admin, boots, missed>>

(* seedDefault: reactivate the row, or insert it; a unique violation is     *)
(* swallowed when an active super admin is there now.                       *)
SeedDefault(p) ==
  /\ replica[p].at \in {"create", "reactivate"}
  /\ \/ replica[p].at = "reactivate" /\ admin' = "active" /\ Steps(p, "up")
     \/ replica[p].at = "create" /\ admin = "absent" /\ admin' = "active" /\ Steps(p, "up")
     \/ replica[p].at = "create" /\ admin # "absent" /\ UNCHANGED admin
        /\ Steps(p, IF admin = "active" THEN "up" ELSE "down")
  /\ UNCHANGED <<vaultHas, dbKey, boots, missed>>

PodDies(p) ==
  /\ replica[p].at # "down" /\ replica' = [replica EXCEPT ![p] = Down]
  /\ UNCHANGED <<vaultHas, dbKey, admin, boots, missed>>

SecretsNext ==
  \E p \in Replicas :
    ReadBase(p) \/ ReadSecrets(p) \/ InsertSecrets(p) \/ ListAdmins(p) \/ LookUpAdmin(p) \/ SeedDefault(p) \/ PodDies(p)

-----------------------------------------------------------------------------
(* A session signed by one pod verifies on every other: pods that serve     *)
(* hold the same key, unless one of them could not reach the source when it *)
(* started and took the database's. And a pod serves only once a super      *)
(* admin exists.                                                            *)
ReplicasAgree ==
  LET up == {p \in Replicas : replica[p].at = "up"} IN
  /\ missed \/ \A p, q \in up : replica[p].key = replica[q].key
  /\ up # {} => admin = "active"
=============================================================================

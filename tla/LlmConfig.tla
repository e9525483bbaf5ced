----------------------------- MODULE LlmConfig ------------------------------
(***************************************************************************)
(* Which provider and which key a model call uses. An administrator writes *)
(* core.llm_provider_settings; a process keeps a client per role           *)
(* (LlmClientCache, rebuilt when the rotation fingerprint moves) and the   *)
(* decrypted credentials (LlmCredentialsProvider: a TTL cache dropped when *)
(* the fingerprint moves, served stale while refreshes fail). One role; a  *)
(* read is within one tick of the clock.                                   *)
(***************************************************************************)
EXTENDS Naturals, FiniteSets

CONSTANTS
  Calls,      \* model calls of one process
  Providers,  \* providers an administrator may choose
  CredTtl,    \* ticks cached credentials are fresh
  HardStale,  \* ticks of failing refreshes after which nothing is served
  MaxRotation,\* bound on settings writes
  MaxInstant  \* bound on the clock

ASSUME ConfigAssumption == {CredTtl, HardStale, MaxInstant} \subseteq Nat /\ MaxRotation \in Nat \ {0} /\ Providers # {}

VARIABLES
  instant,   \* the clock
  settings,  \* the row: version (its last_rotated_at), provider, enabled, and when it was written
  built,     \* LlmClientCache: the client's provider and the fingerprint it is filed under
  creds,     \* LlmCredentialsProvider.cached: version, expiry, and whether a write overtook its read
  seenFp,    \* LlmCredentialsProvider.fingerprints
  failing,   \* lastRefreshFailedAt
  locked,    \* the holders of the two mutexes
  mcall      \* each call

configVars == <<instant, settings, built, creds, seenFp, failing, locked, mcall>>

Never == MaxInstant + 1
NoClient == [provider |-> "none", fp |-> MaxRotation + 1]
NoCreds == [ver |-> 0, until |-> 0, torn |-> FALSE, there |-> FALSE]
NoCall == [at |-> "idle", fp |-> 0, read |-> 0, on |-> FALSE, client |-> "none", got |-> 0, began |-> 0, torn |-> FALSE, stale |-> FALSE]

ConfigInit ==
  /\ instant = 0 /\ settings = [ver |-> 1, provider |-> CHOOSE p \in Providers : TRUE, enabled |-> TRUE, wrote |-> 0]
  /\ built = NoClient /\ creds = NoCreds /\ seenFp = 0 /\ failing = Never
  /\ locked = {} /\ mcall = [c \in Calls |-> NoCall]

InRead == {"rowRead", "credRead", "use"}

-----------------------------------------------------------------------------
Later ==
  /\ instant < MaxInstant /\ \A c \in Calls : mcall[c].at \notin InRead
  /\ instant' = instant + 1
  /\ UNCHANGED <<settings, built, creds, seenFp, failing, locked, mcall>>

(* PUT llm-provider-config: a preflight unless it disables, then one upsert *)
(* with a new last_rotated_at.                                              *)
PutSettings ==
  /\ settings.ver < MaxRotation
  /\ \E p \in Providers, on \in BOOLEAN : settings' = [ver |-> settings.ver + 1, provider |-> p, enabled |-> on, wrote |-> instant]
  /\ mcall' = [c \in Calls |-> IF mcall[c].at = "credRead" THEN [mcall[c] EXCEPT !.torn = TRUE] ELSE mcall[c]]
  /\ UNCHANGED <<instant, built, creds, seenFp, failing, locked>>

Step(c, r) == mcall' = [mcall EXCEPT ![c] = r]
Fails(c) == Step(c, [mcall[c] EXCEPT !.at = "failed"])

(* forRole: the fingerprint, then the cached client if it is filed under it. *)
ForRole(c) ==
  /\ mcall[c].at \in {"idle", "used"}
  /\ LET r == [NoCall EXCEPT !.fp = settings.ver, !.began = settings.ver]
     IN  Step(c, IF built.fp = settings.ver THEN [r EXCEPT !.at = "creds", !.client = built.provider]
                                           ELSE [r EXCEPT !.at = "reconstruct"])
  /\ UNCHANGED <<instant, settings, built, creds, seenFp, failing, locked>>

Reconstruct(c) ==
  /\ mcall[c].at = "reconstruct" /\ "client" \notin locked
  /\ IF built.fp = mcall[c].fp
     THEN Step(c, [mcall[c] EXCEPT !.at = "creds", !.client = built.provider]) /\ UNCHANGED locked
     ELSE Step(c, [mcall[c] EXCEPT !.at = "rowRead"]) /\ locked' = locked \cup {"client"}
  /\ UNCHANGED <<instant, settings, built, creds, seenFp, failing>>

(* readDecryptedSettings, in forRole: no row, a disabled row or a failing   *)
(* read throws. The client is filed under the fingerprint read before.      *)
BuildClient(c) ==
  /\ mcall[c].at = "rowRead" /\ locked' = locked \ {"client"}
  /\ \/ /\ settings.enabled
        /\ built' = [provider |-> settings.provider, fp |-> mcall[c].fp]
        /\ Step(c, [mcall[c] EXCEPT !.at = "creds", !.client = settings.provider])
     \/ Fails(c) /\ UNCHANGED built
  /\ UNCHANGED <<instant, settings, creds, seenFp, failing>>

-----------------------------------------------------------------------------
(* fingerprintMoved *)
FingerprintMoved(fp) == seenFp # fp

(* cacheIsFresh *)
CacheIsFresh(e) == e.there /\ instant < e.until

Served(c, e, stale) == [mcall[c] EXCEPT !.at = "use", !.got = e.ver, !.torn = e.torn, !.stale = stale]

(* current: read the fingerprint, drop what it outdates, serve what is fresh. *)
Current(c) ==
  /\ mcall[c].at = "creds"
  /\ LET e == IF FingerprintMoved(settings.ver) THEN NoCreds ELSE creds
     IN  /\ creds' = e /\ seenFp' = settings.ver
         /\ Step(c, IF CacheIsFresh(e) THEN Served(c, e, FALSE) ELSE [mcall[c] EXCEPT !.at = "refresh"])
  /\ UNCHANGED <<instant, settings, built, failing, locked>>

(* readLastRotatedAt is outside every try: an unreachable database throws.  *)
CurrentThrows(c) ==
  /\ mcall[c].at = "creds" /\ Fails(c)
  /\ UNCHANGED <<instant, settings, built, creds, seenFp, failing, locked>>

TakeRoleLock(c) ==
  /\ mcall[c].at = "refresh" /\ "role" \notin locked
  /\ IF CacheIsFresh(creds) THEN Step(c, Served(c, creds, FALSE)) /\ UNCHANGED locked
     ELSE Step(c, [mcall[c] EXCEPT !.at = "credRead", !.read = settings.ver, !.on = settings.enabled, !.torn = FALSE]) /\ locked' = locked \cup {"role"}
  /\ UNCHANGED <<instant, settings, built, creds, seenFp, failing>>

(* refreshOrServeStale: the answer to the read that TakeRoleLock sent.      *)
Refresh(c) ==
  /\ mcall[c].at = "credRead" /\ mcall[c].on
  /\ LET e == [ver |-> mcall[c].read, until |-> instant + CredTtl, torn |-> mcall[c].torn, there |-> TRUE]
     IN  creds' = e /\ Step(c, Served(c, e, FALSE))
  /\ failing' = Never /\ locked' = locked \ {"role"}
  /\ UNCHANGED <<instant, settings, built, seenFp>>

(* The row read is disabled: nothing is served, the entry stays. *)
RefreshDisabled(c) ==
  /\ mcall[c].at = "credRead" /\ ~mcall[c].on
  /\ Fails(c) /\ locked' = locked \ {"role"}
  /\ UNCHANGED <<instant, settings, built, creds, seenFp, failing>>

(* handleRefreshFailure *)
RefreshFails(c) ==
  /\ mcall[c].at = "credRead" /\ locked' = locked \ {"role"}
  /\ failing' = IF failing = Never THEN instant ELSE failing
  /\ IF creds.there /\ instant - failing' <= HardStale THEN Step(c, Served(c, creds, TRUE)) ELSE Fails(c)
  /\ UNCHANGED <<instant, settings, built, creds, seenFp>>

Invoke(c) ==
  /\ mcall[c].at = "use" /\ Step(c, [mcall[c] EXCEPT !.at = "used"])
  /\ UNCHANGED <<instant, settings, built, creds, seenFp, failing, locked>>

ConfigNext ==
  \/ Later \/ PutSettings
  \/ \E c \in Calls :
       \/ ForRole(c) \/ Reconstruct(c) \/ BuildClient(c) \/ Current(c) \/ CurrentThrows(c) \/ TakeRoleLock(c)
       \/ Refresh(c) \/ RefreshDisabled(c) \/ RefreshFails(c) \/ Invoke(c)

-----------------------------------------------------------------------------
(* A call that no settings write overtook uses the provider and the key of  *)
(* the row as it stands, whatever the two caches held: unless refreshes     *)
(* fail, or the entry was read before a write and stored after it, and that *)
(* one is not served past its TTL.                                          *)
CallUsesCurrentSettings ==
  \A c \in Calls :
    mcall[c].at = "use" /\ mcall[c].began = settings.ver =>
      /\ mcall[c].client = settings.provider
      /\ mcall[c].got = settings.ver \/ mcall[c].stale \/ mcall[c].torn
      /\ mcall[c].torn /\ ~mcall[c].stale => instant <= settings.wrote + CredTtl
=============================================================================

--------------------------- MODULE GithubTransport --------------------------
(***************************************************************************)
(* How a call to GitHub's REST API gets its installation token and what    *)
(* becomes of its request: GitHubAppTokenProvider (a token cache, a        *)
(* negative cache and a mutex per installation) and GitHubApiClient._request *)
(* (one forced refresh after a 401, retries of 5xx answers, rate limits).  *)
(* Callers of one process share one installation. Time is counted in       *)
(* ticks of the token's life; an exchange or a request is within one tick. *)
(***************************************************************************)
EXTENDS Naturals, FiniteSets, Sequences

CONSTANTS
  GhCallers,   \* requests of one process
  TokenLife,   \* ticks before a token expires
  RefreshAt,   \* age at which the cache stops serving it (0.8 of its life)
  NegativeFor, \* ticks a permanent refusal is remembered
  MaxSends,    \* MAX_5XX_RETRIES of the client: attempts of one request
  MaxMints,    \* bound: tokens GitHub ever issues
  MaxTicks     \* bound on the clock

ASSUME TransportAssumption ==
  {TokenLife, RefreshAt, NegativeFor, MaxSends, MaxMints, MaxTicks} \subseteq Nat \ {0} /\ RefreshAt < TokenLife

VARIABLES
  ticks,     \* the clock
  issued,    \* GitHub: tokens issued, each with its tick
  revoked,   \* GitHub: tokens it no longer accepts
  suspended, \* GitHub: the installation is suspended
  cachedTok, \* the provider's cache: a token or 0
  refusedTil,\* the negative cache: it answers before this tick
  mintQueue, \* KeyedMutex: callers in line, the first holds it
  req        \* each request

transportVars == <<ticks, issued, revoked, suspended, cachedTok, refusedTil, mintQueue, req>>

(* at: the step it is at; token: the token it holds; forced: this lookup is *)
(* the refresh after a 401; no: attempts made; effects: times it took       *)
(* effect at GitHub; shaky: GitHub answered it with a 5xx; last: the token  *)
(* GitHub refused it with.                                                  *)
Idle == [at |-> "idle", token |-> 0, forced |-> FALSE, no |-> 0, effects |-> 0, shaky |-> FALSE, last |-> 0]

TransportInit ==
  /\ ticks = 0 /\ issued = <<>> /\ revoked = {} /\ suspended = FALSE
  /\ cachedTok = 0 /\ refusedTil = 0 /\ mintQueue = <<>> /\ req = [c \in GhCallers |-> Idle]

Alive(t) == t # 0 /\ t \notin revoked /\ ticks < issued[t] + TokenLife

(* cacheLookup: a token past its refresh age is not served. *)
CacheLookup == cachedTok # 0 /\ ticks < issued[cachedTok] + RefreshAt

(* checkNegativeCache *)
Refused == ticks < refusedTil

Becomes(c, at) == [req EXCEPT ![c].at = at]
WithToken(c, t) == [req EXCEPT ![c].at = "send", ![c].token = t]

-----------------------------------------------------------------------------
(* The world. *)
Tick ==
  /\ ticks < MaxTicks /\ \A c \in GhCallers : req[c].at # "send"
  /\ ticks' = ticks + 1
  /\ UNCHANGED <<issued, revoked, suspended, cachedTok, refusedTil, mintQueue, req>>

Revoke ==
  /\ \E t \in DOMAIN issued \ revoked : revoked' = revoked \cup {t}
  /\ UNCHANGED <<ticks, issued, suspended, cachedTok, refusedTil, mintQueue, req>>

SuspendApp ==
  /\ suspended' = ~suspended
  /\ UNCHANGED <<ticks, issued, revoked, cachedTok, refusedTil, mintQueue, req>>

(* cachePut of another installation pushes this one's token out. *)
EvictToken ==
  /\ cachedTok # 0 /\ cachedTok' = 0
  /\ UNCHANGED <<ticks, issued, revoked, suspended, refusedTil, mintQueue, req>>

-----------------------------------------------------------------------------
(* forceRefresh: drop what is cached and mint, whatever others have cached. *)
Forces(c) == req[c].forced

(* getToken up to the mutex. *)
GetToken(c) ==
  /\ req[c].at = "token"
  /\ IF Refused THEN req' = Becomes(c, "failed") /\ UNCHANGED <<cachedTok, mintQueue>>
     ELSE IF CacheLookup /\ ~Forces(c)
          THEN req' = WithToken(c, cachedTok) /\ UNCHANGED <<cachedTok, mintQueue>>
          ELSE /\ req' = Becomes(c, "queue") /\ mintQueue' = Append(mintQueue, c)
               /\ cachedTok' = IF Forces(c) THEN 0 ELSE cachedTok
  /\ UNCHANGED <<ticks, issued, revoked, suspended, refusedTil>>

Releases1(c) == mintQueue' = Tail(mintQueue)

(* Double-checked: a caller before us in the line may have minted. *)
Reread(c) == CacheLookup /\ ~Forces(c)

TakeMutex(c) ==
  /\ req[c].at = "queue" /\ mintQueue # <<>> /\ Head(mintQueue) = c
  /\ IF Reread(c) THEN req' = WithToken(c, cachedTok) /\ Releases1(c)
     ELSE req' = Becomes(c, "exchange") /\ UNCHANGED mintQueue
  /\ UNCHANGED <<ticks, issued, revoked, suspended, cachedTok, refusedTil>>

(* exchangeWithRetry, answered with a token: cachePut. *)
Mint(c) ==
  /\ req[c].at = "exchange" /\ ~suspended /\ Len(issued) < MaxMints
  /\ issued' = Append(issued, ticks) /\ cachedTok' = Len(issued) + 1
  /\ req' = WithToken(c, Len(issued) + 1) /\ Releases1(c)
  /\ UNCHANGED <<ticks, revoked, suspended, refusedTil>>

(* 403, 404, any other 4xx, a second 401, a malformed answer or key. *)
MintPermanent(c) ==
  /\ req[c].at = "exchange" /\ suspended
  /\ refusedTil' = ticks + NegativeFor /\ req' = Becomes(c, "failed") /\ Releases1(c)
  /\ UNCHANGED <<ticks, issued, revoked, suspended, cachedTok>>

(* 5xx or a network error on every attempt, or a 401 on the last of them.   *)
MintTransient(c) ==
  /\ req[c].at = "exchange"
  /\ req' = Becomes(c, "failed") /\ Releases1(c)
  /\ UNCHANGED <<ticks, issued, revoked, suspended, cachedTok, refusedTil>>

-----------------------------------------------------------------------------
BeginRequest(c) ==
  /\ req[c].at = "idle" /\ req' = Becomes(c, "token")
  /\ UNCHANGED <<ticks, issued, revoked, suspended, cachedTok, refusedTil, mintQueue>>

Sending(c) == req[c].at = "send" /\ req[c].no < MaxSends

Replied(c, r) ==
  /\ req' = [req EXCEPT ![c] = r]
  /\ UNCHANGED <<ticks, issued, revoked, suspended, cachedTok, refusedTil, mintQueue>>

(* 401: the first one mints a new token and uses up an attempt, the second  *)
(* gives up. GitHub may refuse a living token too.                          *)
Unauthorized(c) ==
  /\ Sending(c)
  /\ Replied(c, [req[c] EXCEPT !.at = IF req[c].forced THEN "failed" ELSE "token",
                                !.forced = TRUE, !.no = @ + 1, !.last = req[c].token])

(* The loop ends after a 401 on its last attempt. *)
LoopEnds(c) ==
  /\ req[c].at = "send" /\ req[c].no = MaxSends
  /\ Replied(c, [req[c] EXCEPT !.at = "failed"])

(* 5xx: GitHub may have done what was asked. Another attempt, or none left. *)
ServerError(c) ==
  /\ Sending(c)
  /\ \E done \in {0, 1} : Replied(c, [req[c] EXCEPT !.no = @ + 1, !.effects = @ + done, !.shaky = TRUE,
                                                    !.at = IF req[c].no + 1 < MaxSends THEN "send" ELSE "failed"])

(* 403, 404, 422, other 4xx, 429: nothing was done. *)
ClientError(c) ==
  /\ Sending(c) /\ Replied(c, [req[c] EXCEPT !.at = "failed", !.no = @ + 1])

Succeed(c) ==
  /\ Sending(c) /\ Alive(req[c].token)
  /\ Replied(c, [req[c] EXCEPT !.at = "done", !.no = @ + 1, !.effects = @ + 1])

(* A successful answer that says the window is used up is thrown away: the  *)
(* caller sees GitHubRateLimitExceeded.                                     *)
AtRateLimit(c) == "failed"

LastOfWindow(c) ==
  /\ Sending(c) /\ Alive(req[c].token)
  /\ Replied(c, [req[c] EXCEPT !.at = AtRateLimit(c), !.no = @ + 1, !.effects = @ + 1])

TransportNext ==
  \/ Tick \/ Revoke \/ SuspendApp \/ EvictToken
  \/ \E c \in GhCallers :
       \/ BeginRequest(c) \/ GetToken(c) \/ TakeMutex(c)
       \/ Mint(c) \/ MintPermanent(c) \/ MintTransient(c)
       \/ Unauthorized(c) \/ LoopEnds(c) \/ ServerError(c) \/ ClientError(c) \/ Succeed(c) \/ LastOfWindow(c)

-----------------------------------------------------------------------------
(* Mutex, caches and forced refreshes together: an exchange that was not    *)
(* forced has no usable token beside it in the cache; a caller that GitHub  *)
(* refused does not come back with the token it was refused with; and no    *)
(* token past its life is presented.                                        *)
TokensWellUsed ==
  \A c \in GhCallers :
    /\ req[c].at = "exchange" /\ ~req[c].forced => ~CacheLookup
    /\ req[c].at = "send" /\ req[c].last # 0 => req[c].token # req[c].last
    /\ req[c].at = "send" => ticks < issued[req[c].token] + TokenLife

(* A request takes effect twice only when GitHub answered it with a 5xx:    *)
(* neither the refresh of a token nor a rate limit repeats a write.         *)
RepeatedOnlyAfter5xx ==
  \A c \in GhCallers : req[c].effects > 1 => req[c].shaky

(* No token is misused and no write repeated by the transport itself.       *)
TransportSound == TokensWellUsed /\ RepeatedOnlyAfter5xx
=============================================================================

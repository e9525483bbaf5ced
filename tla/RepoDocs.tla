------------------------------ MODULE RepoDocs ------------------------------
(***************************************************************************)
(* The index of a repository's own documents, core.knowledge_chunks. Every *)
(* push to the default branch leaves an outbox row; the rows become        *)
(* refresh_semantic_docs jobs, of which one is active per repository and   *)
(* the others are dropped. An attempt clones into the repository's cache   *)
(* directory, reads the documents, embeds those whose hash changed and     *)
(* sweeps the rest. A reclaimed attempt may still be running.              *)
(***************************************************************************)
EXTENDS Naturals, Sequences

CONSTANTS
  DocPaths,    \* documents of the repository
  MaxPushes,   \* bound on the pushes
  Refreshers   \* attempts that may run at once

ASSUME RepoDocsAssumption == MaxPushes \in Nat \ {0}

VARIABLES
  trees,      \* the documents at each pushed head: 0 or the push that last changed it
  unsent,     \* pushes whose outbox row is not dispatched
  refresh,    \* the active job: head and the attempt that holds it
  cacheDir,   \* what the cache directory holds: a head, or 0 while it is wiped
  attempt,    \* the attempts
  index,      \* core.knowledge_chunks: the content indexed for each document
  behind      \* history: nothing has made the index the newest head's since something went wrong

docsVars == <<trees, unsent, refresh, cacheDir, attempt, index, behind>>

NoDocs    == [d \in DocPaths |-> 0]
NoRefresh == [head |-> 0, by |-> "nobody"]
OffDuty   == [at |-> "off", head |-> 0, listed |-> {}, seen |-> NoDocs, todo |-> {}, alone |-> TRUE]

RepoDocsInit ==
  /\ trees = <<>> /\ unsent = {} /\ refresh = NoRefresh /\ cacheDir = 0
  /\ attempt = [a \in Refreshers |-> OffDuty] /\ index = NoDocs /\ behind = FALSE

Newest == Len(trees)
DocsAt(h) == IF h = 0 THEN NoDocs ELSE trees[h]
Present(t) == {d \in DocPaths : t[d] # 0}

-----------------------------------------------------------------------------
(* A push to the default branch: maybeEmitRefreshSemanticDocs. *)
PushDocs ==
  /\ Newest < MaxPushes
  /\ \E t \in [DocPaths -> 0..Newest + 1] :
       /\ \A d \in DocPaths : t[d] \in {0, DocsAt(Newest)[d], Newest + 1}
       /\ trees' = Append(trees, t)
  /\ unsent' = unsent \cup {Newest + 1}
  /\ UNCHANGED <<refresh, cacheDir, attempt, index, behind>>

(* The dispatcher makes it a job unless the repository has one: the id has  *)
(* no head in it. Rows may be dispatched out of order.                      *)
DispatchRefresh(h) ==
  /\ h \in unsent /\ unsent' = unsent \ {h}
  /\ refresh' = IF refresh.head = 0 THEN [NoRefresh EXCEPT !.head = h] ELSE refresh
  /\ behind' = (behind \/ refresh.head # 0 \/ \E g \in h + 1..Newest : g \notin unsent)
  /\ UNCHANGED <<trees, cacheDir, attempt, index>>

(* An attempt claims the job; one before it may have lost its lease only. *)
ClaimRefresh(a) ==
  /\ refresh.head # 0 /\ attempt[a] = OffDuty /\ refresh.by # a
  /\ refresh' = [refresh EXCEPT !.by = a]
  /\ LET others == {b \in Refreshers \ {a} : attempt[b] # OffDuty}
         mine   == [OffDuty EXCEPT !.at = "wipe", !.head = refresh.head, !.alone = others = {}]
     IN  /\ attempt' = [b \in Refreshers |->
                          IF b = a THEN mine ELSE IF b \in others THEN [attempt[b] EXCEPT !.alone = FALSE] ELSE attempt[b]]
         /\ behind' = (behind \/ others # {})
  /\ UNCHANGED <<trees, unsent, cacheDir, index>>

(* performClone: the directory is the repository's, not the attempt's. *)
WipeCache(a) ==
  /\ attempt[a].at = "wipe" /\ cacheDir' = 0 /\ attempt' = [attempt EXCEPT ![a].at = "clone"]
  /\ UNCHANGED <<trees, unsent, refresh, index, behind>>

CloneHead(a) ==
  /\ attempt[a].at = "clone" /\ cacheDir' = attempt[a].head /\ attempt' = [attempt EXCEPT ![a].at = "discover"]
  /\ UNCHANGED <<trees, unsent, refresh, index, behind>>

(* discoverKnowledgeDocs lists the documents, then each is read; one that   *)
(* cannot be read is skipped.                                               *)
DiscoverDocs(a) ==
  /\ attempt[a].at = "discover"
  /\ attempt' = [attempt EXCEPT ![a].at = "read", ![a].listed = Present(DocsAt(cacheDir))]
  /\ UNCHANGED <<trees, unsent, refresh, cacheDir, index, behind>>

ReadDoc(a, d) ==
  /\ attempt[a].at = "read" /\ d \in attempt[a].listed
  /\ attempt' = [attempt EXCEPT ![a].listed = @ \ {d}, ![a].seen[d] = DocsAt(cacheDir)[d]]
  /\ UNCHANGED <<trees, unsent, refresh, cacheDir, index, behind>>

\* Mutant: a document that is indexed at all is skipped.
Unchanged_ByPath(a, d) == index[d] # 0

(* getExistingHashes: what is indexed with the same hash is skipped. *)
Unchanged(a, d) == index[d] = attempt[a].seen[d]

CompareHashes(a) ==
  /\ attempt[a].at = "read" /\ attempt[a].listed = {}
  /\ attempt' = [attempt EXCEPT ![a].at = "embed", ![a].todo = {d \in Present(attempt[a].seen) : ~Unchanged(a, d)}]
  /\ UNCHANGED <<trees, unsent, refresh, cacheDir, index, behind>>

(* A batch is embedded and upserted. *)
EmbedDoc(a, d) ==
  /\ attempt[a].at = "embed" /\ d \in attempt[a].todo
  /\ index' = [index EXCEPT ![d] = attempt[a].seen[d]]
  /\ attempt' = [attempt EXCEPT ![a].todo = @ \ {d}]
  /\ UNCHANGED <<trees, unsent, refresh, cacheDir, behind>>

(* The job is settled by the attempt that holds it. *)
Settled(a) == IF refresh.by = a THEN NoRefresh ELSE refresh

(* The embedder cannot be reached or limits the rate: the job ends, well,   *)
(* with a degraded result and no sweep.                                     *)
EmbedDegrades(a) ==
  /\ attempt[a].at = "embed" /\ attempt[a].todo # {}
  /\ refresh' = Settled(a) /\ attempt' = [attempt EXCEPT ![a] = OffDuty] /\ behind' = TRUE
  /\ UNCHANGED <<trees, unsent, cacheDir, index>>

(* deleteOrphanChunks keeps what was read, and does nothing when nothing    *)
(* was.                                                                     *)
Swept(a) ==
  LET kept == Present(attempt[a].seen)
  IN  IF kept = {} THEN index ELSE [d \in DocPaths |-> IF d \in kept THEN index[d] ELSE 0]

SweepOrphans(a) ==
  /\ attempt[a].at = "embed" /\ attempt[a].todo = {}
  /\ index' = Swept(a) /\ refresh' = Settled(a) /\ attempt' = [attempt EXCEPT ![a] = OffDuty]
  /\ behind' = (behind /\ ~(attempt[a].head = Newest /\ attempt[a].alone))
  /\ UNCHANGED <<trees, unsent, cacheDir>>

(* The attempt fails or dies. The job waits for another, or is dead. *)
RefreshFails(a) ==
  /\ attempt[a] # OffDuty /\ attempt' = [attempt EXCEPT ![a] = OffDuty]
  /\ \/ refresh.by # a /\ UNCHANGED <<refresh, behind>>
     \/ refresh.by = a /\ refresh' = [refresh EXCEPT !.by = "nobody"] /\ UNCHANGED behind
     \/ refresh.by = a /\ refresh' = NoRefresh /\ behind' = TRUE
  /\ UNCHANGED <<trees, unsent, cacheDir, index>>

RepoDocsNext ==
  \/ PushDocs \/ \E h \in unsent : DispatchRefresh(h)
  \/ \E a \in Refreshers :
       \/ ClaimRefresh(a) \/ WipeCache(a) \/ CloneHead(a) \/ DiscoverDocs(a) \/ CompareHashes(a)
       \/ EmbedDegrades(a) \/ SweepOrphans(a) \/ RefreshFails(a)
       \/ \E d \in DocPaths : ReadDoc(a, d) \/ EmbedDoc(a, d)

RepoDocsSpec == RepoDocsInit /\ [][RepoDocsNext]_docsVars

-----------------------------------------------------------------------------
(* When no push is waiting and no refresh running, the index holds exactly  *)
(* the documents of the newest head, unless a push was dropped because a    *)
(* refresh was active or dispatched out of order, a refresh degraded, died  *)
(* or overlapped another, or the head has no document at all. A refresh of  *)
(* the newest head that runs alone to its end repairs all of that.          *)
IndexFollowsHead ==
  unsent = {} /\ refresh = NoRefresh /\ (\A a \in Refreshers : attempt[a] = OffDuty)
    /\ ~behind /\ Present(DocsAt(Newest)) # {}
  => index = DocsAt(Newest)
=============================================================================

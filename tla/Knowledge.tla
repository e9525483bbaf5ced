----------------------------- MODULE Knowledge ------------------------------
(***************************************************************************)
(* The Confluence corpus of one space: core.confluence_chunks, the vectors *)
(* beside it and the approvals of pages tagged "default". A page is one    *)
(* chunk here, a row per version, because a chunk's identity is seeded     *)
(* with its page's version. Two jobs write the corpus, the six-hourly      *)
(* confluence_ingest and trigger_page_resync, and they may overlap; the    *)
(* wiki changes under both.                                                *)
(***************************************************************************)
EXTENDS Naturals, FiniteSets

CONSTANTS
  Pages,        \* the pages of the space
  MaxVersion,   \* bound on the versions of a page
  Cap,          \* max_chunks_per_space, of chunks tagged "default"
  MaxOutside,   \* bound on the changes of the wiki and of the approvals
  MaxSyncs      \* bound on the jobs started

ASSUME KnowledgeAssumption == {MaxVersion, Cap, MaxOutside, MaxSyncs} \subseteq Nat \ {0}

Versions == 1..MaxVersion

VARIABLES
  wiki,       \* Confluence: each page's version, what it holds, whether it is listed
  chunks,     \* the row of each page and version
  approved,   \* pages with an approval that is not revoked
  wanted,     \* pages whose resync is queued
  job,        \* the two jobs
  syncs,      \* jobs started
  gone,       \* history: pages that were soft-deleted once
  late,       \* history: pages whose last write was of an older version
  moves,      \* changes of the wiki and of the approvals
  calm        \* history: nothing outside changed, and no page failed, since the cycle's listing

corpusVars == <<wiki, chunks, approved, wanted, job, syncs, gone, late, calm, moves>>

Kinds == {"plain", "default", "injected"}

(* The wiki, as fetchSpacePages and fetchPageBody see it. *)
NewPage == [version |-> 1, kind |-> "plain", listed |-> TRUE]

(* UpsertChunkRow; vec is the row of core.chunk_embeddings beside it. *)
NoChunk == [there |-> FALSE, kind |-> "plain", deleted |-> FALSE, superseded |-> FALSE, vec |-> FALSE]

Jobs    == {"cycle", "resync"}
IdleJob == [at |-> "idle", page |-> "none", version |-> 0, kind |-> "plain", todo |-> {}, listing |-> {}, live |-> {}]

KnowledgeInit ==
  /\ wiki = [p \in Pages |-> NewPage] /\ chunks = [p \in Pages |-> [v \in Versions |-> NoChunk]]
  /\ approved \in SUBSET Pages /\ wanted = {} /\ job = [j \in Jobs |-> IdleJob] /\ syncs = 0
  /\ gone = {} /\ late = {} /\ calm = FALSE /\ moves = 0

-----------------------------------------------------------------------------
(* What a search may return of a page: the hygiene filters of the three     *)
(* queries, and the join that lets a default chunk through only while its   *)
(* page is approved.                                                        *)
Served(p) ==
  {v \in Versions : LET c == chunks[p][v]
                    IN  c.there /\ ~c.deleted /\ ~c.superseded /\ c.kind # "injected"
                        /\ (c.kind = "default" => p \in approved)}

(* listChunkRowsForLimits and countDefaultChunksInSpace: rows of older      *)
(* versions, and the page's own, are counted too.                           *)
DefaultRows ==
  {x \in Pages \X Versions : LET c == chunks[x[1]][x[2]] IN c.there /\ c.kind = "default" /\ ~c.deleted}

-----------------------------------------------------------------------------
(* The wiki and the administrators change the ground under the jobs. *)
Outside == moves < MaxOutside /\ moves' = moves + 1 /\ calm' = FALSE

Edit(p) ==
  /\ wiki[p].listed /\ wiki[p].version < MaxVersion
  /\ \E k \in Kinds : wiki' = [wiki EXCEPT ![p].version = @ + 1, ![p].kind = k]
  /\ Outside
  /\ UNCHANGED <<chunks, approved, wanted, job, syncs, gone, late>>

Unlist(p) ==
  /\ wiki' = [wiki EXCEPT ![p].listed = ~@] /\ Outside
  /\ UNCHANGED <<chunks, approved, wanted, job, syncs, gone, late>>

(* upsertApproval: under the page's advisory lock an older one is revoked. *)
Approve(p) ==
  /\ p \notin approved /\ approved' = approved \cup {p} /\ Outside
  /\ UNCHANGED <<wiki, chunks, wanted, job, syncs, gone, late>>

(* revokePageApproval; the resync is queued in a second transaction, which  *)
(* may fail or never run.                                                   *)
Revoke(p) ==
  /\ p \in approved /\ approved' = approved \ {p} /\ Outside
  /\ wanted' \in {wanted, wanted \cup {p}}
  /\ UNCHANGED <<wiki, chunks, job, syncs, gone, late>>

-----------------------------------------------------------------------------
(* confluence_ingest lists the space. *)
ListPages ==
  /\ job["cycle"].at = "idle" /\ syncs < MaxSyncs
  /\ LET listed == {p \in Pages : wiki[p].listed}
     IN  job' = [job EXCEPT !["cycle"] = [IdleJob EXCEPT !.at = "next", !.todo = listed, !.listing = listed]]
  /\ syncs' = syncs + 1 /\ calm' = TRUE
  /\ UNCHANGED <<wiki, chunks, approved, wanted, gone, late, moves>>

(* The page is noted as live before anything of it can fail. *)
Picked(p) == [job["cycle"] EXCEPT !.at = "fetch", !.page = p, !.todo = @ \ {p}, !.live = @ \cup {p}]

PickPage(p) ==
  /\ job["cycle"].at = "next" /\ p \in job["cycle"].todo
  /\ job' = [job EXCEPT !["cycle"] = Picked(p)]
  /\ UNCHANGED <<wiki, chunks, approved, wanted, syncs, gone, late, calm, moves>>

(* trigger_page_resync: the same steps for one page. *)
StartResync(p) ==
  /\ job["resync"].at = "idle" /\ p \in wanted /\ syncs < MaxSyncs
  /\ job' = [job EXCEPT !["resync"] = [IdleJob EXCEPT !.at = "fetch", !.page = p]]
  /\ wanted' = wanted \ {p} /\ syncs' = syncs + 1
  /\ UNCHANGED <<wiki, chunks, approved, gone, late, calm, moves>>

(* What a job does after a page: the cycle goes on, the resync ends. *)
NextPage(j) == IF j = "cycle" THEN [job[j] EXCEPT !.at = "next", !.page = "none", !.version = 0, !.kind = "plain"] ELSE IdleJob

(* fetchPageBody and sanitizePage. A page that is gone is an error. *)
FetchBody(j) ==
  /\ job[j].at = "fetch"
  /\ wiki[job[j].page].listed
  /\ job' = [job EXCEPT ![j].at = "embed", ![j].version = wiki[job[j].page].version, ![j].kind = wiki[job[j].page].kind]
  /\ UNCHANGED <<wiki, chunks, approved, wanted, syncs, gone, late, calm, moves>>

\* Mutant: a page that failed does not count as live.
PageFails_NotLive(j) ==
  /\ job[j].at \in {"fetch", "embed", "write"}
  /\ job' = [job EXCEPT ![j] = [NextPage(j) EXCEPT !.live = @ \ {job[j].page}]] /\ calm' = FALSE
  /\ UNCHANGED <<wiki, chunks, approved, wanted, syncs, gone, late, moves>>

(* A step of the page throws: the cycle counts the page as failed, the      *)
(* resync job fails.                                                        *)
PageFails(j) ==
  /\ job[j].at \in {"fetch", "embed", "write"}
  /\ job' = [job EXCEPT ![j] = NextPage(j)] /\ calm' = FALSE
  /\ UNCHANGED <<wiki, chunks, approved, wanted, syncs, gone, late, moves>>

(* chunkAndEmbed leaves the corpus alone. Then upsertChunks decides: a page *)
(* tagged "default" is refused above the cap or without an approval, and    *)
(* what the corpus already has of it stays as it is.                        *)
Accepts(j) ==
  job[j].kind = "default" => Cardinality(DefaultRows) + 1 <= Cap /\ job[j].page \in approved

DecideUpsert(j) ==
  /\ job[j].at = "embed"
  /\ job' = [job EXCEPT ![j] = IF Accepts(j) THEN [job[j] EXCEPT !.at = "write"] ELSE NextPage(j)]
  /\ UNCHANGED <<wiki, chunks, approved, wanted, syncs, gone, late, calm, moves>>

\* Mutant: no row is older, so none is superseded.
Older_Never(v, w) == FALSE

(* cc.version < ${version} *)
Older(v, w) == v < w

(* upsertChunks of the repository, one transaction: the row of this version *)
(* keeps its deleted and superseded marks; the older ones are superseded    *)
(* and lose their vectors.                                                  *)
Upserted(p, w, k) ==
  [v \in Versions |->
     LET c == IF v = w THEN [chunks[p][v] EXCEPT !.there = TRUE, !.kind = k, !.vec = TRUE] ELSE chunks[p][v]
     IN  IF Older(v, w) /\ c.there /\ ~c.superseded
         THEN [c EXCEPT !.vec = FALSE, !.superseded = ~c.deleted]
         ELSE c]

WriteChunks(j) ==
  /\ job[j].at = "write"
  /\ LET p == job[j].page  w == job[j].version
     IN  /\ chunks' = [chunks EXCEPT ![p] = Upserted(p, w, job[j].kind)]
         /\ late' = IF \E v \in Versions : v > w /\ chunks[p][v].there THEN late \cup {p} ELSE late \ {p}
  /\ job' = [job EXCEPT ![j] = NextPage(j)]
  /\ UNCHANGED <<wiki, approved, wanted, syncs, gone, calm, moves>>

(* reconcileDeletions, skipped when no page was live. *)
Dropped(p) == {v \in Versions : chunks[p][v].there /\ ~chunks[p][v].deleted}

Reconcile ==
  /\ job["cycle"].at = "next" /\ job["cycle"].todo = {}
  /\ LET dead == IF job["cycle"].live = {} THEN {} ELSE {p \in Pages \ job["cycle"].live : Dropped(p) # {}}
     IN  /\ chunks' = [p \in Pages |-> [v \in Versions |->
                         IF p \in dead /\ v \in Dropped(p) THEN [chunks[p][v] EXCEPT !.deleted = TRUE, !.vec = FALSE] ELSE chunks[p][v]]]
         /\ gone' = gone \cup dead
  /\ job' = [job EXCEPT !["cycle"] = IdleJob] /\ calm' = FALSE
  /\ UNCHANGED <<wiki, approved, wanted, syncs, late, moves>>

(* The job is aborted or its process dies between two pages. *)
JobDies(j) ==
  /\ job[j].at # "idle" /\ job' = [job EXCEPT ![j] = IdleJob] /\ calm' = FALSE
  /\ UNCHANGED <<wiki, chunks, approved, wanted, syncs, gone, late, moves>>

KnowledgeNext ==
  \/ ListPages \/ Reconcile
  \/ \E p \in Pages : Edit(p) \/ Unlist(p) \/ Approve(p) \/ Revoke(p) \/ PickPage(p) \/ StartResync(p)
  \/ \E j \in Jobs : FetchBody(j) \/ PageFails(j) \/ DecideUpsert(j) \/ WriteChunks(j) \/ JobDies(j)

KnowledgeSpec == KnowledgeInit /\ [][KnowledgeNext]_corpusVars

-----------------------------------------------------------------------------
(* A search never returns two versions of a page, whatever edits, resyncs   *)
(* and cycles did before, unless the last write of the page was by a job    *)
(* that had fetched an older version than the corpus holds.                 *)
OneVersionServed == \A p \in Pages \ late : Cardinality(Served(p)) <= 1

(* Only a page the cycle's listing did not have is soft-deleted: a page     *)
(* that was listed and could not be synced keeps its chunks.                *)
ListedSurvive ==
  [][\A p \in Pages : (\E v \in Versions : chunks'[p][v].deleted /\ ~chunks[p][v].deleted)
                        => p \notin job["cycle"].listing]_corpusVars

(* When a cycle ends and nothing changed or failed since its listing, every *)
(* listed page that is not refused is served at the wiki's version, unless  *)
(* it was once soft-deleted: nothing clears that mark.                      *)
CycleCatchesUp ==
  [][Reconcile /\ calm =>
       \A p \in Pages \ (gone \cup late) :
          wiki[p].listed /\ (wiki[p].kind = "plain" \/ (wiki[p].kind = "default" /\ p \in approved /\ chunks[p][wiki[p].version].there))
             => wiki[p].version \in Served(p)']_corpusVars

(* A cycle removes nothing that is listed and leaves nothing behind.        *)
CyclesKeepPages == ListedSurvive /\ CycleCatchesUp
=============================================================================

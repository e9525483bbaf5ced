---------------------------- MODULE SourceFiles -----------------------------
(***************************************************************************)
(* What a review reads before it asks the model anything: the list of      *)
(* changed files and their chunks, the linked issues, the dependency       *)
(* manifests, and the checkout they all come from.                         *)
(***************************************************************************)
EXTENDS Integers, Sequences, SequencesExt, FiniteSets, FiniteSetsExt, TLC

CONSTANTS
  Heads,          \* the pull request's files, one sequence for each push
  MaxFiles,       \* MAX_FILES_PER_ENRICHMENT
  LineWindow,     \* the hunk chunker's lineWindow
  MaxLines,       \* MAX_DIFF_LINES
  IssueLinks,     \* the link rows of each pull request, by number and source
  RepoOfPr,       \* pull requests of one installation, in several repositories
  MaxIssues,      \* MAX_ISSUES_PER_INVOCATION
  MaxFailures,    \* MAX_CONSECUTIVE_FAILURES
  IssueTtl,       \* CACHE_TTL_SECONDS
  MaxIssueNow,    \* bound on the clock
  Trees,          \* the repository's manifests at each head
  ChangedPaths,   \* the candidate paths a request may name
  MaxManifests,   \* MAX_MANIFESTS
  ManifestBytes,  \* MAX_PER_MANIFEST_BYTES
  AllBytes,       \* MAX_TOTAL_MANIFEST_BYTES
  ManifestCache,  \* MANIFEST_FETCH_CACHE_SIZE
  MaxBad,         \* bound on the failed calls of one manifest request
  MaxRecords      \* MAX_DEPENDENCIES_PER_MANIFEST

VARIABLES
  live,           \* the push GitHub shows
  reading,        \* the runs of the pull request: one for each push
  rows,           \* core.pr_files: path to status
  issueRows,      \* core.github_issues_cache
  asking,         \* the fetchLinkedIssues calls, one for each pull request
  edition,        \* how often each repository's issues were edited
  issueNow,
  kept,           \* ManifestFetchCache, least recently used first
  manifests,      \* what the last request returned
  cl              \* a clone

filesVars == <<live, reading, rows>>
issueVars == <<issueRows, asking, edition, issueNow>>
manifestVars == <<kept, manifests>>
sourceVars == <<filesVars, issueVars, manifestVars, cl>>

Runs == DOMAIN Heads
Prs == DOMAIN RepoOfPr
ByKey(s, Key(_)) == SortSeq(s, LAMBDA a, b : Key(a) < Key(b))
Elems(s) == {s[i] : i \in DOMAIN s}
-----------------------------------------------------------------------------
(* The list of changed files.                                              *)

(* "changed" is a modification; "unchanged" and what is unknown is skipped. *)
NormalizeStatus(raw) ==
  CASE raw \in {"added", "removed", "modified", "renamed", "copied"} -> raw
    [] raw = "changed" -> "modified"
    [] OTHER -> ""

(* Lock files and generated code last, workflows and infrastructure first. *)
ReviewValueTier(f) == IF f.infra THEN 0 ELSE IF f.lock THEN 2 ELSE 1

(* A stable sort, file order within a tier. *)
RankByReviewValue(fs) ==
  LET Tier(t) == SelectSeq(fs, LAMBDA f : ReviewValueTier(f) = t)
  IN  Tier(0) \o Tier(1) \o Tier(2)

(* Only the post-image of a hunk counts, and a pure deletion has none.      *)
ParseUnifiedDiffRanges(hunks) ==
  LET real == SelectSeq(hunks, LAMBDA h : h.count > 0)
      ranges == [i \in DOMAIN real |-> <<real[i].start, real[i].start + real[i].count - 1>>]
  IN  SortSeq(ranges, LAMBDA a, b : a[1] < b[1] \/ (a[1] = b[1] /\ a[2] < b[2]))

(* A patch that is missing or malformed leaves the file without ranges.     *)
RangesOf(f) == IF f.patch = "good" THEN ParseUnifiedDiffRanges(f.hunks) ELSE <<>>

DoEnrich(fs) ==
  LET cut == Len(fs) > MaxFiles
      taken == IF cut THEN SubSeq(RankByReviewValue(fs), 1, MaxFiles) ELSE fs
      files == SelectSeq(taken, LAMBDA f : NormalizeStatus(f.status) # "")
  IN  [cut |-> cut, files |-> files]

(* upsertFiles: the latest writer's status stands, no row is ever removed.  *)
UpsertFiles(old, fs) ==
  LET named == {f.path : f \in Elems(fs)}
      status(p) == NormalizeStatus((CHOOSE f \in Elems(fs) : f.path = p).status)
  IN  [p \in named \cup DOMAIN old |-> IF p \in named THEN status(p) ELSE old[p]]

(* getPullRequestFiles answers for the pull request as it is now, whatever  *)
(* push the run is about.                                                   *)
ListFiles(r) ==
  /\ reading[r].at = "idle"
  /\ r <= live
  /\ reading' = [reading EXCEPT ![r].at = "listed", ![r].asOf = live, ![r].listed = DoEnrich(Heads[live])]
  /\ UNCHANGED <<live, rows>>

EnrichPrFiles(r) ==
  /\ reading[r].at = "listed"
  /\ reading' = [reading EXCEPT ![r].at = "enriched"]
  /\ rows' = IF reading[r].listed.files = <<>> THEN rows ELSE UpsertFiles(rows, reading[r].listed.files)
  /\ UNCHANGED live

Push ==
  /\ live < Len(Heads)
  /\ live' = live + 1
  /\ UNCHANGED <<reading, rows>>
-----------------------------------------------------------------------------
(* Which files are read, and how they are cut into chunks.                  *)

CheckedOut(r, f) == {g \in Elems(Heads[r]) : g.path = f.path /\ g.status # "removed"}

(* The classifier's verdict; a file that cannot be read is a failure.       *)
Classify(g) == [generated |-> g.lock, binary |-> g.nul, empty |-> g.text = <<>>, language |-> g.lang]

DecideRoute(c) ==
  IF c.generated \/ c.binary \/ c.empty THEN {"skip"}
  ELSE {"review"} \cup (IF c.language = "other" THEN {} ELSE {"sandbox"})

ReviewFiles(r) ==
  SelectSeq(reading[r].listed.files,
            LAMBDA f : \E g \in CheckedOut(r, f) : "review" \in DecideRoute(Classify(g)))

(* [start, end] in the chunker's own lines. Pieces past the end are missing. *)
Chunk(f, a, b) == [path |-> f.path, start |-> a, end |-> b,
                   body |-> SubSeq(f.text, a, Min({b, Len(f.text)}))]

HunkChunks_NoEnd(f, ranges) ==
  [i \in DOMAIN ranges |-> Chunk(f, Max({1, ranges[i][1] - LineWindow}), ranges[i][1])]

(* Each hunk is widened, clamped to the file, and joined to its neighbours. *)
HunkChunks(f, ranges) ==
  LET total == Len(f.text)
      wide == [i \in DOMAIN ranges |-> <<Max({1, ranges[i][1] - LineWindow}), Min({total, ranges[i][2] + LineWindow})>>]
      sorted == SortSeq(wide, LAMBDA a, b : a[1] < b[1] \/ (a[1] = b[1] /\ a[2] < b[2]))
      Join(acc, w) ==
        IF acc # <<>> /\ w[1] <= acc[Len(acc)][2] + 1
        THEN Append(SubSeq(acc, 1, Len(acc) - 1), <<acc[Len(acc)][1], Max({acc[Len(acc)][2], w[2]})>>)
        ELSE Append(acc, w)
      joined == FoldLeft(Join, <<>>, sorted)
  IN  IF ranges = <<>> \/ total = 0 THEN <<>>
      ELSE [i \in DOMAIN joined |-> Chunk(f, joined[i][1], joined[i][2])]

Overlaps(a, b) == a[1] <= b[2] /\ a[2] >= b[1]

(* A single chunk from the first changed line to the last, or the whole file. *)
FallbackModule(f, ranges) ==
  LET a == IF ranges = <<>> THEN 1 ELSE Max({1, Min({ranges[i][1] : i \in DOMAIN ranges})})
      b == IF ranges = <<>> THEN Len(f.text) ELSE Min({Len(f.text), Max({ranges[i][2] : i \in DOMAIN ranges})})
  IN  <<Chunk(f, a, Max({a, b}))>>

(* The top-level declarations that a hunk touches.                          *)
ExtractCandidates(f) == [i \in DOMAIN f.decls |-> Chunk(f, f.decls[i][1], f.decls[i][2])]

DeclarationChunks(f, ranges) ==
  LET all == ExtractCandidates(f)
      Touched(c) == \E i \in DOMAIN ranges : Overlaps(<<c.start, c.end>>, ranges[i])
      hit == SelectSeq(all, Touched)
  IN  CASE f.text = <<>> -> <<>>
        [] f.text # <<>> /\ (~f.parses \/ all = <<>>) -> FallbackModule(f, ranges)
        [] f.text # <<>> /\ f.parses /\ all # <<>> /\ ranges = <<>> -> all
        [] OTHER -> IF hit = <<>> THEN FallbackModule(f, ranges) ELSE hit

(* The chunker of TypeScript and JavaScript makes the same choice. *)
TsJsChunks(f, ranges) == DeclarationChunks(f, ranges)

ChunkersFor(f, ranges) ==
  CASE f.lang = "python" -> DeclarationChunks(f, ranges)
    [] f.lang = "tsjs" -> TsJsChunks(f, ranges)
    [] OTHER -> HunkChunks(f, ranges)

(* What a chunker throws at: too many lines, or a chunk that ends before it *)
(* starts (the range lies past the end of the file).                        *)
ChunkThrows(f, ranges) ==
  \/ Len(f.text) > MaxLines
  \/ \E c \in Elems(ChunkersFor(f, ranges)) : c.end < c.start

(* PII and credentials by pattern, then what only the secret detector knows; *)
(* its list of sample keys is applied to what the first pass left.           *)
RedactPii(marks) == marks \ {"email", "key", "sample"}
RedactSecrets(marks) == marks \ {"key", "token"}
RedactChunk(c) ==
  [c EXCEPT !.body = [i \in DOMAIN c.body |-> [c.body[i] EXCEPT !.marks = RedactSecrets(RedactPii(@))]]]

(* A path outside the checkout stops the whole step; a file that is missing, *)
(* too large or binary is passed over.                                       *)
Readable(g) == ~g.large /\ ~g.nul

ChunkAndRedact(r) ==
  /\ reading[r].at = "enriched"
  /\ LET files == ReviewFiles(r)
         Own(f) == CHOOSE g \in CheckedOut(r, f) : TRUE
         Cut(f) == IF Readable(Own(f)) THEN ChunkersFor(Own(f), RangesOf(f)) ELSE <<>>
         bad == \E f \in Elems(files) : Readable(Own(f)) /\ ChunkThrows(Own(f), RangesOf(f))
         Add(acc, f) == acc \o [i \in DOMAIN Cut(f) |-> RedactChunk(Cut(f)[i])]
     IN  reading' = [reading EXCEPT ![r].at = IF bad THEN "failed" ELSE "chunked",
                                    ![r].chunks = IF bad THEN <<>> ELSE FoldLeft(Add, <<>>, files)]
  /\ UNCHANGED <<live, rows>>

FilesNext ==
  \/ Push
  \/ \E r \in Runs : ListFiles(r) \/ EnrichPrFiles(r) \/ ChunkAndRedact(r)

FilesInit ==
  /\ live = 1
  /\ reading = [r \in Runs |-> [at |-> "idle", asOf |-> 0, listed |-> [cut |-> FALSE, files |-> <<>>], chunks |-> <<>>]]
  /\ rows = <<>>

(* A line the chunkers of Python and TypeScript overlook: outside every     *)
(* declaration, in a file where another hunk touches one.                   *)
Overlooked(f, ranges, l) ==
  /\ f.lang # "other" /\ f.parses
  /\ \A i \in DOMAIN f.decls : l \notin f.decls[i][1]..f.decls[i][2]
  /\ \E i \in DOMAIN f.decls, j \in DOMAIN ranges : Overlaps(f.decls[i], ranges[j])

(* Line numbers drift where the text breaks at other than a newline.        *)
Straight(f) == \A i \in DOMAIN f.text : f.text[i].line = i

(* A run whose file list was read before the next push shows the model every *)
(* changed line of every file it reviews, but for the lines named above, and *)
(* shows no credential or address in the clear.                              *)
ChangedLinesShown ==
  \A r \in Runs :
    /\ reading[r].at = "chunked" /\ reading[r].asOf = r =>
         \A f \in Elems(ReviewFiles(r)) :
           Readable(f) /\ Straight(f) =>
             \A i \in DOMAIN RangesOf(f) : \A l \in RangesOf(f)[i][1]..RangesOf(f)[i][2] :
               \/ Overlooked(f, RangesOf(f), l)
               \/ \E c \in Elems(reading[r].chunks) : c.path = f.path /\ \E p \in Elems(c.body) : p.line = l
    /\ \A c \in Elems(reading[r].chunks) : \A p \in Elems(c.body) : p.marks = {}

(* Chunking fails only where a file is too long or the file list is of a     *)
(* later push than the checkout; what the cap drops is worth no more than    *)
(* what it keeps; every file once listed keeps its row.                      *)
FileListSound ==
  \A r \in Runs :
    /\ reading[r].at = "failed" =>
         \/ reading[r].asOf > r
         \/ \E f \in Elems(Heads[r]) : Len(f.text) > MaxLines
    /\ reading[r].at # "idle" /\ reading[r].listed.cut =>
         \A f \in Elems(Heads[reading[r].asOf]), g \in Elems(reading[r].listed.files) :
           f \notin Elems(reading[r].listed.files) /\ NormalizeStatus(f.status) # "" =>
             ReviewValueTier(g) <= ReviewValueTier(f)
    /\ reading[r].at \notin {"idle", "listed"} => \A f \in Elems(reading[r].listed.files) : f.path \in DOMAIN rows
-----------------------------------------------------------------------------
(* The issues a pull request names.                                         *)

Unresolved == [repo |-> "", edition |-> 0]
Numbers(pr) == LET all == {l.n : l \in Elems(IssueLinks[pr])}
               IN  ByKey(SetToSeq(all), LAMBDA n : n)
Asked(pr) == SubSeq(Numbers(pr), 1, Min({MaxIssues, Len(Numbers(pr))}))

Begin(pr) == [at |-> "idle", todo |-> <<>>, cached |-> <<>>, since |-> 0, fails |-> 0, open |-> FALSE,
              reply |-> "", content |-> Unresolved, titles |-> <<>>, calls |-> <<>>]

(* The links of the pull request, and what the cache holds under their      *)
(* numbers: the rows are the installation's, whatever the repository.        *)
GetMany(pr) == [n \in Elems(Asked(pr)) \cap DOMAIN issueRows |-> issueRows[n]]

FetchLinkedIssues(pr) ==
  /\ asking[pr].at = "idle"
  /\ asking' = [asking EXCEPT ![pr] = IF IssueLinks[pr] = <<>> THEN [@ EXCEPT !.at = "done"]
                                      ELSE [@ EXCEPT !.at = "loop", !.todo = Asked(pr), !.cached = GetMany(pr), !.since = issueNow]]
  /\ UNCHANGED <<issueRows, edition, issueNow>>

Resolve(t, a) == [a EXCEPT !.titles = (Head(a.todo) :> t) @@ a.titles, !.todo = Tail(a.todo), !.at = "loop"]

FreshRow(a) == Head(a.todo) \in DOMAIN a.cached /\ a.since - a.cached[Head(a.todo)].at < IssueTtl

(* A fresh row, or an open circuit, answers without a call.                 *)
ResolveHere(pr) ==
  LET a == asking[pr] IN
  /\ a.at = "loop" /\ a.todo # <<>>
  /\ FreshRow(a) \/ a.open
  /\ asking' = [asking EXCEPT ![pr] = Resolve(IF FreshRow(a) THEN a.cached[Head(a.todo)].title ELSE Unresolved, a)]
  /\ UNCHANGED <<issueRows, edition, issueNow>>

(* GitHub answers with the issue, "not modified" for its current tag, a     *)
(* rate limit, or anything else, an exception included.                     *)
SafeFetch(pr) ==
  LET a == asking[pr]
      current == [repo |-> RepoOfPr[pr], edition |-> edition[RepoOfPr[pr]]]
      tagged == Head(a.todo) \in DOMAIN a.cached /\ a.cached[Head(a.todo)].title = current IN
  /\ a.at = "loop" /\ a.todo # <<>>
  /\ ~FreshRow(a) /\ ~a.open
  /\ \E reply \in {IF tagged THEN "same" ELSE "issue", "limited", "other"} :
       asking' = [asking EXCEPT ![pr] = [a EXCEPT !.at = "got", !.reply = reply, !.content = current, !.calls = Append(@, reply)]]
  /\ UNCHANGED <<issueRows, edition, issueNow>>

(* ON CONFLICT (installation_id, github_issue_number) DO UPDATE.            *)
UpsertIssue(n, t) == (n :> [title |-> t, at |-> issueNow]) @@ issueRows

SettleIssue(pr) ==
  LET a == asking[pr]
      n == Head(a.todo)
      title == IF a.reply = "same" THEN a.cached[n].title ELSE a.content
      fails == a.fails + 1 IN
  /\ a.at = "got"
  /\ \/ /\ a.reply = "limited"
        /\ asking' = [asking EXCEPT ![pr] = Resolve(Unresolved, [a EXCEPT !.open = TRUE])]
        /\ UNCHANGED issueRows
     \/ /\ a.reply \in {"same", "issue"}
        /\ issueRows' = UpsertIssue(n, title)
        /\ asking' = [asking EXCEPT ![pr] = Resolve(title, [a EXCEPT !.fails = 0])]
     \/ /\ a.reply = "other"
        /\ asking' = [asking EXCEPT ![pr] = Resolve(Unresolved, [a EXCEPT !.fails = fails, !.open = fails >= MaxFailures])]
        /\ UNCHANGED issueRows
  /\ UNCHANGED <<edition, issueNow>>

(* One entry for each issue, with the strongest of its links, closing ones  *)
(* first.                                                                   *)
KindRank(k) == CASE k = "closes" -> 0 [] k = "fixes" -> 1 [] k = "resolves" -> 2 [] OTHER -> 3

AssembleLinkedIssues(links, titles) ==
  LET Best(n) == Min({KindRank(l.kind) : l \in {x \in Elems(links) : x.n = n}})
      all == SetToSeq({l.n : l \in Elems(links)})
      entries == [i \in DOMAIN all |->
                    [n |-> all[i], rank |-> Best(all[i]), title |-> IF all[i] \in DOMAIN titles THEN titles[all[i]] ELSE Unresolved]]
  IN  SortSeq(entries, LAMBDA x, y : x.rank < y.rank \/ (x.rank = y.rank /\ x.n < y.n))

AssembleIssues(pr) ==
  /\ asking[pr].at = "loop" /\ asking[pr].todo = <<>>
  /\ asking' = [asking EXCEPT ![pr].at = "done", ![pr].titles = AssembleLinkedIssues(IssueLinks[pr], @)]
  /\ UNCHANGED <<issueRows, edition, issueNow>>

EditIssues(repo) ==
  /\ edition[repo] = 0
  /\ edition' = [edition EXCEPT ![repo] = 1]
  /\ UNCHANGED <<issueRows, asking, issueNow>>

IssueTick ==
  /\ issueNow < MaxIssueNow
  /\ issueNow' = issueNow + 1
  /\ UNCHANGED <<issueRows, asking, edition>>

(* A later run of the same pull request. *)
AskAgain(pr) ==
  /\ asking[pr].at = "done"
  /\ asking' = [asking EXCEPT ![pr] = Begin(pr)]
  /\ UNCHANGED <<issueRows, edition, issueNow>>

IssuesNext ==
  \/ IssueTick
  \/ \E repo \in Elems(RepoOfPr) : EditIssues(repo)
  \/ \E pr \in Prs : FetchLinkedIssues(pr) \/ ResolveHere(pr) \/ SafeFetch(pr) \/ SettleIssue(pr)
                       \/ AssembleIssues(pr) \/ AskAgain(pr)

IssuesInit ==
  /\ issueRows = <<>>
  /\ asking = [pr \in Prs |-> Begin(pr)]
  /\ edition = [repo \in Elems(RepoOfPr) |-> 0]
  /\ issueNow = 0

(* A title is of the pull request's own repository, unless a pull request of *)
(* another repository names the same number; each issue is listed once; after*)
(* a rate limit, or enough failures in a row, GitHub is not called again.    *)
IssuesSound ==
  \A pr \in Prs :
    LET a == asking[pr]
        n == Len(a.calls)
        Shared(i) == \E other \in Prs : RepoOfPr[other] # RepoOfPr[pr] /\ i \in Elems(Numbers(other)) IN
    /\ a.at = "done" =>
         /\ Cardinality({t.n : t \in Elems(a.titles)}) = Len(a.titles)
         /\ {t.n : t \in Elems(a.titles)} = Elems(Numbers(pr))
         /\ \A t \in Elems(a.titles) : t.title # Unresolved /\ ~Shared(t.n) => t.title.repo = RepoOfPr[pr]
    /\ \A i \in 1..n : a.calls[i] = "limited" => i = n
    /\ n > MaxFailures => \E i \in (n - MaxFailures)..n - 1 : a.calls[i] \in {"same", "issue"}
-----------------------------------------------------------------------------
(* The dependency manifests near the changed files. A path is a sequence of *)
(* names; a manifest carries the rank of its name.                          *)

(* selectInPriorityOrder: manifests at the root first, lock files last,     *)
(* then by path.                                                            *)
PriorityKey(m) == (IF Len(m.path) = 1 THEN 0 ELSE 100) + (IF m.lock THEN 10 ELSE 0) + m.rank

MatchPath(head, p) == {m \in Trees[head] : m.path = p /\ ~m.vendored}

Named(head, paths) == UNION {MatchPath(head, paths[i]) : i \in DOMAIN paths}

(* Every directory above a changed file, nearest first, until one holds a   *)
(* manifest that is not yet a candidate.                                    *)
WalkParentDirs(p) == [d \in 1..Len(p) |-> SubSeq(p, 1, Len(p) - d)]
At(head, dir) == {m \in Trees[head] : SubSeq(m.path, 1, Len(m.path) - 1) = dir /\ m.exact /\ ~m.vendored}

NearestManifests(head, paths, seen) ==
  LET Near(p) ==
        LET dirs == WalkParentDirs(p)
            found == {d \in DOMAIN dirs : At(head, dirs[d]) \ seen # {}}
        IN  IF found = {} THEN {} ELSE At(head, dirs[Min(found)]) \ seen
  IN  UNION {Near(paths[i]) : i \in DOMAIN paths}

(* processContentBytes: binary, cut at the limit, not UTF-8, or whole.      *)
ProcessContentBytes(m) ==
  CASE m.content = "binary" \/ m.content = "badutf8" -> [status |-> "decode_failed", body |-> 0, cut |-> FALSE]
    [] m.content = "text" /\ m.size > ManifestBytes -> [status |-> "too_large", body |-> ManifestBytes, cut |-> TRUE]
    [] OTHER -> [status |-> "success", body |-> m.size, cut |-> FALSE]

Snapshot(head, m, out) == [head |-> head, of |-> m, status |-> out.status, body |-> out.body, cut |-> out.cut]
Failed(status) == [status |-> status, body |-> 0, cut |-> FALSE]

(* get moves a hit to the end; put drops the first entry over the capacity. *)
CacheHit(c, key) == {i \in DOMAIN c : c[i].key = key}
CachePut(c, e) ==
  LET rest == SelectSeq(c, LAMBDA x : x.key # e.key)
      all == Append(rest, e)
  IN  IF Len(all) > ManifestCache THEN Tail(all) ELSE all

(* fetchOne: the cache, then GitHub; only what was read is remembered.      *)
FetchOne(acc, m, head, reply) ==
  LET key == <<m.path, head>>
      hit == CacheHit(acc.cache, key)
      old == acc.cache[CHOOSE i \in hit : TRUE].snap
      new == CASE reply[m] = "failed" -> Snapshot(head, m, Failed("fetch_failed"))
               [] reply[m] = "missing" -> Snapshot(head, m, Failed("not_found"))
               [] OTHER -> Snapshot(head, m, ProcessContentBytes(m))
      snap == IF hit # {} THEN old ELSE new
      keep == hit # {} \/ new.status \in {"success", "too_large"}
  IN  [snap |-> snap, cache |-> IF keep THEN CachePut(acc.cache, [key |-> key, snap |-> snap]) ELSE acc.cache]

TakeManifest(acc, m, head, reply) ==
  LET one == FetchOne(acc, m, head, reply) IN
  IF acc.stop \/ Len(acc.snaps) >= MaxManifests THEN [acc EXCEPT !.stop = TRUE]
  ELSE IF reply[m] = "denied" /\ CacheHit(acc.cache, <<m.path, head>>) = {} THEN [acc EXCEPT !.stop = TRUE, !.denied = TRUE]
  ELSE IF acc.used + one.snap.body > AllBytes THEN [acc EXCEPT !.stop = TRUE, !.cache = one.cache]
  ELSE [acc EXCEPT !.snaps = Append(@, one.snap), !.used = @ + one.snap.body, !.cache = one.cache]

(* The tree may be out of reach or cut short: then only the named ones. An   *)
(* installation that is no longer authorised ends the step with nothing.     *)
DiscoverNearest(head, paths, tree) ==
  IF paths = <<>> \/ tree # "whole" THEN {} ELSE NearestManifests(head, paths, Named(head, paths))

Ordered(head, paths, tree) ==
  ByKey(SetToSeq(Named(head, paths) \cup DiscoverNearest(head, paths, tree)), PriorityKey)

FetchManifestSnapshots ==
  \E head \in DOMAIN Trees, paths \in ChangedPaths, tree \in {"whole", "unusable"} :
    LET order == Ordered(head, paths, tree)
        cands == Elems(order) IN
    \E bad \in {b \in SUBSET cands : Cardinality(b) <= MaxBad}, how \in {"failed", "missing", "denied"} :
      /\ bad = {} => how = "failed"
      /\ LET reply == [m \in cands |-> IF m \in bad THEN how ELSE "found"]
             done == FoldLeft(LAMBDA acc, m : TakeManifest(acc, m, head, reply),
                              [snaps |-> <<>>, used |-> 0, cache |-> kept, stop |-> FALSE, denied |-> FALSE], order)
         IN  /\ kept' = done.cache
             /\ manifests' = [head |-> head, paths |-> paths, tree |-> tree, stop |-> done.stop,
                              snaps |-> IF done.denied THEN <<>> ELSE done.snaps]

(* What each parser reads of a body: a JSON or TOML document that was cut is *)
(* no document, a line format gives what lines there are, and a Python list *)
(* with an entry that is not a string throws.                               *)
Entries(s) == IF s.cut THEN SubSeq(s.of.entries, 1, Min({s.body, Len(s.of.entries)})) ELSE s.of.entries
CargoEntries(s) == IF s.cut THEN <<>> ELSE s.of.entries
NodeEntries(s) == IF s.cut THEN <<>> ELSE s.of.entries
ComposerEntries(s) == IF s.cut THEN <<>> ELSE SelectSeq(s.of.entries, LAMBDA e : e # "php")
GoEntries(s) == Entries(s)
PythonEntries(s) == IF s.cut THEN <<>> ELSE s.of.entries

Dispatch(s) ==
  CASE s.status \notin {"success", "too_large"} -> <<>>
    [] s.of.format = "cargo" -> CargoEntries(s)
    [] s.of.format = "node" -> NodeEntries(s)
    [] s.of.format = "composer" -> ComposerEntries(s)
    [] s.of.format = "go" -> GoEntries(s)
    [] OTHER -> PythonEntries(s)

NormalizeName(e) == e # "bad"

ParseOne(s, slow) ==
  LET entries == Dispatch(s)
      records == SelectSeq(entries, NormalizeName)
      state == CASE s.of.format = "none" -> "unsupported_format"
                 [] s.of.format = "python" /\ "odd" \in Elems(entries) -> "failed"
                 [] OTHER -> IF records = <<>> /\ s.body > 0 THEN "failed"
                             ELSE IF Len(records) > MaxRecords THEN "truncated"
                             ELSE IF slow \/ Len(records) < Len(entries) THEN "partial" ELSE "parsed"
  IN  s @@
      [state |-> state, records |-> IF state \in {"parsed", "partial", "truncated"}
                                    THEN SubSeq(records, 1, Min({MaxRecords, Len(records)})) ELSE <<>>]

ParseManifests ==
  /\ manifests.snaps # <<>>
  /\ "state" \notin DOMAIN manifests.snaps[1]
  /\ \E slow \in BOOLEAN : manifests' = [manifests EXCEPT !.snaps = [i \in DOMAIN @ |-> ParseOne(@[i], slow)]]
  /\ UNCHANGED kept

ManifestsNext == FetchManifestSnapshots \/ ParseManifests

ManifestsInit ==
  /\ kept = <<>>
  /\ manifests = [head |-> 0, paths |-> <<>>, tree |-> "unusable", stop |-> FALSE, snaps |-> <<>>]

(* What is shown was read at the run's own commit, however long the process  *)
(* remembers it; the limits hold; the most important come first; every       *)
(* changed file has the manifests nearest to it; and a manifest is called    *)
(* parsed only with every dependency of the body that was read.              *)
ManifestsSound ==
  LET m == manifests
      got == {s.of : s \in Elems(m.snaps)} IN
  /\ Len(m.snaps) <= MaxManifests
  /\ FoldLeft(LAMBDA n, s : n + s.body, 0, m.snaps) <= AllBytes
  /\ \A s \in Elems(m.snaps) : s.head = m.head /\ s.of \in Trees[m.head]
  /\ \A i \in DOMAIN m.snaps : m.snaps[i].of = Ordered(m.head, m.paths, m.tree)[i]
  /\ m.tree = "whole" /\ ~m.stop =>
       \A i \in DOMAIN m.paths :
         LET dirs == WalkParentDirs(m.paths[i])
             some == {d \in DOMAIN dirs : At(m.head, dirs[d]) # {}}
         IN  some # {} => At(m.head, dirs[Min(some)]) \subseteq got
  /\ \A s \in Elems(m.snaps) :
       "state" \in DOMAIN s /\ s.state = "parsed" => s.cut \/ Len(s.records) = Len(Dispatch(s))
-----------------------------------------------------------------------------
(* GitSubprocessCloner: three git commands with a helper script on disk that *)
(* prints the token.                                                         *)

CloneInit == cl = [at |-> "idle", step |-> 0, child |-> "none", script |-> FALSE, aborted |-> FALSE,
                   result |-> "", spoilt |-> FALSE, late |-> FALSE]

(* The lease was lost: the signal fires, whatever the clone is doing.       *)
Abort ==
  /\ cl.at # "ended" /\ ~cl.aborted
  /\ cl' = [cl EXCEPT !.aborted = TRUE]

(* Invalid input, an abort, or no token: nothing was started.               *)
CloneStart ==
  /\ cl.at = "idle"
  /\ \/ cl' = [cl EXCEPT !.at = "ended", !.result = "refused"]
     \/ ~cl.aborted /\ cl' = [cl EXCEPT !.at = "script"]

(* mkdir, write, chmod: before the try block, so a failure leaves what there is. *)
WriteAskpassScript ==
  /\ cl.at = "script"
  /\ \/ cl' = [cl EXCEPT !.at = "gate", !.script = TRUE]
     \/ cl' = [cl EXCEPT !.at = "ended", !.result = "failed"]
     \/ cl' = [cl EXCEPT !.at = "ended", !.result = "failed", !.script = TRUE, !.spoilt = TRUE]

(* Before each of clone, fetch and checkout. *)
Gate ==
  /\ cl.at = "gate"
  /\ cl' = IF cl.aborted THEN [cl EXCEPT !.at = "finally", !.result = "aborted"]
           ELSE [cl EXCEPT !.at = "running", !.child = "alive", !.step = @ + 1, !.late = @ \/ cl.aborted]

RunGit ==
  /\ cl.at = "running"
  /\ \/ cl' = [cl EXCEPT !.child = "none", !.at = IF cl.step = 3 THEN "finally" ELSE "gate",
                         !.result = IF cl.step = 3 THEN "cloned" ELSE ""]
     \/ cl' = [cl EXCEPT !.child = "none", !.at = "finally", !.result = "failed"]

(* The timeout or the abort wins: SIGTERM, five seconds, SIGKILL, five more. *)
Interrupt ==
  /\ cl.at = "running"
  /\ \/ cl' = [cl EXCEPT !.at = "term", !.result = "timeout"]
     \/ cl.aborted /\ cl' = [cl EXCEPT !.at = "term", !.result = "aborted"]

Teardown ==
  /\ cl.at \in {"term", "kill"}
  /\ \/ cl' = [cl EXCEPT !.at = "finally", !.child = "none"]
     \/ cl' = [cl EXCEPT !.at = IF cl.at = "term" THEN "kill" ELSE "finally"]

(* The removal of the script may fail, and the failure is swallowed.        *)
RemoveScript ==
  /\ cl.at = "finally"
  /\ \/ cl' = [cl EXCEPT !.at = "ended", !.script = FALSE]
     \/ cl' = [cl EXCEPT !.at = "ended", !.spoilt = TRUE]

CloneNext == Abort \/ CloneStart \/ WriteAskpassScript \/ Gate \/ RunGit \/ Interrupt \/ Teardown \/ RemoveScript

(* When a clone has ended the script with the token is gone, unless writing  *)
(* or removing it failed; no git command is started after the signal; and a  *)
(* clone that succeeded has no git command left.                             *)
CloneTidy ==
  /\ cl.at = "ended" => (cl.script => cl.spoilt)
  /\ ~cl.late
  /\ cl.at = "ended" /\ cl.result = "cloned" => cl.step = 3 /\ cl.child = "none"
  /\ cl.at = "ended" /\ cl.child # "none" => cl.result \in {"timeout", "aborted"}

(* A review reads what its commit holds: see each part.                      *)
SourcesSound == ChangedLinesShown /\ FileListSound /\ IssuesSound /\ ManifestsSound /\ CloneTidy
=============================================================================

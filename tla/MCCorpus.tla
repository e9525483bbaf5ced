------------------------------ MODULE MCCorpus ------------------------------
(***************************************************************************)
(* The stored knowledge and the model that embeds it. The parts share no   *)
(* state, so a behaviour runs one of them: `part` says which.              *)
(***************************************************************************)
EXTENDS Knowledge, RepoDocs, EmbedderConfig, Generations, Retrieval, Prompts, SourceFiles

VARIABLE part

storeVars == <<corpusVars, docsVars, configVars, genVars>>
promptVars == <<guideVars, fixVars>>
allVars == <<part, storeVars, askVars, cacheVars, promptVars, sourceVars>>

CorpusInit ==
  /\ part \in {"knowledge", "docs", "config", "generations", "retrieval", "cache", "prompts", "fix",
               "files", "issues", "manifests", "clone"}
  /\ KnowledgeInit /\ RepoDocsInit /\ EmbedderConfigInit /\ GenerationsInit /\ RetrievalInit /\ CacheInit
  /\ GuideInit /\ FixInit
  /\ FilesInit /\ IssuesInit /\ ManifestsInit /\ CloneInit
  /\ part # "knowledge" => approved = {}

StoreNext ==
  \/ part = "knowledge" /\ KnowledgeNext /\ UNCHANGED <<docsVars, configVars, genVars>>
  \/ part = "docs" /\ RepoDocsNext /\ UNCHANGED <<corpusVars, configVars, genVars>>
  \/ part = "config" /\ EmbedderConfigNext /\ UNCHANGED <<corpusVars, docsVars, genVars>>
  \/ part = "generations" /\ GenerationsNext /\ UNCHANGED <<corpusVars, docsVars, configVars>>

SourcesNext ==
  \/ part = "files" /\ FilesNext /\ UNCHANGED <<issueVars, manifestVars, cl>>
  \/ part = "issues" /\ IssuesNext /\ UNCHANGED <<filesVars, manifestVars, cl>>
  \/ part = "manifests" /\ ManifestsNext /\ UNCHANGED <<filesVars, issueVars, cl>>
  \/ part = "clone" /\ CloneNext /\ UNCHANGED <<filesVars, issueVars, manifestVars>>

CorpusNext ==
  /\ UNCHANGED part
  /\ \/ StoreNext /\ UNCHANGED <<askVars, cacheVars, promptVars, sourceVars>>
     \/ part = "retrieval" /\ RetrievalNext /\ UNCHANGED <<storeVars, cacheVars, promptVars, sourceVars>>
     \/ part = "cache" /\ CacheNext /\ UNCHANGED <<storeVars, askVars, promptVars, sourceVars>>
     \/ part = "prompts" /\ GuideNext /\ UNCHANGED <<storeVars, askVars, cacheVars, fixVars, sourceVars>>
     \/ part = "fix" /\ FixNext /\ UNCHANGED <<storeVars, askVars, cacheVars, guideVars, sourceVars>>
     \/ SourcesNext /\ UNCHANGED <<storeVars, askVars, cacheVars, promptVars>>

CorpusSpec == CorpusInit /\ [][CorpusNext]_allVars

(* Guidelines: at the root a style rule, in `a` two that matter and a         *)
(* repetition; the same with a marker that makes one a prohibition; more     *)
(* rules than are taken, behind a document that cannot be read; and none     *)
(* wanted.                                                                   *)
Body(t, c, i, n, l) ==
  [text |-> t, cat |-> c, intent |-> i, marks |-> [cat |-> "", intent |-> ""], size |-> n, item |-> l]
Doc(d, s) == [dir |-> d, named |-> "default", vendored |-> FALSE, state |-> "good", sections |-> s]
RootDoc(i) == Doc(<<>>, <<<<[Body(1, "style", "recommend", 2, FALSE) EXCEPT !.marks.intent = i]>>>>)
DirDoc == Doc(<<"a">>, <<<<Body(9, "style", "recommend", 0, FALSE), Body(2, "security", "require", 2, TRUE)>>,
                         <<Body(3, "testing", "require", 1, FALSE), Body(1, "style", "recommend", 2, FALSE)>>>>)
LongDoc == Doc(<<"b">>, <<<<Body(4, "testing", "forbid", 1, FALSE), Body(5, "testing", "require", 0, FALSE)>>>>)
Checkout(c, d, p) == [config |-> c, docs |-> d, paths |-> p, manifests |-> <<2, 2, 1>>]
Switch(on, fs) == [usable |-> TRUE, value |->
  [knowledge |-> on, filters |-> fs, custom |-> fs # <<>>, advice |-> <<[hits |-> {<<"a", "x">>}, size |-> 2]>>]]
Filter(o, h) == [out |-> o, hits |-> h]
MCCheckouts ==
  LET inA == <<"a", "x">>
      top == <<"y">>
      inB == <<"b", "z">> IN
  {Checkout([usable |-> FALSE], <<RootDoc(""), DirDoc, Doc(<<"c">>, <<>>), Doc(<<"d">>, <<>>)>>, <<inA, top, inA>>),
   Checkout(Switch(TRUE, <<Filter(TRUE, {inA, top}), Filter(FALSE, {top})>>), <<RootDoc("forbid"), [RootDoc("forbid") EXCEPT !.vendored = TRUE], [DirDoc EXCEPT !.named = "custom"]>>, <<inA, top>>),
   Checkout(Switch(TRUE, <<>>), <<[RootDoc("forbid") EXCEPT !.state = "oversize"], DirDoc, LongDoc, RootDoc("require")>>, <<inB, inA, top>>),
   Checkout(Switch(TRUE, <<>>), <<RootDoc(""), DirDoc, LongDoc>>, <<inB>>),
   Checkout(Switch(FALSE, <<>>), <<DirDoc>>, <<inA>>)}
Piece(i, n) == [id |-> i, size |-> n]
MCRetrieved == {<<>>, <<Piece(1, 1), Piece(2, 3), Piece(3, 0)>>}
MCToolRows == <<[id |-> 1, file |-> <<"a", "x">>], [id |-> 2, file |-> <<"y">>]>>

(* A pull request pushed twice: an infrastructure file, a Python file with a *)
(* changed function and a changed line outside it, notes that lose most of   *)
(* their lines, a text with a form feed, a lock file, an image, a deletion.  *)
Lines(n, k) == [i \in 1..n |-> [line |-> i, marks |-> IF i = k THEN {"email", "key", "token", "sample"} ELSE {}]]
File(p, s, l, t) == [path |-> p, status |-> s, infra |-> FALSE, lock |-> FALSE, lang |-> l, patch |-> "good", nul |-> FALSE,
                     large |-> FALSE, hunks |-> <<[start |-> 2, count |-> 1]>>, text |-> t, parses |-> TRUE, decls |-> <<>>]
Code == [File("code", "changed", "python", Lines(6, 4)) EXCEPT !.decls = <<<<4, 5>>>>,
           !.hunks = <<[start |-> 5, count |-> 1], [start |-> 1, count |-> 1], [start |-> 3, count |-> 0]>>]
Note(n, a, b) == [File("note", "modified", "other", Lines(n, 2)) EXCEPT
           !.hunks = <<[start |-> a, count |-> 2], [start |-> b, count |-> 1]>>]
MCHeads ==
  <<<<File("old", "removed", "other", <<>>), [File("lock", "added", "other", Lines(2, 0)) EXCEPT !.lock = TRUE], Code,
      Note(5, 1, 5), [File("infra", "renamed", "tsjs", Lines(3, 0)) EXCEPT !.infra = TRUE, !.parses = FALSE],
      [File("feed", "added", "python", <<[line |-> 1, marks |-> {}], [line |-> 1, marks |-> {}], [line |-> 2, marks |-> {}]>>) EXCEPT !.hunks = <<[start |-> 1, count |-> 2]>>]>>,
    <<Note(9, 4, 8), [Code EXCEPT !.patch = "none"], [File("image", "added", "other", Lines(1, 0)) EXCEPT !.nul = TRUE],
      [File("infra", "modified", "tsjs", Lines(3, 0)) EXCEPT !.patch = "malformed", !.decls = <<<<1, 3>>>>],
      File("same", "unchanged", "other", Lines(1, 0)), [File("big", "added", "other", Lines(2, 0)) EXCEPT !.large = TRUE]>>>>

(* Two repositories whose pull requests both name issue 1. *)
Link(n, k) == [n |-> n, kind |-> k]
MCIssueLinks == [i \in {1, 2} |-> IF i = 1 THEN <<Link(1, "mentioned"), Link(1, "fixes"), Link(2, "closes"), Link(3, "fixes")>>
                                  ELSE <<Link(1, "resolves")>>]
MCRepoOfPr == <<"left", "right">>

(* Manifests at the root and in two directories, one beside a vendored copy. *)
Manifest(p, k, f, n, e) == [path |-> p, rank |-> k, lock |-> FALSE, vendored |-> FALSE, exact |-> TRUE, content |-> "text",
                            size |-> n, format |-> f, entries |-> e]
MCTrees ==
  <<{Manifest(<<"node">>, 1, "node", 1, <<"a", "bad">>), [Manifest(<<"sum">>, 2, "go", 4, <<"a", "b", "c", "d">>) EXCEPT !.lock = TRUE],
     Manifest(<<"x", "py">>, 3, "python", 1, <<"odd">>), Manifest(<<"x", "y", "composer">>, 4, "composer", 1, <<"php", "a">>),
     [Manifest(<<"x", "lib">>, 5, "none", 1, <<>>) EXCEPT !.exact = FALSE]},
    {Manifest(<<"node">>, 1, "node", 3, <<"a">>), [Manifest(<<"x", "v">>, 3, "node", 1, <<"a">>) EXCEPT !.vendored = TRUE],
     [Manifest(<<"x", "y", "img">>, 4, "cargo", 1, <<"a">>) EXCEPT !.content = "binary"]}>>
MCChangedPaths == {<<>>, <<<<"x", "y", "code">>, <<"node">>>>, <<<<"x", "y", "composer">>, <<"x", "lib">>>>}

(* Findings whose rendered size is not what was guessed. *)
Fix(v, f, g, n) == [sev |-> v, file |-> f, guess |-> g, size |-> n]
MCFixInputs == {<<>>} \cup {<<Fix(a, 1, 2, n), Fix(b, 2, 1, n), Fix(c, 1, 1, 1), Fix(0, 3, 1, 6)>> : a, b, c \in 0..2, n \in 1..2}

(* A repository with an ADR and a note; a wiki whose first policy nearly     *)
(* repeats the ADR, whose second is too long for the budget, and a page that *)
(* is too short to compare and carries a label the platform does not expose. *)
Text(i, s, w, l, a, n, d) == [id |-> i, source |-> s, words |-> w, labels |-> l, adr |-> a, size |-> n, age |-> d]
(* A source file, a generated one in another language, a deployment chart. *)
MCPrFiles == {[lang |-> "lang", infra |-> "", kind |-> "test"], [lang |-> "other", infra |-> "", kind |-> "generated"],
              [lang |-> "", infra |-> "infra", kind |-> "source"]}
MCRepoTexts == {Text(1, "repo", {1, 2, 3}, {}, TRUE, 1, 0), Text(2, "repo", {4, 5}, {}, FALSE, 1, 0)}
MCWikiTexts == {Text(3, "wiki", {1, 2}, {"security", "default"}, FALSE, 1, 2),
                Text(4, "wiki", {6}, {"security", "lang"}, FALSE, 3, 1),
                Text(5, "wiki", {}, {"default", "org"}, FALSE, 1, 3)}
=============================================================================

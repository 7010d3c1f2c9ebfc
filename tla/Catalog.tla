------------------------------- MODULE Catalog -------------------------------
(***************************************************************************)
(* Publishing measured runs to the model catalog: how a request's runs       *)
(* become variant files and the model's metadata                            *)
(* (control/catalog_export/__init__.py, portability.py), what it reads of    *)
(* the catalog's index first (catalog_index.py), and the writes it makes on  *)
(* the catalog server (publish.py, api/catalog_export.py).                   *)
(*                                                                          *)
(* Every HTTP request to the catalog server is a step of its own, because    *)
(* other publishers, merged pull requests and the site's index build run     *)
(* between them.  The server itself, git and the site are not in this        *)
(* repository: they are modelled from how publish.py and                     *)
(* tests/test_platform_settings.py use them.  There is one model in the      *)
(* catalog.  A document keeps what the export compares: the deployment       *)
(* (image, standing for image, weights, cards and nodes), the serving flags  *)
(* and env, and the words around them.                                      *)
(***************************************************************************)
EXTENDS Naturals, FiniteSets, FiniteSetsExt, Sequences, SequencesExt, TLC

CONSTANTS
  Requests,   \* requests to the API, each made at most once
  Bodies,     \* what a request may ask: see BodyOK
  Images,     \* deployments
  Flags,      \* serving flags of a recipe or config
  Situations, \* the branch and the env category at first: [branch, category] records
  TwinMax,    \* TWIN_MAX_DIFFERENCES, in the leaves this model tells apart
  MaxEdits,   \* bound on edits of the recipe and the env categories
  None        \* nothing

VARIABLES
  srv,        \* the catalog server's branch
  index,      \* the branch as the site's index-v2.json last published it
  req,        \* the requests
  pulls,      \* archives someone unpacked into a pull request, not merged yet
  edited,     \* the campaign's recipe was edited after its runs were measured
  category,   \* the row of CatalogEnvCategory for the one env var, or None
  edits,      \* edits left
  alone       \* history: nothing but this request wrote since it read the catalog

vars == <<srv, index, req, pulls, edited, category, edits, alone>>

Roles == {"baseline", "optimized", ""}

\* One run to publish (CatalogVariantIn, VariantSource): recipe says it launched
\* a recipe, measured that it has a result, id is the id the caller chose or <<>>.
Sources == [role : Roles, image : Images, flag : Flags, recipe : BOOLEAN, measured : BOOLEAN,
            id : Seq(STRING)]

BodyOK(b) == /\ DOMAIN b = {"kind", "sources", "hf", "use", "report", "default"}
             /\ b.kind \in {"preview", "archive", "dry_run", "publish"}
             /\ b.sources \in Seq(Sources)
             /\ b.hf \in BOOLEAN /\ b.use \in BOOLEAN
             /\ b.report \in {"unnamed", "right", "wrong"}

\* A variant file.
Docs == [image : Images, flag : Flags, env : BOOLEAN, words : Roles \union {"gain"}, version : Nat]

ASSUME BodiesAssumption == \A b \in Bodies : BodyOK(b)
ASSUME BoundsAssumption == TwinMax \in Nat /\ MaxEdits \in Nat
ASSUME NoneAssumption == None \notin Docs

\* metadata.yaml: the default variant (<<>> for none) and the tuning results
\* recorded, each naming the versions it compares.
NoMetadata == [default |-> <<>>, tuning |-> {}]

\* A branch: has the model or not; its variants by id (what each serves, its
\* words and its minor version); its metadata.
NoModel == [model |-> FALSE, variants |-> <<>>, meta |-> NoMetadata]
BranchOK(x) == /\ DOMAIN x = {"model", "variants", "meta"}
               /\ IsFiniteSet(DOMAIN x.variants) /\ DOMAIN x.variants \subseteq Seq(STRING)
               /\ x.variants \in [DOMAIN x.variants -> Docs]
               /\ ~x.model => DOMAIN x.variants = {}

ASSUME SituationsAssumption == \A s \in Situations : BranchOK(s.branch)

\* Of a set of positions, the n-th.
InOrder(S) ==
  [n \in 1..Cardinality(S) |-> CHOOSE i \in S : Cardinality({j \in S : j <= i}) = n]

-----------------------------------------------------------------------------
(* The export: runs to files. *)

\* ENV_ACTIONS[classify_env(...)] = "kept" for the one env var, whose own name
\* says nothing ("unknown"): a category someone set decides.
EnvKept == category \in {None, "recipe"}

\* _attach_comparison: an optimized variant exported beside a baseline carries
\* its gain over it.
compared(s, sources) == /\ s.role = "optimized"
                        /\ \E i \in DOMAIN sources : sources[i].role = "baseline"

\* _describe: the words of a variant name its role and the measured gain.
describe(s, sources) == IF compared(s, sources) THEN "gain" ELSE s.role

\* A recipe is published as it is.
variant_from_recipe(s, sources) ==
  [image |-> s.image, flag |-> s.flag, env |-> TRUE, words |-> describe(s, sources), version |-> 0]

\* A deprecated driver's config is converted and keeps the env of the recipe.
variant_of(s, sources) ==
  IF s.recipe THEN variant_from_recipe(s, sources)
  ELSE [image |-> s.image, flag |-> s.flag, env |-> EnvKept, words |-> describe(s, sources),
        version |-> 0]

variant_id(s) == IF s.id # <<>> THEN s.id
                 ELSE IF s.role = "" THEN <<"shape">> ELSE <<"shape", s.role>>

\* An id is the sequence of its dash-separated parts; a number is a part too.
Digit(n) == ToString(n)

\* build_catalog_entry's `seen`: the n-th of one id is numbered.
NumberedIds(sources) ==
  [i \in DOMAIN sources |->
     LET id == variant_id(sources[i])
         n  == Cardinality({j \in 1..i : variant_id(sources[j]) = id})
     IN IF n > 1 THEN Append(id, Digit(n)) ELSE id]

\* No two runs of a request have one id once the derived ones are numbered: a
\* caller who chooses an id chooses one the numbering does not give.
DistinctIds == \A b \in Bodies : IsInjective(NumberedIds(b.sources))

\* _leaves(_serving(..)): the paths two variants differ in, words apart.
differs(a, b) == {k \in {"image", "flag", "env"} : a[k] # b[k]}

\* _published_twin: the closest published variant that could be read, <<>> when
\* none is within TwinMax.
published_twin(doc, existing, exclude) ==
  LET Read == {v \in DOMAIN existing.variants \ exclude : existing.variants[v].document # None}
      Far(v) == Cardinality(differs(doc, existing.variants[v].document))
      Near == {v \in Read : Far(v) <= TwinMax}
  IN IF Near = {} THEN <<>> ELSE CHOOSE v \in Near : \A w \in Near : Far(v) <= Far(w)

\* The name tried n-th for a new id in _own_lineage.
Nth(new, n) == new \o [k \in 1..(n - 1) |-> Digit(k + 1)]

\* The i-th id is renamed to the first name nobody has.
FirstFree(taken, new) ==
  CHOOSE m \in 1..(Cardinality(taken) + 1) :
    Nth(new, m) \notin taken /\ \A k \in 1..(m - 1) : Nth(new, k) \in taken
Renamed(acc, i, new) ==
  LET name == Nth(new, FirstFree(acc.taken, new))
  IN [ids |-> [acc.ids EXCEPT ![i] = name], taken |-> acc.taken \union {name}]
\* One after the other, those that have a new name to try.
RenamePass(start, news, n) ==
  LET pass[i \in 0..n] == IF i = 0 THEN start
                          ELSE IF i \in DOMAIN news THEN Renamed(pass[i - 1], i, news[i])
                          ELSE pass[i - 1]
  IN pass[n]

\* Mutant: a derived id is kept whoever holds it.
any_lineage(ids, docs, sources, existing) == ids

\* _own_lineage: a derived id that a published variant of another deployment
\* holds is renamed after the variant the baseline is a near copy of, else the
\* weights; a file that could not be read is no clash.
own_lineage(ids, docs, sources, existing) ==
  LET Clash == {i \in DOMAIN ids :
                  /\ sources[i].id = <<>>
                  /\ ids[i] \in DOMAIN existing.variants
                  /\ existing.variants[ids[i]].document # None
                  /\ existing.variants[ids[i]].document.image # docs[i].image}
      Base == {i \in DOMAIN sources : sources[i].role = "baseline"}
      lineage == IF Base = {} THEN <<>>
                 ELSE published_twin(docs[Min(Base)], existing, {ids[i] : i \in Clash})
      Stem(i) == IF lineage # <<>> THEN lineage ELSE <<"shape", ToString(docs[i].image)>>
      News == [i \in Clash |-> Stem(i) \o (IF sources[i].role = "" THEN <<>> ELSE <<sources[i].role>>)]
  IN RenamePass([ids |-> ids, taken |-> DOMAIN existing.variants \union Range(ids)],
                News, Len(sources)).ids

same_variant(a, b) == [a EXCEPT !.version = 0] = [b EXCEPT !.version = 0]

bump_minor(version) == version + 1

\* One ExportedVariant: the published variant when this is it, else the next
\* version of its id, else a new one.
exported_variant(s, id, doc, existing) ==
  LET Out(i, d, st) == [id |-> i, document |-> d, status |-> st, role |-> s.role,
                        chosen |-> s.id # <<>>]
      twin == IF s.recipe THEN published_twin(doc, existing, {}) ELSE <<>>
      published == existing.variants[id]
  IN IF twin # <<>> /\ differs(doc, existing.variants[twin].document) = {}
       THEN Out(twin, existing.variants[twin].document, "unchanged")
     ELSE IF id \notin DOMAIN existing.variants
       THEN Out(id, doc, "new")
     ELSE IF published.document # None /\ same_variant(published.document, doc)
       THEN Out(id, [doc EXCEPT !.version = published.version], "unchanged")
     ELSE Out(id, [doc EXCEPT !.version = bump_minor(published.version)], "updated")

\* _tuning: an entry per optimized variant with a baseline beside it and a report.
tuning_of(exported, report) ==
  LET Base == {i \in DOMAIN exported : exported[i].role = "baseline"}
      Ref(v) == [id |-> v.id, version |-> v.document.version]
  IN IF Base = {} \/ ~report THEN {}
     ELSE {[baseline |-> Ref(exported[Min(Base)]), optimized |-> Ref(exported[i])] :
             i \in {j \in DOMAIN exported : exported[j].role = "optimized"}}

\* _metadata: the published one with this export's results added, or a new one,
\* and what is wrong with it.
metadata_of(b, exported, existing, report) ==
  LET meta    == existing.meta
      tuning  == meta.tuning \union tuning_of(exported, report)
      covered == {t.optimized.id : t \in tuning}
      ids     == {exported[i].id : i \in DOMAIN exported} \union DOMAIN existing.variants
      Tuned   == {i \in DOMAIN exported : exported[i].role = "optimized"}
      asked   == IF b.default # <<>> THEN b.default
                 ELSE IF meta.default # <<>> THEN meta.default
                 ELSE IF Tuned # {} THEN exported[Min(Tuned)].id ELSE <<>>
      taken   == meta.default # <<>> /\ asked # meta.default /\ asked \notin covered
      default == IF taken THEN meta.default ELSE asked
  IN [meta   |-> [default |-> default, tuning |-> tuning],
      errors |-> {e \in {"default", "default_unknown", "hf"} :
                    CASE e = "default"         -> taken
                      [] e = "default_unknown" -> default # <<>> /\ default \notin ids
                      [] e = "hf"              -> ~existing.model /\ ~b.hf}]

\* _report_for, _saved_report: every export but a publish takes a report
\* (with_report): the one named, refused when it compares other runs, else the
\* newest saved one of these runs.
WithReport(b) == b.kind \in {"preview", "archive"}
report_errors(b) == IF WithReport(b) /\ b.report = "wrong" THEN {"report"} ELSE {}

\* _export and build_catalog_entry: the files of the request's runs over what
\* the catalog publishes (NoModel when it was not read, or has no such model).
build_catalog_entry(b, existing) ==
  LET sources  == b.sources
      docs     == [i \in DOMAIN sources |-> variant_of(sources[i], sources)]
      numbered == NumberedIds(sources)
      ids      == IF existing.model THEN own_lineage(numbered, docs, sources, existing)
                  ELSE numbered
      exported == [i \in DOMAIN sources |->
                     exported_variant(sources[i], ids[i], docs[i], existing)]
      meta     == metadata_of(b, exported, existing, WithReport(b))
  IN [variants |-> exported,
      files    |-> LET order == InOrder({i \in DOMAIN exported : exported[i].status # "unchanged"})
                   IN [n \in DOMAIN order |-> exported[order[n]]],
      meta     |-> meta.meta,
      errors   |-> meta.errors \union report_errors(b)]

\* _from_run, _launched_recipe: a run without a result, or one whose campaign's
\* recipe is no longer the one it measured, is refused.
from_run_ok(b) == \A i \in DOMAIN b.sources : /\ b.sources[i].measured
                                              /\ ~(b.sources[i].recipe /\ edited)

-----------------------------------------------------------------------------
(* What the request reads of the catalog. *)

\* lookup: the model at the index's commit, with the files of `unread` missing.
lookup(unread) ==
  [model    |-> index.model,
   meta     |-> index.meta,
   variants |-> [v \in DOMAIN index.variants |->
                   [version  |-> index.variants[v].version,
                    document |-> IF v \in unread THEN None ELSE index.variants[v]]]]

Idle == [pc |-> "idle", body |-> None, mode |-> "dry", export |-> None, i |-> 1,
         model_etag |-> None, etag |-> None, added |-> {}, writes |-> <<>>, committed |-> {}, answer |-> "",
         unread |-> {}]

\* A request that is over keeps its export and its writes.
Ended(r, answer) == [r EXCEPT !.pc = "done", !.answer = answer, !.i = 1, !.model_etag = None,
                              !.etag = None, !.added = {}]

\* Where a publish stands once the writes before file i are made.
NextPc(export, i, mode) == IF i <= Len(export.files) THEN "get_variant"
                           ELSE IF mode = "dry" THEN "put_metadata" ELSE "get_metadata"

\* preview, archive and publish: read the runs and the catalog, build the export.
\* seen says whether the index could be read, unread which files could not.
Ask(p, b, seen, unread) ==
  /\ req[p].pc = "idle"
  /\ unread \subseteq DOMAIN index.variants /\ (unread # {} => seen /\ b.use)
  /\ LET read   == b.use /\ seen
         export == build_catalog_entry(b, IF read THEN lookup(unread) ELSE NoModel)
         r      == [Idle EXCEPT !.body = b, !.export = export, !.unread = unread,
                                !.pc = "get_model"]
     IN /\ req' = [req EXCEPT ![p] =
                     IF ~from_run_ok(b) THEN Ended(r, "refused run")
                     ELSE IF export.errors # {} /\ b.kind # "preview" THEN Ended(r, "invalid")
                     ELSE IF WithReport(b) THEN Ended(r, "built")
                     ELSE r]
        /\ pulls' = IF /\ b.kind = "archive" /\ export.errors = {} /\ from_run_ok(b)
                       /\ read
                    THEN pulls \union {[base |-> index, export |-> export]} ELSE pulls
        /\ alone' = [alone EXCEPT ![p] = read /\ index = srv]
  /\ UNCHANGED <<srv, index, edited, category, edits>>

-----------------------------------------------------------------------------
(* The catalog server's answers (external). *)

Has(id) == id \in DOMAIN srv.variants

\* PUT of a variant: the condition holds, and a replacement is a later version.
TakesVariant(etag, id, doc) ==
  IF etag = None THEN ~Has(id)
  ELSE Has(id) /\ srv.variants[id] = etag
       /\ (doc = etag \/ doc.version > srv.variants[id].version)

\* PUT of the metadata: the condition holds, and its default is a variant.
TakesMetadata(etag, meta) == etag = srv.meta /\ (meta.default = <<>> \/ Has(meta.default))

WithVariant(s, id, doc) ==
  [s EXCEPT !.variants = [v \in DOMAIN s.variants \union {id} |->
                            IF v = id THEN doc ELSE s.variants[v]]]

WithFiles(s, files) ==
  LET Named(v) == {i \in DOMAIN files : files[i].id = v}
  IN [s EXCEPT !.variants =
        [v \in DOMAIN s.variants \union {files[i].id : i \in DOMAIN files} |->
           IF Named(v) # {} THEN files[Max(Named(v))].document ELSE s.variants[v]]]

\* Everyone else's view of the catalog is out of date after a write.
OthersSee(p, changed) == alone' = [q \in Requests |-> IF q = p \/ ~changed THEN alone[q] ELSE FALSE]

-----------------------------------------------------------------------------
(* publish: every write as a dry run, then every write. *)

Pub(p, pc) == req[p].pc = pc

\* A refused write ends the publish (_Refused); a dry run's refusal commits
\* nothing.
Refuse(r) == Ended([r EXCEPT !.writes[Len(r.writes)].status = "failed"],
                   IF r.mode = "dry" THEN "refused" ELSE "refused midway")

\* The last write was answered: the dry run is followed by the real writes.
PassOver(r) ==
  IF r.mode = "dry" /\ r.body.kind = "publish"
  THEN [r EXCEPT !.mode = "real", !.pc = "get_model", !.i = 1, !.added = {}, !.writes = <<>>]
  ELSE Ended(r, "ok")

\* A write is listed before it is sent and marked when it is answered.
Listed(r, path) == [r EXCEPT !.writes = Append(@, [path |-> path, status |-> ""])]
Marked(r) == [r EXCEPT !.writes[Len(r.writes)].status = "ok"]

\* Mutant: a write is listed once it is answered.
SentThenListed(r, paths, heard, next) ==
  LET c == IF r.mode = "real" THEN [r EXCEPT !.committed = @ \union paths] ELSE r
  IN IF heard THEN [next EXCEPT !.committed = c.committed]
     ELSE Ended([c EXCEPT !.writes = Front(@)], "unreachable")

\* A real write reached the server; heard says whether its answer came back.
Sent(r, paths, heard, next) ==
  LET c == IF r.mode = "real" THEN [r EXCEPT !.committed = @ \union paths] ELSE r
  IN IF heard THEN [next EXCEPT !.committed = c.committed] ELSE Ended(c, "unreachable")

\* _writes: is the model in the catalog?
GetModel(p) ==
  /\ Pub(p, "get_model")
  /\ LET r == req[p] IN
     req' = [req EXCEPT ![p] =
               IF srv.model
               THEN [r EXCEPT !.model_etag = srv.meta, !.etag = srv.meta,
                              !.pc = NextPc(r.export, 1, r.mode)]
               ELSE IF r.export.files = <<>> THEN Ended(r, "unreachable")
               ELSE [Listed(r, <<"model">>) EXCEPT !.pc = "post_model"]]
  /\ UNCHANGED <<srv, index, pulls, edited, category, edits, alone>>

\* A new model: its metadata and variants in one commit.
PostModel(p, heard) ==
  /\ Pub(p, "post_model")
  /\ LET r == req[p] IN
     IF srv.model
     THEN /\ req' = [req EXCEPT ![p] = Refuse(r)]
          /\ UNCHANGED <<srv, alone>>
     ELSE /\ req' = [req EXCEPT ![p] =
                       Sent(r, {<<"model">>}, heard, PassOver(Marked(r)))]
          /\ srv' = IF r.mode = "dry" THEN srv
                    ELSE WithFiles([NoModel EXCEPT !.model = TRUE, !.meta = r.export.meta],
                                   r.export.files)
          /\ OthersSee(p, r.mode = "real")
  /\ UNCHANGED <<index, pulls, edited, category, edits>>

\* The variant's ETag, read just before it is written.
GetVariant(p) ==
  /\ Pub(p, "get_variant")
  /\ LET r == req[p]
         f == r.export.files[r.i]
     IN req' = [req EXCEPT ![p] =
                  [Listed(r, f.id) EXCEPT !.pc = "put_variant",
                     !.etag  = IF Has(f.id) THEN srv.variants[f.id] ELSE None,
                     !.added = IF Has(f.id) THEN @ ELSE @ \union {f.id}]]
  /\ UNCHANGED <<srv, index, pulls, edited, category, edits, alone>>

PutVariant(p, heard) ==
  /\ Pub(p, "put_variant")
  /\ LET r == req[p]
         f == r.export.files[r.i]
     IN IF ~TakesVariant(r.etag, f.id, f.document)
        THEN /\ req' = [req EXCEPT ![p] = Refuse(r)]
             /\ UNCHANGED <<srv, alone>>
        ELSE /\ req' = [req EXCEPT ![p] =
                          Sent(r, {f.id}, heard,
                               [Marked(r) EXCEPT !.i = r.i + 1, !.etag = r.model_etag,
                                                 !.pc = NextPc(r.export, r.i + 1, r.mode)])]
             /\ srv' = IF r.mode = "dry" THEN srv ELSE WithVariant(srv, f.id, f.document)
             /\ OthersSee(p, r.mode = "real")
  /\ UNCHANGED <<index, pulls, edited, category, edits>>

\* The metadata's ETag, read again after the variants are committed.
GetMetadata(p) ==
  /\ Pub(p, "get_metadata")
  /\ req' = [req EXCEPT ![p] = [@ EXCEPT !.etag = srv.meta, !.pc = "put_metadata"]]
  /\ UNCHANGED <<srv, index, pulls, edited, category, edits, alone>>

\* Mutant: the dry run sends the metadata as exported.
with_new_default(meta, added) == meta

\* _without_new_default: a dry run leaves out a default this publish adds.
without_new_default(meta, added) ==
  IF meta.default \in added THEN [meta EXCEPT !.default = <<>>] ELSE meta

PutMetadata(p, heard) ==
  /\ Pub(p, "put_metadata")
  /\ LET r    == Listed(req[p], <<"metadata">>)
         meta == IF r.mode = "dry" THEN without_new_default(r.export.meta, r.added)
                 ELSE r.export.meta
     IN IF ~TakesMetadata(r.etag, meta)
        THEN /\ req' = [req EXCEPT ![p] = Refuse(r)]
             /\ UNCHANGED <<srv, alone>>
        ELSE /\ req' = [req EXCEPT ![p] = Sent(r, {<<"metadata">>}, heard, PassOver(Marked(r)))]
             /\ srv' = IF r.mode = "dry" THEN srv ELSE [srv EXCEPT !.meta = meta]
             /\ OthersSee(p, r.mode = "real")
  /\ UNCHANGED <<index, pulls, edited, category, edits>>

\* The catalog does not answer: a request lost before it reached the server.
\* A variant being written is already listed, the metadata too.
Lose(p) ==
  /\ req[p].pc \in {"get_model", "post_model", "get_variant", "put_variant",
                    "get_metadata", "put_metadata"}
  /\ req' = [req EXCEPT ![p] =
               Ended(IF @.mode = "dry" THEN [@ EXCEPT !.writes = <<>>]
                     ELSE IF @.pc \in {"get_metadata", "put_metadata"}
                     THEN Listed(@, <<"metadata">>) ELSE @, "unreachable")]
  /\ UNCHANGED <<srv, index, pulls, edited, category, edits, alone>>

-----------------------------------------------------------------------------
(* Everyone else. *)

\* Bound: the index, the recipe and the env categories are read by Ask alone, so
\* they are changed only while a request may still be made.
StillRead == \E q \in Requests : req[q].pc = "idle"

\* A pull request merges when git sees no conflict with the branch and the
\* catalog's own check passes (external).
Merge(pr) ==
  LET files == pr.export.files
      Ids   == {files[i].id : i \in DOMAIN files}
      At(s, v) == IF v \in DOMAIN s.variants THEN s.variants[v] ELSE None
  IN /\ pr \in pulls
     /\ srv.meta = pr.base.meta /\ srv.model = pr.base.model
     /\ \A v \in Ids : At(srv, v) = At(pr.base, v)
     /\ pulls' = pulls \ {pr}
     /\ srv' = [WithFiles(srv, files) EXCEPT !.model = TRUE, !.meta = pr.export.meta]
     /\ alone' = [q \in Requests |-> FALSE]
     /\ UNCHANGED <<index, req, edited, category, edits>>

\* The site rebuilds its index from the branch.
PublishIndex ==
  /\ index # srv /\ StillRead
  /\ index' = srv
  /\ UNCHANGED <<srv, req, pulls, edited, category, edits, alone>>

EditRecipe ==
  /\ edits > 0 /\ StillRead /\ ~edited
  /\ edited' = TRUE
  /\ edits' = edits - 1
  /\ UNCHANGED <<srv, index, req, pulls, category, alone>>

set_env_category(c) ==
  /\ edits > 0 /\ StillRead /\ category # c
  /\ category' = c
  /\ edits' = edits - 1
  /\ UNCHANGED <<srv, index, req, pulls, edited, alone>>

clear_env_category ==
  /\ edits > 0 /\ StillRead /\ category # None
  /\ category' = None
  /\ edits' = edits - 1
  /\ UNCHANGED <<srv, index, req, pulls, edited, alone>>

-----------------------------------------------------------------------------

\* Bound: at most one file of the catalog cannot be read by a request.
UnreadSets == {{}} \union {{v} : v \in DOMAIN index.variants}

Init ==
  /\ \E s \in Situations : srv = s.branch /\ category = s.category
  /\ index = srv
  /\ req = [p \in Requests |-> Idle]
  /\ pulls = {}
  /\ edited = FALSE
  /\ edits = MaxEdits
  /\ alone = [p \in Requests |-> TRUE]

Next ==
  \/ \E p \in Requests :
       \/ \E b \in Bodies, seen \in BOOLEAN, unread \in UnreadSets :
            Ask(p, b, seen, unread)
       \/ GetModel(p)
       \/ GetVariant(p)
       \/ GetMetadata(p)
       \/ \E heard \in BOOLEAN :
            \/ PostModel(p, heard)
            \/ PutVariant(p, heard)
            \/ PutMetadata(p, heard)
       \/ Lose(p)
  \/ \E pr \in pulls : Merge(pr)
  \/ PublishIndex
  \/ EditRecipe
  \/ \E c \in {"recipe", "site"} : set_env_category(c)
  \/ clear_env_category

Spec == Init /\ [][Next]_vars

-----------------------------------------------------------------------------
(* Properties. *)

\* A refusal always has a cause outside the export: when the index was up to date
\* as the export read it and nobody else has written since, every write of the
\* dry run and of the real run is taken (publish.py:9-11, the order of _writes,
\* _without_new_default, bump_minor, _own_lineage).
RefusedForCause ==
  \A p \in Requests : req[p].answer \in {"refused", "refused midway"} => ~alone[p]

\* The event a publish records lists every file it changed on the server, also
\* when the answer to the write was lost, and what it says was written was.
CommittedIsListed ==
  \A p \in Requests : req[p].pc = "done" /\ req[p].mode = "real" =>
    LET w == req[p].writes IN
    /\ req[p].committed \subseteq {w[i].path : i \in DOMAIN w}
    /\ {w[i].path : i \in {j \in DOMAIN w : w[j].status = "ok"}} \subseteq req[p].committed

\* A variant file of one deployment is never replaced by another deployment's
\* under an id the platform derived, whoever else publishes meanwhile, unless the
\* export could not read that file (_own_lineage, __init__.py:1012-1018).
DeploymentKept ==
  [][\A v \in DOMAIN srv.variants :
       srv'.variants[v].image # srv.variants[v].image =>
         \E p \in Requests : req[p].pc # "idle" /\
            (v \in req[p].unread \/
             \E i \in DOMAIN req[p].export.variants :
               LET x == req[p].export.variants[i] IN x.id = v /\ x.chosen)]_vars

=============================================================================

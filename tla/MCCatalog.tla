------------------------------ MODULE MCCatalog ------------------------------
(* Two requests, two deployments and the catalogs they may find. *)
EXTENDS Catalog

CONSTANTS p1, p2, i1, i2, f1, f2

Source(role, image, flag, recipe) ==
  [role |-> role, image |-> image, flag |-> flag, recipe |-> recipe, measured |-> TRUE,
   id |-> <<>>]

Pair(image, a, b, recipe) == <<Source("baseline", image, a, recipe),
                               Source("optimized", image, b, recipe)>>

Body(kind, sources) == [kind |-> kind, sources |-> sources, hf |-> TRUE, use |-> TRUE,
                        report |-> "unnamed", default |-> <<>>]

MCBodies ==
  {Body("publish", Pair(i1, f1, f2, TRUE)),
   [Body("publish", Pair(i2, f1, f2, FALSE)) EXCEPT !.default = <<"shape", "optimized">>],
   Body("archive", Pair(i1, f1, f2, TRUE)),
   Body("publish", <<Source("optimized", i2, f2, FALSE), Source("optimized", i2, f1, TRUE)>>),
   Body("publish", <<[Source("", i2, f1, TRUE) EXCEPT !.id = <<"shape", "baseline">>]>>),
   [Body("dry_run", <<Source("optimized", i1, f1, FALSE)>>) EXCEPT !.use = FALSE, !.hf = FALSE],
   Body("preview", <<[Source("", i1, f1, FALSE) EXCEPT !.measured = FALSE]>>)}

Doc(image, flag, words, version) ==
  [image |-> image, flag |-> flag, env |-> TRUE, words |-> words, version |-> version]

\* Nothing; one deployment's baseline, no default yet; a tuned pair on record.
MCSituations ==
  {[branch |-> NoModel, category |-> "site"],
   [category |-> None, branch |-> [NoModel EXCEPT !.model = TRUE,
      !.variants = (<<"shape", "baseline">> :> Doc(i1, f1, "baseline", 0))]],
   [category |-> None, branch |-> [model |-> TRUE,
    variants |-> (<<"shape", "baseline">> :> Doc(i1, f1, "baseline", 0))
                 @@ (<<"shape", "optimized">> :> Doc(i1, f1, "gain", 1)),
    meta |-> [default |-> <<"shape", "optimized">>,
              tuning |-> {[baseline |-> [id |-> <<"shape", "baseline">>, version |-> 0],
                           optimized |-> [id |-> <<"shape", "optimized">>, version |-> 1]]}]]]}

ASSUME IdsAssumption == DistinctIds

Symmetry == Permutations(Requests)
=============================================================================

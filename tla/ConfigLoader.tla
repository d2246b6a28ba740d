---------------------------- MODULE ConfigLoader ----------------------------
(***************************************************************************)
(* The layers of a configuration and what they amount to: defaults, then   *)
(* the file, then the environment, then --set and --unset, crates/config/  *)
(* src/loader.rs, with the origin of every field.  A document is the       *)
(* function from the paths of its leaves to their values; an empty table   *)
(* is one without leaves.  An entry of a later layer is a pair of a path   *)
(* and of the document to put there.                                       *)
(***************************************************************************)
EXTENDS Settings, SequencesExt, Functions

Empty == [path \in {} |-> None]
Scalar(value) == [path \in {<<>>} |-> value]

(* The sections of BridgeConfig, and the two maps in it.                     *)
Tables ==
  {<<>>, <<"runtime">>, <<"runtime", "global">>, <<"runtime", "provider_default">>,
   <<"runtime", "circuit_breaker">>, <<"runtime", "request">>, <<"runtime", "idempotency">>,
   <<"inputs">>, <<"inputs", "remote">>, <<"artifacts">>, <<"artifacts", "image">>,
   <<"artifacts", "remote_output">>, <<"artifacts", "retention">>, <<"providers">>,
   <<"providers", "codex_app_server">>, <<"providers", "codex_responses">>,
   <<"providers", "openai">>, <<"server">>, <<"server", "jobs">>,
   <<"server", "metrics">>, <<"server", "tracing">>}

Maps == {<<"runtime", "providers">>, <<"runtime", "circuit_breakers">>}

At(tree, path) == FoldLeft(LAMBDA node, name : node[name], tree, path)

Leaves ==
  {leaf[1] \o <<leaf[2]>> : leaf \in
     {pair \in {<<table, name>> : table \in Tables, name \in UNION {DOMAIN At(Defaults, t) : t \in Tables}} :
        pair[2] \in DOMAIN At(Defaults, pair[1])}} \ (Tables \cup Maps)

(* to_value(BridgeConfig::default())                                         *)
DefaultDocument == [path \in Leaves |-> At(Defaults, path)]

Under(path, document) == {leaf \in DOMAIN document : IsPrefix(path, leaf)}
Over(path, document)  == {leaf \in DOMAIN document : IsStrictPrefix(leaf, path)}
Rooted(path, value)   == [leaf \in {path \o sub : sub \in DOMAIN value} |->
                            value[SubSeq(leaf, Len(path) + 1, Len(leaf))]]
Without(document, leaves) == [leaf \in DOMAIN document \ leaves |-> document[leaf]]
Put(new, old) == [leaf \in DOMAIN new \cup DOMAIN old |->
                    IF leaf \in DOMAIN new THEN new[leaf] ELSE old[leaf]]

(* record_leaves()                                                           *)
Recorded(origins, leaves, source) == Put([leaf \in leaves |-> source], origins)

(* merge_values(): table by table; a scalar and a table replace each other.  *)
MergeFile(loaded, file) ==
  [loaded EXCEPT
     !.document = Put(file, Without(@, UNION {Under(leaf, @) \cup Over(leaf, @) :
                                                leaf \in DOMAIN file})),
     !.origins = Recorded(@, DOMAIN file, "file")]

(* set_path(): what was at the path is replaced, tables included.  The       *)
(* origins of the fields of a table that goes remain.                        *)
SetPath(loaded, entry, source) ==
  LET value == Rooted(entry[1], entry[2]) IN
  IF Over(entry[1], loaded.document) # {} THEN [loaded EXCEPT !.failed = TRUE]
  ELSE [loaded EXCEPT !.document = Put(value, Without(@, Under(entry[1], @))),
                      !.origins = Recorded(@, DOMAIN value, source)]

(* environment_segments() and dotted_segments(): a name with a hyphen is not *)
(* a segment, so that no limit of one provider can be set alone.             *)
Hyphenated == {"codex-app-server", "codex-responses"}
Sayable(path) == path # <<>> /\ \A i \in DOMAIN path : path[i] \notin Hyphenated \cup {""}

Apply(loaded, entry, source) ==
  IF loaded.failed \/ ~Sayable(entry[1]) THEN [loaded EXCEPT !.failed = TRUE]
  ELSE SetPath(loaded, entry, source)

(* The variables are sorted by name: a table comes before its fields.        *)
InOrder(entries) == SetToSortSeq(entries, LAMBDA a, b : Len(a[1]) < Len(b[1]))

(* The leaves of a map are the fields of its entries.                        *)
InMap(path) == Len(path) = 4 /\ SubSeq(path, 1, 2) \in Maps
EntryDefaults(map) ==
  IF map = "providers" THEN UnlimitedConcurrency ELSE CircuitBreakerDefaults

Optional ==
  {<<"artifacts", "public_base_url">>, <<"artifacts", "retention", "max_artifacts">>,
   <<"providers", "codex_app_server", "cwd">>, <<"providers", "codex_app_server", "codex_model">>,
   <<"providers", "openai", "model">>, <<"providers", "openai", "organization_env">>, <<"providers", "openai", "project_env">>,
   <<"server", "bearer_token_env">>, <<"server", "activation_lock">>}

(* deserialize(), with deny_unknown_fields                                   *)
Fits(document) ==
  \A leaf \in DOMAIN document :
    /\ document[leaf] # Mistyped
    /\ \/ leaf \in Leaves /\ (document[leaf] = None => leaf \in Optional)
       \/ /\ InMap(leaf) /\ document[leaf] # None
          /\ leaf[4] \in DOMAIN EntryDefaults(leaf[2])

(* serde(default): a field that the document has not is the default one.     *)
Field(document, path, default) == IF path \in DOMAIN document THEN document[path] ELSE default
Section(document, path) ==
  [name \in DOMAIN At(Defaults, path) |->
     Field(document, path \o <<name>>, At(Defaults, path)[name])]
MapOf(document, map) ==
  [key \in {leaf[3] : leaf \in Under(<<"runtime", map>>, document)} |->
     [field \in DOMAIN EntryDefaults(map) |->
        Field(document, <<"runtime", map, key, field>>, EntryDefaults(map)[field])]]

Typed(document) ==
  [Section(document, <<>>) EXCEPT
     !.runtime = [Section(document, <<"runtime">>) EXCEPT
        !.global = Section(document, <<"runtime", "global">>),
        !.provider_default = Section(document, <<"runtime", "provider_default">>),
        !.providers = MapOf(document, "providers"),
        !.circuit_breaker = Section(document, <<"runtime", "circuit_breaker">>),
        !.circuit_breakers = MapOf(document, "circuit_breakers"),
        !.request = Section(document, <<"runtime", "request">>),
        !.idempotency = Section(document, <<"runtime", "idempotency">>)],
     !.inputs = [Section(document, <<"inputs">>) EXCEPT
        !.remote = Section(document, <<"inputs", "remote">>)],
     !.artifacts = [Section(document, <<"artifacts">>) EXCEPT
        !.image = Section(document, <<"artifacts", "image">>),
        !.remote_output = Section(document, <<"artifacts", "remote_output">>),
        !.retention = Section(document, <<"artifacts", "retention">>)],
     !.providers = [name \in DOMAIN Defaults.providers |-> Section(document, <<"providers", name>>)],
     !.server = [Section(document, <<"server">>) EXCEPT
        !.metrics = Section(document, <<"server", "metrics">>),
        !.tracing = Section(document, <<"server", "tracing">>),
        !.jobs = Section(document, <<"server", "jobs">>)]]

(* resolve_with_environment(): the file is read, or cannot be.               *)
Resolve(layers) ==
  LET defaults == [document |-> DefaultDocument,
                   origins |-> [leaf \in Leaves |-> "default"],
                   failed |-> layers.unreadable]
      withFile == MergeFile(defaults, layers.file)
      withEnvironment == FoldLeft(LAMBDA loaded, entry : Apply(loaded, entry, "environment"),
                                  withFile, InOrder(layers.environment))
      all == FoldLeft(LAMBDA loaded, entry : Apply(loaded, entry, "override"),
                      withEnvironment, layers.overrides)
  IN [all EXCEPT !.failed = @ \/ ~Fits(all.document)]
-----------------------------------------------------------------------------
(* What a layer says of a field, if it says anything.                        *)
SaidBy(layers, source, leaf) ==
  CASE source = "default" -> {At(Defaults, leaf)}
    [] source = "file" -> {layers.file[leaf]}
    [] source = "environment" ->
         {entry[2][SubSeq(leaf, Len(entry[1]) + 1, Len(leaf))] :
            entry \in {e \in layers.environment :
                         \E sub \in DOMAIN e[2] : e[1] \o sub = leaf}}
    [] OTHER ->
         {layers.overrides[i][2][SubSeq(leaf, Len(layers.overrides[i][1]) + 1, Len(leaf))] :
            i \in {j \in DOMAIN layers.overrides :
                     \E sub \in DOMAIN layers.overrides[j][2] :
                       layers.overrides[j][1] \o sub = leaf}}

(* A whole table given to a variable or to --set: set_path() drops the       *)
(* fields it does not name, and their origins go on naming the layer that    *)
(* had set them (loader.rs:310).                                             *)
Dropped(layers, leaf) ==
  \E entry \in layers.environment \cup Range(layers.overrides) :
    /\ IsStrictPrefix(entry[1], leaf)
    /\ \A sub \in DOMAIN entry[2] : entry[1] \o sub # leaf

(* ResolvedConfig::origin(): the source of one dotted effective field.       *)
OriginsNameTheirValues(layers, config, except) ==
  LET origins == Resolve(layers).origins IN
  \A leaf \in Leaves \ except :
                       \/ At(config, leaf) \in SaidBy(layers, origins[leaf], leaf)
                       \/ Dropped(layers, leaf)
=============================================================================

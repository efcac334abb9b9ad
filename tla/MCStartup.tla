------------------------------ MODULE MCStartup ------------------------------
(***************************************************************************)
(* Instances of Startup for TLC: small catalogues of sources, and scenes   *)
(* that each bring out one part of what New decides and loads.             *)
(***************************************************************************)
EXTENDS Startup

One == Leaf("1")
Two == Leaf("2")
Ref == Leaf("${secret:k}")

T1(k, n) == k :> n
T2(k, n, l, m) == (k :> n) @@ (l :> m)

\* Scalars, maps and lists under the same names, so that layers disagree on kinds.
Plain1 == {T2("a", One, "u", Dict(T2("x", One, "y", One))), T2("a", List(<<One>>), "u", One),
           T1("u", Dict(T2("x", List(<<One, Two>>), "y", Two)))}
Plain2 == {T2("a", Two, "u", Dict(T1("x", Two))), T2("a", One, "u", Dict(EmptyTree)),
           T2("a", List(<<Two>>), "u", Dict(T1("x", List(<<Two, One>>)))), T1("b", One)}
Plain3 == {T2("a", One, "u", Dict(T1("y", Two))), T1("u", Two), T2("b", Dict(T1("x", One)), "a", List(<<Two, One>>))}

\* No lists: an intersection of two lists panics.
Flat1 == {T2("a", One, "u", Dict(T2("x", One, "y", One))), T2("a", One, "u", Two)}
Flat2 == {T2("a", One, "u", Dict(T1("x", One))), T2("a", Two, "u", Dict(T2("x", Two, "y", One))), T1("a", One)}

\* A file with sections, a flat file of the environment, and flat variables.
Sections == {T2("default", Dict(T2("a", One, "b", One)), "prod", Dict(T1("a", Two))),
             T2("default", Dict(T1("u", Dict(T1("x", One)))), "prod", One),
             T1("a", One)}
Named == {T2("a", One, "u", Dict(T1("x", Two))), T1("b", Two), T1("prod", Dict(T1("a", One)))}
Overlay == {T1("b", Two), T2("a", Two, "prod", Dict(T1("b", One)))}

\* References and values under a declared path, as scalars, in lists and in documents.
Private == Leaf("private")
Secrets1 == {T2("a", Ref, "u", Dict(T2("x", List(<<One, Ref>>), "p", Private))),
             T2("a", List(<<Dict(T1("x", Ref))>>), "b", One)}
Secrets2 == {T2("a", One, "u", Dict(T1("p", Dict(T1("x", Private))))), T1("u", Dict(T2("x", Ref, "p", Ref)))}

\* Directives: defaults in every form, nested includes, a cycle among the included
\* files and one through the source itself, a missing file, too deep a chain.
Inline == Leaf("b: 1")
Bare == Leaf("b 1")
Quoted == Leaf("'1'")
MCInlineDefaults == Inline :> [key |-> "b", value |-> Quoted]

Include(f) == "_include" :> List(f)
Looped == T2("a", One, "_include", Leaf("back"))
Files ==
  ("inc" :> (T2("a", One, "u", Dict(T1("x", One))) @@ T1("_include", Leaf("more"))))
  @@ ("more" :> (T2("a", Two, "_defaults", List(<<Dict(T1("b", Two))>>)) @@ T1("_include", List(<<Leaf("inc")>>))))
  @@ ("other" :> T2("u", Dict(T2("x", Two, "y", Two)), "_merge_strategy", One))
  @@ ("chain1" :> T1("_include", Leaf("chain2"))) @@ ("chain2" :> T1("_include", Leaf("chain3")))
  @@ ("chain3" :> T1("a", One))
  @@ ("looped" :> Looped) @@ ("back" :> T2("a", Two, "_include", Leaf("looped")))
Composites ==
  {T2("a", One, "_include", Leaf("inc")),
   T2("u", Dict(T1("x", One)), "_include", List(<<Leaf("other"), Leaf("inc")>>)),
   T2("u", Dict(T1("x", One)), "_include", List(<<Leaf("inc"), Leaf("other"), Leaf("inc")>>)),
   T2("b", One, "_defaults", List(<<Dict(T2("b", Two, "optional", One)), Dict(T2("a", One, "u", One)), Dict(T1("a", Two))>>)),
   T2("a", One, "_defaults", Inline), T2("a", One, "_defaults", List(<<Dict(T1("b", Two)), Bare, Inline>>)),
   T2("b", One, "_defaults", List(<<Inline, Dict(T1("a", Two))>>)),
   T2("a", One, "_include", Leaf("missing")),
   T2("b", One, "_include", Leaf("chain1"))}

\* References to one provider and to the default one, next to one that never
\* closes in a list in a list; hooks find their input in several places.
Other == Leaf("${secret@aws:k}")
Bad == Leaf("${secret:k")
Variable == Leaf("${REGION}")
Routed == {T2("a", Ref, "u", Dict(T1("x", List(<<One, Other>>)))),
           T2("a", Other, "b", List(<<List(<<One, Bad>>)>>)), T1("b", Dict(T1("x", Leaf("${secret@gone:k}"))))}
Hooked == {T2("a", One, "b", List(<<Ref, Variable>>)), T2("a", Quoted, "u", Dict(T2("x", Two, "y", Ref)))}
Typed == {T2("a", One, "u", Dict(T1("x", One))), T2("a", Dict(T1("x", Ref)), "u", Dict(T1("x", Quoted))),
          T2("a", Ref, "u", Dict(T1("x", Two))), T2("a", Quoted, "z", One), T2("a", Two, "u", Dict(T1("y", One)))}

MCContents(name) ==
  CASE name = "plain1" -> Plain1 [] name = "plain2" -> Plain2 [] name = "plain3" -> Plain3
    [] name = "flat1" -> Flat1 [] name = "flat2" -> Flat2
    [] name = "sections" -> Sections [] name = "prod" -> Named [] name = "composites" -> Composites
    [] name = "looped" -> {Looped}
    [] name = "secrets1" -> Secrets1 [] name = "secrets2" -> Secrets2
    [] name = "routed" -> Routed [] name = "hooked" -> Hooked [] name = "typed" -> Typed
    [] OTHER -> Overlay

MCPlaceholders == (Ref :> [provider |-> ""]) @@ (Other :> [provider |-> "aws"])
                  @@ (Leaf("${secret@gone:k}") :> [provider |-> "gone"])
MCMalformed == {Bad}
MCNumbers == {One, Two}
MCNumerals == Quoted :> One
MCEnvReferences == Variable :> "REGION"

(***************************************************************************)
(* Calls and settings.                                                     *)
(***************************************************************************)
Opt(f, x) == [set |-> f, to |-> x]
Loader(name) == [name |-> name, envFile |-> FALSE, auto |-> FALSE]
Loaders(names) == Opt("loaders", [i \in DOMAIN names |-> Loader(names[i])])
File(settings) == [family |-> "confii", extension |-> "yaml", env |-> "", settings |-> settings]
For(env, settings) == [File(settings) EXCEPT !.env = env]

NoModel == [typed |-> FALSE, kinds |-> EmptyTree]

Call(options) ==
  [call |-> options, disk |-> {}, home |-> {}, osenv |-> EmptyTree, churns |-> FALSE, project |-> {},
   types |-> {"vault", "awssm"}, store |-> ("caller" :> Leaf("s3cret")), model |-> NoModel,
   files |-> EmptyTree, frail |-> {}, sysenv |-> {}, intended |-> T2("a", One, "u", Dict(T1("x", One))),
   assignments |-> {}]

Project(settings, options) == [Call(options) EXCEPT !.disk = {File(settings)}]

Three == Loaders(<<"plain1", "plain2", "plain3">>)
MergeScenes ==
  {Call(<<Three, Opt("merge_strategy", m[1]), Opt("merge_strategy_map", m[2])>>) :
     m \in {<<"deep", EmptyTree>>, <<"replace", EmptyTree>>, <<"shallow", EmptyTree>>,
            <<"deep", T2(<<"a">>, "append", <<"u", "x">>, "prepend")>>,
            <<"union", T2(<<"a">>, "prepend", <<"u">>, "replace")>>,
            <<"shallow", T2(<<"a">>, "append", <<"u">>, "deep")>>}}
  \cup {Call(<<Opt("merge_strategy", "intersection"), Loaders(<<"flat1", "flat2", "flat1">>)>>)}

(***************************************************************************)
(* Environments: sections in files, files named after the environment.     *)
(***************************************************************************)
EnvFiles(search) == [type |-> "environment_files", name |-> "", search |-> search,
                     default_required |-> FALSE, environment_required |-> TRUE]
Yaml(name) == [type |-> "yaml", name |-> name]
InDir(dir, name) == [dir |-> dir, name |-> name, regular |-> TRUE]

EnvScenes ==
  {[Project(("default_environment" :> "prod") @@ ("environment_strategy" :> s[1])
            @@ ("environment_conflict_policy" :> s[2]) @@ ("on_error" :> "ignore") @@ ("sources" :> s[3]), <<>>)
    EXCEPT !.project = {InDir("config", "prod"), InDir(".", "prod")}] :
     s \in {<<"hybrid", "error", <<Yaml("sections"), EnvFiles(<<"config">>), Yaml("overlay")>>>>,
            <<"hybrid", "last_wins", <<Yaml("sections"), EnvFiles(<<"config">>), Yaml("sections")>>>>,
            <<"named_files", "error", <<EnvFiles(<<"config">>), EnvFiles(<<".">>), Yaml("overlay")>>>>}}
  \cup {Call(<<Opt("env", "prod"), Opt("on_error", "ignore"), Loaders(<<"sections", "overlay">>)>>)}

\* What an environment_files source may meet: nothing, directories, shadowed names.
InventoryScenes ==
  {[Project(("sources" :> <<EnvFiles(<<"config", ".">>)>>), <<Opt("env", env), Opt("on_error", "warn")>>)
    EXCEPT !.project = files] :
     env \in {"prod", "..", "stage"},
     files \in {{InDir(".", "prod"), InDir("config", "default")},
                {InDir("config", "prod"), InDir(".", "prod"), [InDir(".", "stage") EXCEPT !.regular = FALSE]},
                {[InDir("config", "default") EXCEPT !.regular = FALSE], InDir("config", "stage"), InDir("lib", "prod")}}}

(***************************************************************************)
(* Secrets: a hook of the caller, a router, hooks around them.             *)
(***************************************************************************)
SecretScenes ==
  {[Call(<<Loaders(<<"secrets1", "secrets2">>), Opt(s[1], "hook"), Opt("sensitive_paths", {<<"u", "p">>}),
           Opt("sysenv_fallback", TRUE)>>)
    EXCEPT !.store = ("caller" :> s[2]), !.sysenv = {<<"b">>},
           !.assignments = {<<<<"a">>, One>>, <<<<"a">>, Ref>>, <<<<"u", "x">>, Ref>>,
                            <<<<"u">>, Dict(T2("x", One, "p", Ref))>>, <<<<"a", "x">>, One>>}] :
     s \in {<<"secret_hook", Leaf("s3cret")>>, <<"secret_resolver", Dict(T1("x", Leaf("s3cret")))>>}}

Router(providers, default, defaults) ==
  "secrets" :> [providers |-> providers, default_provider |-> default, environment_defaults |-> defaults]

RouterScenes ==
  {[Project(Router(r[1], r[2], r[3]) @@ ("sources" :> <<Yaml("routed")>>),
            <<Opt("env", "prod"), Opt("dynamic_reloading", TRUE)>>)
    EXCEPT !.store = T2("vault", Leaf("s3cret"), "aws", Dict(T1("x", Leaf("s3cret")))), !.frail = {"watcher"}] :
     r \in {<<T2("vault", "vault", "aws", "awssm"), "vault", EmptyTree>>,
            <<T2("vault", "vault", "aws", "awssm"), "", T1("prod", "aws")>>,
            <<T1("vault", "vault"), "aws", EmptyTree>>, <<T1("vault", "unheard"), "", EmptyTree>>,
            <<T1("aws", "awssm"), "", T1("stage", "vault")>>}}
  \cup {[Project(Router(T1("vault", "vault"), "vault", EmptyTree) @@ ("sources" :> <<Yaml("routed")>>)
                 @@ ("merge_strategy_map" :> (<<"a">> :> "append")), <<Opt("env", "prod")>>)
         EXCEPT !.store = T2("vault", Leaf("s3cret"), "aws", Leaf("s3cret")),
                !.disk = @ \cup {For("prod", Router(T1("aws", "awssm"), "", T1("prod", "aws"))
                                            @@ ("merge_strategy_map" :> (<<"b">> :> "union")))}]}

\* A reference that a hook makes up is no secret of the sources: it has a value
\* of its own.
Minted == Leaf("minted")
Hook(kind, at, map) == Opt("hook", [kind |-> kind, at |-> at, map |-> map])
HookScenes ==
  {[Call(<<Loaders(<<"hooked">>), Opt("secret_hook", "hook"), Hook("global", <<>>, Minted :> Leaf("seen"))>> \o h)
    EXCEPT !.osenv = ("REGION" :> "eu"), !.store = ("caller" :> Minted)] :
     h \in {<<>>, <<Opt("use_env_expander", FALSE), Hook("key", <<"b">>, Minted :> Leaf("seen"))>>,
            <<Hook("value", Two, Two :> Ref), Hook("condition", {Minted, One}, One :> Two)>>,
            <<Hook("value", Two, Two :> Ref), Opt("sensitive_paths", {<<"u", "x">>})>>,
            <<Opt("use_type_casting", FALSE), Hook("key", <<"a">>, One :> Two)>>}}

(***************************************************************************)
(* Validation: a schema, a validator, a struct.                            *)
(***************************************************************************)
Do(method, x) == [do |-> method, with |-> x]
Schema1 == [compiles |-> TRUE, requires |-> {<<"u", "x">>}]
Struct == [typed |-> TRUE, kinds |-> T2("a", "int", "u", "struct")]
ValidScenes ==
  {[Call(<<Loaders(<<"typed">>), Opt("secret_hook", "hook"), Opt("validate_on_load", TRUE)>> \o v)
    EXCEPT !.model = Struct, !.store = ("caller" :> One),
           !.assignments = {<<<<"u">>, One>>, <<<<"u">>, Dict(T1("y", One))>>, <<<<"a">>, Dict(T1("x", One))>>, <<<<"z">>, One>>}] :
     v \in {<<>>, <<Opt("reject_unknown_keys", TRUE), Opt("freeze_on_load", TRUE)>>,
            <<Opt("validator", <<"u", "x">>)>>, <<Opt("strict_validation", FALSE), Opt("use_type_casting", FALSE)>>,
            Build(<<Do("WithSchemaValidation", [schema |-> Schema1, strict |-> FALSE]), Do("EnableDebug", 0)>>),
            Build(<<Do("WithSchemaValidation", [schema |-> [Schema1 EXCEPT !.compiles = FALSE], strict |-> TRUE])>>)}}

ComposeScenes ==
  {[Call(<<Loaders(<<"composites", second>>), Opt("on_error", e), Opt("merge_strategy", m)>>)
    EXCEPT !.files = Files] :
     e \in {"raise", "warn"}, m \in {"deep", "replace"}, second \in {"composites", "looped"}}

(***************************************************************************)
(* Precedence: the same setting from the call, the settings and the        *)
(* variables, and loaders of variables placed in several ways.             *)
(***************************************************************************)
Settings == ("default_environment" :> "prod") @@ ("env_switcher" :> "STAGE") @@ ("env_prefix" :> "APP")
            @@ ("merge_strategy" :> "shallow") @@ ("freeze_on_load" :> TRUE)
OwnPrefix == [name |-> "environment:APP", envFile |-> FALSE, auto |-> FALSE]
PrecedenceScenes ==
  {[Project(Settings, call) EXCEPT !.osenv = [v \in {"STAGE", "APP_ENV"} |-> IF v = "STAGE" THEN "stage" ELSE "prod"]] :
     call \in {<<Opt("env", ""), Opt("env_switcher", "APP_ENV"), Loaders(<<"flat1">>)>>,
               <<Opt("env_switcher", "APP_ENV"), Opt("env", "stage"), Opt("add_loaders", <<Loader("flat1")>>)>>,
               <<Opt("env_switcher", "UNSET"), Opt("merge_strategy", "deep"), Opt("freeze_on_load", FALSE)>>,
               <<Opt("env_prefix", "APP"), Loaders(<<"flat1">>), Opt("on_error", "warn")>>,
               <<Opt("env_prefix", "APP"), Opt("add_loaders", <<Loader("flat1")>>)>>,
               <<Opt("loaders", <<OwnPrefix, Loader("flat1")>>), Opt("env_prefix", "APP")>>,
               <<Opt("env_prefix", ""), Opt("merge_strategy", "deep"), Opt("merge_strategy", "union")>>,
               Build(<<Do("WithEnv", "stage"), Do("AddLoaders", <<Loader("flat1")>>), Do("DisableTypeCasting", 0),
                       Do("WithMergeStrategy", "union")>>),
               <<Opt("dynamic_reloading", TRUE)>>, <<Opt("on_error", "bogus")>>, <<NilOption>>,
               <<Opt("loaders", <<Loader(NilName)>>)>>, <<Opt("secret_hook", NoHook)>>,
               <<Opt("exporter", NilName)>>, <<Opt("exporter", "json"), Opt("validator", <<>>)>>}}
  \cup {Project(s, <<>>) :
          s \in {("merge_strategy" :> "bogus"), ("merge_strategy_map" :> (<<"a">> :> "bogus")),
                 ("reload_debounce" :> "bogus"), ("log_level" :> "bogus"),
                 ("env_prefix" :> "APP") @@ ("sources" :> <<[type |-> "environment", name |-> "APP"], Yaml("flat1")>>),
                 ("sources" :> <<Yaml("flat1"), [type |-> "environment", name |-> "APP"],
                                 [type |-> "environment", name |-> "APP"]>>)}}

\* What a factory of the application builds, before something else goes wrong.
FailScenes ==
  {[Project(("sources" :> s) @@ Router(T1("vault", "vault"), "vault", EmptyTree), <<Opt("dynamic_reloading", TRUE)>>)
    EXCEPT !.frail = {"plugin", "watcher"}, !.store = ("vault" :> One)] :
     s \in {<<[type |-> "factory", name |-> "plugin"], Yaml("routed")>>,
            <<[type |-> "factory", name |-> "plugin"], [type |-> "unknown", name |-> ""]>>}}

\* The settings and the variables change, and another goroutine reads them.
Base1 == File(("env_switcher" :> "STAGE") @@ ("default_environment" :> "prod"))
MCEditions == {{Base1, For("prod", "on_error" :> "warn"), For("stage", "on_error" :> "ignore")},
               {Base1, For("stage", Unparsable)}, {}}
MCValues == {"stage", "", " ", ".."}
ChurnScenes ==
  {[Call(call) EXCEPT !.disk = files, !.home = {File("on_error" :> "warn")},
                      !.osenv = ("STAGE" :> ""), !.churns = TRUE] :
     call \in {<<>>, <<Opt("env", "prod")>>},
     files \in MCEditions \cup {{Base1, [Base1 EXCEPT !.extension = "toml"]},
                                {Base1, [For("prod", "on_error" :> "warn") EXCEPT !.family = "dot"]}}}

MCScenes == MergeScenes \cup EnvScenes \cup InventoryScenes \cup SecretScenes \cup RouterScenes \cup HookScenes
            \cup ValidScenes \cup ComposeScenes \cup PrecedenceScenes \cup FailScenes \cup ChurnScenes
=============================================================================

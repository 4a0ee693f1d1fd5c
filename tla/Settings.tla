------------------------------- MODULE Settings -------------------------------
(***************************************************************************)
(* How a boot turns config/elliott.yaml, config/secrets.yaml, the agent    *)
(* definition and the environment into the settings of the runtime, or     *)
(* refuses to boot.                                                        *)
(*                                                                         *)
(* The rules are about what must not happen: a literal in a field whose    *)
(* name says it is a secret is refused even in a block that is off, a      *)
(* secret nobody resolved leaves its skill dormant instead of failing      *)
(* everybody, a required field that is missing says which secret it was    *)
(* waiting for, and the text of every secret-named field reaches the       *)
(* redaction sink.  A credential under another name (auth, bearer) is an   *)
(* ordinary text to all of this.                                           *)
(*                                                                         *)
(* A field is its path: a sequence of keys, each the sequence of words its *)
(* name is made of.  A configuration is a function from fields to values.  *)
(***************************************************************************)
EXTENDS Naturals, FiniteSets, Sequences, SequencesExt, Functions

-----------------------------------------------------------------------------
(* Values.                                                                   *)

Value(form, of) == [form |-> form, of |-> of]
Text(t) == Value("text", t)
Ref(v)  == Value("reference", v)  \* ${ENV:v}, or ${VAULT:path#v}: both read v
On      == Value("flag", "true")
Off     == Value("flag", "false")
List(n) == Value("list", n)       \* how many usable items it has
Absent  == Value("absent", "")

At(config, f) == IF f \in DOMAIN config THEN config[f] ELSE Absent

\* stringAt and optionalStringAt: an empty text is no text.
HasText(config, f) == At(config, f).form = "text" /\ At(config, f).of # ""

\* valueAt(...) === true: a flag that came out of the environment is a text and
\* does not count.
IsOn(config, f) == At(config, f) = On

HasItems(config, f) == At(config, f).form = "list" /\ At(config, f).of # "0"

Blank == {"", " "}

-----------------------------------------------------------------------------
(* Secrets and references.                                                   *)

SecretWords == {"token", "secret", "password", "passphrase", "dsn", "key",
                "credential", "credentials"}

SecretFields == {<<"authorization">>, <<"cookie">>, <<"session">>,
                 <<"access", "url">>, <<"webhook", "url">>}

IsSecretFieldName(key) == Last(key) \in SecretWords \/ key \in SecretFields

IsSecret(f) == IsSecretFieldName(Last(f))

IsSecretReference(v) == v.form = "reference"

\* readMountedSecrets: a file that was named must be there and be an object.
MountedSecrets(mount) ==
  IF mount.at \in {"unreadable", "not-json", "not-object"}
  THEN [ok |-> FALSE, entries |-> <<>>]
  ELSE [ok |-> TRUE, entries |-> IF mount.at = "unset" THEN <<>> ELSE mount.entries]

\* The mounted file wins over the process environment.
Environment(process, mounted) ==
  [v \in DOMAIN process \union DOMAIN mounted |->
     IF v \in DOMAIN mounted THEN mounted[v] ELSE process[v]]

\* Secret-named fields whose value is neither a reference nor the name of a
\* secrets.yaml entry, wherever they are.  A credential in a field of another
\* name, or in a list of texts, is not among them.
LiteralCredentials(config, names) ==
  {f \in DOMAIN config :
     /\ IsSecret(f) /\ HasText(config, f)
     /\ config[f].of \notin names}

\* The entries of secrets.yaml that resolve; those that do not are omitted.
Resolvable(secrets, env) == {n \in DOMAIN secrets : secrets[n].of \in DOMAIN env}

ResolveSecrets(secrets, env) == [n \in Resolvable(secrets, env) |-> env[secrets[n].of]]

\* A value of secrets.yaml must be a reference.
MalformedSecrets(secrets) == {n \in DOMAIN secrets : ~IsSecretReference(secrets[n])}

\* resolveExpression on every text, and the entry a secret field names.
ResolveField(f, v, secrets, resolved, env) ==
  CASE v.form = "reference" -> Text(env[v.of])
    [] v.form = "text" /\ IsSecret(f) /\ v.of \in DOMAIN secrets ->
         IF v.of \in DOMAIN resolved THEN Text(resolved[v.of]) ELSE Absent
    [] OTHER -> v

MakeResolveTree(config, secrets, resolved, env) ==
  [f \in DOMAIN config |-> ResolveField(f, config[f], secrets, resolved, env)]

\* A reference in the configuration itself must resolve.
Unresolvable(config, env) ==
  {f \in DOMAIN config : IsSecretReference(config[f]) /\ config[f].of \notin DOMAIN env}

-----------------------------------------------------------------------------
(* Error reporting.                                                          *)

GlitchTip        == <<<<"observability">>, <<"glitchtip">>>>
GlitchTipEnabled == Append(GlitchTip, <<"enabled">>)
GlitchTipDsn     == Append(GlitchTip, <<"dsn">>)

\* glitchtipEnabled: on when absent, an error unless it is a known spelling.
GlitchtipEnabled(v) ==
  CASE v = Absent \/ v = On -> "on"
    [] v = Off -> "off"
    [] v.form = "text" /\ v.of \in {"true", "yes", "on", "1"} -> "on"
    [] v.form = "text" /\ v.of \in {"false", "no", "off", "0"} -> "off"
    [] OTHER -> "malformed"

\* stripDisabledGlitchtipDsn: what is off does not need its dsn resolved.
StripDisabledDsn(config, env) ==
  LET raw == At(config, GlitchTipEnabled)
      enabled == IF IsSecretReference(raw) /\ raw.of \in DOMAIN env
                 THEN Text(env[raw.of]) ELSE raw
  IN  IF ~(IsSecretReference(raw) /\ raw.of \notin DOMAIN env) /\ GlitchtipEnabled(enabled) = "off"
      THEN Restrict(config, DOMAIN config \ {GlitchTipDsn})
      ELSE config

\* optionalGlitchTip: a scalar block is its own flag; a dsn that is there must
\* be usable, else the environment's or the companion's is.
OptionalGlitchTip(config) ==
  LET scalar == At(config, GlitchTip)
      flag == IF scalar = Absent THEN At(config, GlitchTipEnabled) ELSE scalar
      dsn == At(config, GlitchTipDsn)
  IN  CASE GlitchtipEnabled(flag) # "on" -> GlitchtipEnabled(flag)
        [] scalar # Absent \/ dsn = Absent -> "default"
        [] dsn.form = "text" /\ dsn.of \notin Blank -> "own"
        [] OTHER -> "malformed"

-----------------------------------------------------------------------------
(* The blocks of the configuration.  A block without its flag, or without    *)
(* the secrets, lists and texts it needs, leaves its skill dormant; once it  *)
(* has them, a required text that is missing fails the boot.                 *)

Block(base, secrets, lists, texts, required) ==
  [base |-> base, flag |-> TRUE, secrets |-> secrets, lists |-> lists, texts |-> texts,
   required |-> required]

In(base, word) == Append(base, word)

ChannelOf(name) == <<<<"channels">>, name>>
ToolOf(name)    == <<<<"tools">>, name>>

OptionalSlack ==
  Block(ChannelOf(<<"slack">>), {}, {}, {},
        << <<"app", "token">>, <<"bot", "token">>, <<"owner", "id">>, <<"default", "channel">> >>)

OptionalGmail ==
  Block(<<<<"gmail">>>>, {"gmail_client_id", "gmail_client_secret", "gmail_refresh_token"},
        {}, {}, <<>>)

OptionalBlueBubbles ==
  Block(ChannelOf(<<"bluebubbles">>), {"bluebubbles_password"}, {}, {}, << <<"server", "url">> >>)

\* Files is the one skill that is on unless it is turned off.
OptionalFiles == [Block(ToolOf(<<"files">>), {}, {}, {}, <<>>) EXCEPT !.flag = FALSE]

OptionalTerminal == Block(ToolOf(<<"terminal">>), {}, {<<"allowed", "commands">>}, {}, <<>>)

OptionalSsh == Block(ToolOf(<<"ssh">>), {"ssh_private_key"}, {<<"hosts">>}, {}, << <<"user">> >>)

OptionalSmtp ==
  Block(ChannelOf(<<"email">>), {"smtp_password"}, {<<"allowed", "recipients">>}, {},
        << <<"smtp", "host">>, <<"username">>, <<"from">> >>)

OptionalHomeAssistant ==
  Block(ChannelOf(<<"home", "assistant">>), {"ha_token"}, {}, {}, << <<"base", "url">> >>)

OptionalPihole == Block(ToolOf(<<"pihole">>), {"pihole_password"}, {}, {}, << <<"base", "url">> >>)

OptionalTraefik == Block(ToolOf(<<"traefik">>), {}, {}, {}, << <<"api", "url">> >>)

OptionalSearchDuckDuckGo == Block(ToolOf(<<"search", "duckduckgo">>), {}, {}, {}, <<>>)

OptionalWebhookProvisioner ==
  Block(<<<<"gateways">>, <<"webhook", "provisioner">>>>, {}, {}, {<<"hooks", "base", "url">>}, <<>>)

OptionalVault ==
  Block(ToolOf(<<"vault">>), {"vault_token"}, {<<"paths">>}, {<<"address">>}, <<>>)

\* The block under its new name wins over the one under its old name.
OptionalDeepTrace(config) ==
  LET base(name) == <<<<"skills">>, name>>
      present(name) == \E f \in DOMAIN config : IsPrefix(base(name), f)
      name == IF ~present(<<"deep", "trace">>) /\ present(<<"telemetry", "map">>)
              THEN <<"telemetry", "map">> ELSE <<"deep", "trace">>
  IN  Block(base(name), {}, {}, {<<"public", "hostname">>, <<"service", "url">>}, <<>>)

\* The order in which optionalSettings reads them.
Blocks(config) ==
  <<OptionalSearchDuckDuckGo, OptionalSlack, OptionalGmail, OptionalBlueBubbles, OptionalFiles,
    OptionalTerminal, OptionalSsh, OptionalSmtp, OptionalHomeAssistant, OptionalPihole,
    OptionalTraefik, OptionalVault, OptionalWebhookProvisioner, OptionalDeepTrace(config)>>

Wanted(b, config) ==
  IF b.flag THEN IsOn(config, In(b.base, <<"enabled">>))
            ELSE At(config, In(b.base, <<"enabled">>)) # Off

\* Only Vault looks behind the blanks of a text.
Usable(b, t) == IF b.base = OptionalVault.base THEN t \notin Blank ELSE TRUE

Ready(b, config, resolved) ==
  /\ Wanted(b, config)
  /\ \A n \in b.secrets : n \in DOMAIN resolved /\ Usable(b, resolved[n])
  /\ \A l \in b.lists : HasItems(config, In(b.base, l))
  /\ \A t \in b.texts : HasText(config, In(b.base, t)) /\ Usable(b, At(config, In(b.base, t)).of)

\* A tunnel is watched, provisioned, or both; part of what provisioning needs
\* is nothing.
OptionalCloudflared(config) ==
  LET base == <<<<"gateways">>, <<"cloudflared">>>>
      has(word) == HasText(config, In(base, word))
  IN  (IF has(<<"ready", "url">>) THEN {"watch"} ELSE {})
      \union (IF \A w \in {<<"api", "token">>, <<"account", "id">>, <<"zone", "id">>, <<"hostname">>} :
                   has(w)
              THEN {"provision"} ELSE {})

\* Accounts are read one by one: one whose token did not resolve is left out.
Accounts(config, base, token) ==
  {i \in {"1", "2"} : /\ HasText(config, base \o <<<<i>>, <<"name">>>>)
                      /\ At(config, base \o <<<<i>>, token>>).form = "text"}

\* optionalGoogle: the listed accounts, else the one the Gmail secrets make.
OptionalGoogle(config, resolved) ==
  LET either(a, b) == a \in DOMAIN resolved \/ b \in DOMAIN resolved
      listed == IF /\ either("google_client_id", "gmail_client_id")
                   /\ either("google_client_secret", "gmail_client_secret")
                THEN Accounts(config, <<<<"google">>, <<"accounts">>>>,
                              <<"refresh", "token", "secret">>)
                ELSE {}
  IN  IF listed # {} THEN listed
      ELSE IF OptionalGmail.secrets \subseteq DOMAIN resolved THEN {"default"} ELSE {}

OptionalSubscriptionUsage(config, resolved) ==
  LET base == ToolOf(<<"subscription", "usage">>)
  IN  IF ~IsOn(config, In(base, <<"enabled">>)) THEN {}
      ELSE Accounts(config, In(base, <<"claude", "accounts">>), <<"secret">>)
           \union Accounts(config, In(base, <<"codex", "accounts">>), <<"secret">>)
           \union (IF /\ HasText(config, base \o <<<<"litellm">>, <<"base", "url">>>>)
                      /\ "litellm_admin_key" \in DOMAIN resolved
                   THEN {"litellm"} ELSE {})

NewsBrief == <<<<"skills">>, <<"news", "brief">>>>

\* Two sources need nothing, three a key of their own.
NewsSources(config, resolved) ==
  LET keyOf == [guardian |-> "guardian_api_key", newsdata |-> "newsdata_api_key",
                gnews |-> "gnews_api_key"]
  IN  {s \in {"reddit", "rss"} \union DOMAIN keyOf :
         /\ IsOn(config, NewsBrief \o <<<<s>>, <<"enabled">>>>)
         /\ s \in DOMAIN keyOf => keyOf[s] \in DOMAIN resolved}

OptionalNewsBrief(config, resolved) ==
  IF IsOn(config, In(NewsBrief, <<"enabled">>)) THEN NewsSources(config, resolved) ELSE {}

\* mcpSettings: an endpoint of an unknown transport is skipped; one whose
\* secret did not resolve goes without authorization.
McpSettings(agent, resolved) ==
  {[id |-> e.id, authorized |-> e.secret \in DOMAIN resolved] :
     e \in {x \in agent.mcp : x.transport \in {"sse", "streamable-http"}}}

-----------------------------------------------------------------------------
(* The core: where the model is, and what must be there.                     *)

Llm(word) == <<<<"llm">>, word>>

\* resolveLlmEndpoint never guesses a host.
ResolveLlmEndpoint(config) ==
  LET provider == At(config, Llm(<<"provider">>))
      named == HasText(config, Llm(<<"provider">>))
      hosted == HasText(config, Llm(<<"base", "url">>))
  IN  CASE named /\ provider.of \notin {"anthropic", "openai"} -> "unknown-provider"
        [] named /\ hosted -> "own-host"
        [] named /\ ~hosted -> provider.of
        [] ~named /\ hosted -> "own-host"
        [] OTHER -> "missing"

ParseThinking(config) ==
  LET f == <<<<"llm">>, <<"profiles">>, <<"default">>, <<"thinking">>>>
  IN  ~HasText(config, f) \/ At(config, f).of \in {"adaptive", "disabled"}

ParseEffort(config) ==
  LET f == <<<<"llm">>, <<"profiles">>, <<"default">>, <<"effort">>>>
  IN  ~HasText(config, f) \/ At(config, f).of \in {"low", "medium", "high", "xhigh", "max"}

Timezone == <<<<"runtime">>, <<"timezone">>>>
ApiKey == Llm(<<"api", "key">>)
ModelOf(agent) == <<<<"llm">>, <<"models">>, agent.profile, <<"model">>>>

\* Texts of the agent definition, "none" where it lacks them: no field of the
\* configuration has their names.
PersonaOf == <<<<"spec">>, <<"persona">>>>
ModelProfile == <<<<"spec">>, <<"model", "profile">>>>

\* The fields a load reads with stringAt, in order.
RequiredFields(config, resolved, agent) ==
  <<Timezone>> \o (IF agent.persona = "none" THEN <<PersonaOf>> ELSE <<>>)
  \o <<ModelOf(agent), ApiKey>>
  \o FlattenSeq([i \in 1..Len(Blocks(config)) |->
       LET b == Blocks(config)[i]
       IN  IF Ready(b, config, resolved)
           THEN [j \in 1..Len(b.required) |-> In(b.base, b.required[j])] ELSE <<>>])

MissingFields(config, resolved, agent) ==
  SelectSeq(RequiredFields(config, resolved, agent), LAMBDA f : ~HasText(config, f))

\* explainMissingPointer: the entry a missing field named, if it is one that
\* did not resolve.
ExplainMissingPointer(f, config, secrets, resolved) ==
  IF /\ HasText(config, f)
     /\ config[f].of \in DOMAIN secrets \ DOMAIN resolved
  THEN config[f].of ELSE "none"

-----------------------------------------------------------------------------
(* The rest of the settings come from the environment alone.                 *)

\* The operator's control plane opens only with a token, a principal and a
\* capability; the kill switch only with its own token.
RuntimeEvolutionSettings(env) ==
  /\ {"ELLIOTT_EVOLUTION_CONTROL_TOKEN", "ELLIOTT_EVOLUTION_OPERATOR_PRINCIPAL",
      "ELLIOTT_EVOLUTION_OPERATOR_CAPABILITIES"} \subseteq DOMAIN env
  /\ env["ELLIOTT_EVOLUTION_OPERATOR_CAPABILITIES"] \notin Blank

GovernanceRoute(env) == "ELLIOTT_GOVERNANCE_TOKEN" \in DOMAIN env

-----------------------------------------------------------------------------
(* loadRuntimeSettings.                                                      *)

\* The nested file, or the flat one of older checkouts where that cannot be
\* read as a mapping.
LoadAgentDefinition(agent) == "mapping" \in {agent.nested, agent.flat}

\* .elliott/evolution.yaml need not be there, but what is there must decode; so
\* must a block of installable skills.
LoadEvolutionConfig(evolution) == evolution \in {"absent", "valid"}

InstallSettings(install) == install \in {"absent", "valid"}

RefusedBoot(why) == [ok |-> FALSE, why |-> why]

\* Every resolved secret: each entry of secrets.yaml, each non-empty secret
\* field, and the fallback DSN.
Sink(tree, resolved, env) ==
  Range(resolved)
  \union {tree[f].of : f \in {g \in DOMAIN tree : IsSecret(g) /\ HasText(tree, g)}}
  \union (IF "ELLIOTT_GLITCHTIP_DSN" \in DOMAIN env /\ env["ELLIOTT_GLITCHTIP_DSN"] # ""
          THEN {env["ELLIOTT_GLITCHTIP_DSN"]} ELSE {})

\* The settings of a configuration whose references resolved: the texts that
\* must be there are read in order, and the first that is not refuses the boot.
Settled(config, tree, secrets, resolved, boot, env) ==
  LET missing == MissingFields(tree, resolved, boot.agent)
      endpoint == ResolveLlmEndpoint(tree)
      refuse(kind) == RefusedBoot([kind |-> kind, field |-> <<>>, names |-> "none"])
      lacks(f) == RefusedBoot([kind |-> "missing", field |-> f,
                               names |-> ExplainMissingPointer(f, config, secrets, resolved)])
  IN  CASE boot.agent.profile = "none" -> lacks(ModelProfile)
        [] endpoint \in {"unknown-provider", "missing"} -> refuse("endpoint")
        [] ~ParseThinking(tree) \/ ~ParseEffort(tree) -> refuse("reasoning")
        [] missing # <<>> -> lacks(missing[1])
        [] OptionalGlitchTip(tree) = "malformed" -> refuse("glitchtip")
        [] ~InstallSettings(boot.install) -> refuse("install")
        [] OTHER ->
             [ok |-> TRUE,
              endpoint |-> endpoint,
              skills |-> {Blocks(tree)[i].base : i \in {j \in 1..Len(Blocks(tree)) :
                            Ready(Blocks(tree)[j], tree, resolved)}},
              cloudflared |-> OptionalCloudflared(tree),
              google |-> OptionalGoogle(tree, resolved),
              usage |-> OptionalSubscriptionUsage(tree, resolved),
              news |-> OptionalNewsBrief(tree, resolved),
              mcp |-> McpSettings(boot.agent, resolved),
              glitchtip |-> OptionalGlitchTip(tree),
              policy |-> boot.evolution,
              evolution |-> RuntimeEvolutionSettings(env),
              governance |-> GovernanceRoute(env),
              install |-> boot.install,
              sink |-> Sink(tree, resolved, env)]

\* The files are read and checked one after the other.
LoadRuntimeSettings(boot) ==
  LET mounted == MountedSecrets(boot.mount)
      env == Environment(boot.process, mounted.entries)
      config == StripDisabledDsn(boot.config, env)
      secrets == boot.secrets
      resolved == ResolveSecrets(secrets, env)
      plain(kind, fields) == RefusedBoot([kind |-> kind, field |-> fields, names |-> "none"])
  IN  CASE ~mounted.ok -> plain("mount", <<>>)
        [] LiteralCredentials(config, DOMAIN secrets) # {} -> plain("literal", <<>>)
        [] MalformedSecrets(secrets) # {} -> plain("secrets", <<>>)
        [] ~LoadAgentDefinition(boot.agent) -> plain("agent", <<>>)
        [] ~LoadEvolutionConfig(boot.evolution) -> plain("evolution", <<>>)
        [] Unresolvable(config, env) # {} -> plain("reference", <<>>)
        [] OTHER -> Settled(config, MakeResolveTree(config, secrets, resolved, env),
                           secrets, resolved, boot, env)

---------------------------------------------------------------------------
(* What the loader promises, over boots that mix good and bad values of   *)
(* the fields the promises are about.                                      *)

Slack(word) == In(ChannelOf(<<"slack">>), word)
Email(word) == In(ChannelOf(<<"email">>), word)

SecretsYaml ==
  [model_key |-> Ref("MODEL_KEY"), slack_app |-> Ref("SLACK_APP"),
   smtp_password |-> Ref("SMTP_PASSWORD")]

CoreFields(key) ==
  Timezone :> Text("Europe/Rome") @@ ApiKey :> key
  @@ <<<<"llm">>, <<"models">>, "default", <<"model">>>> :> Text("m")
  @@ Llm(<<"base", "url">>) :> Text("https://host")

SlackBlocks ==
  LET slack(enabled, token) ==
        Slack(<<"enabled">>) :> enabled @@ Slack(<<"app", "token">>) :> token
        @@ Slack(<<"bot", "token">>) :> Ref("MODEL_KEY")
        @@ Slack(<<"owner", "id">>) :> Text("U1")
        @@ Slack(<<"default", "channel">>) :> Text("C1")
  IN  {<<>>} \union {slack(e, t) : e \in {On, Off, Text("true")},
                                   t \in {Text("slack_app"), Text("xapp-literal"), Absent}}

EmailBlocks ==
  {<<>>,
   Email(<<"enabled">>) :> On @@ Email(<<"allowed", "recipients">>) :> List("1")
   @@ Email(<<"smtp", "host">>) :> Text("h") @@ Email(<<"username">>) :> Text("u")
   @@ Email(<<"from">>) :> Text("f")}

GlitchTips ==
  {<<>>, GlitchTip :> Off, GlitchTip :> Text("maybe")}
  \union {GlitchTipEnabled :> e @@ GlitchTipDsn :> d :
            e \in {On, Off, Text("maybe"), Ref("REPORTING")},
            d \in {Ref("DSN"), Ref("NOWHERE")}}

Environments ==
  LET all == [MODEL_KEY |-> "k", SLACK_APP |-> "a", SMTP_PASSWORD |-> "p", DSN |-> "d",
              REPORTING |-> "off"]
  IN  {Restrict(all, DOMAIN all \ gone) :
         gone \in {{}} \union {{v} : v \in {"MODEL_KEY", "SLACK_APP", "SMTP_PASSWORD", "REPORTING"}}}

TheAgent ==
  [nested |-> "mapping", flat |-> "absent", profile |-> "default", persona |-> "soul",
   mcp |-> {[id |-> "e", transport |-> "sse", secret |-> "slack_app"]}]

\* What the boot reads besides: as it should be, or one of them as it should not.
Rests ==
  LET intact == [agent |-> TheAgent, evolution |-> "absent", install |-> "absent"]
  IN  {intact, [intact EXCEPT !.agent.nested = "malformed"], [intact EXCEPT !.agent.profile = "none"],
       [intact EXCEPT !.agent.persona = "none"], [intact EXCEPT !.evolution = "malformed"],
       [intact EXCEPT !.evolution = "valid", !.install = "malformed"]}

Boots ==
  {[mount |-> [at |-> "unset"], process |-> env, secrets |-> SecretsYaml,
    agent |-> rest.agent, evolution |-> rest.evolution, install |-> rest.install,
    config |-> CoreFields(key) @@ slack @@ email @@ tip] :
     env \in Environments, rest \in Rests, key \in {Ref("MODEL_KEY"), Text("model_key"), Text("sk-literal")},
     slack \in SlackBlocks, email \in EmailBlocks, tip \in GlitchTips}

Without(boot, v) == [boot EXCEPT !.process = Restrict(@, DOMAIN @ \ {v})]

\* What a boot that loads has in its secrets, its secret-named fields and its
\* fallback DSN came out of the environment, whatever the configuration says
\* (config.ts, the reference rule).
ASSUME CredentialsAreReferences ==
  \A b \in Boots :
    LET load == LoadRuntimeSettings(b)
    IN  load.ok => load.sink \subseteq Range(b.process)

\* A secret that stops resolving costs its own skills only: the boot goes on,
\* unless the configuration itself refers to it or a required field names the
\* entry, and then the refusal says which entry it was (config.ts,
\* resolveSecrets and explainMissingPointer).
ASSUME DormantIsNotFatal ==
  \A b \in Boots, n \in DOMAIN SecretsYaml :
    LET before == LoadRuntimeSettings(b)
        after == LoadRuntimeSettings(Without(b, SecretsYaml[n].of))
        referred == \E f \in DOMAIN b.config : b.config[f] = SecretsYaml[n]
    IN  before.ok /\ ~referred =>
          IF after.ok THEN after.skills \subseteq before.skills
          ELSE after.why.kind = "missing" /\ after.why.names = n

\* Reporting that is turned off never fails a boot, whatever its endpoint is,
\* and a flag nobody can read neither reports nor stays silent (config.ts,
\* settings-observability.ts).
ASSUME OffIsOff ==
  \A b \in Boots :
    LET load == LoadRuntimeSettings(b)
        flag == At(b.config, GlitchTipEnabled)
        off == \/ flag = Off
               \/ flag = Ref("REPORTING") /\ "REPORTING" \in DOMAIN b.process
        unreadable == Text("maybe") \in {flag, At(b.config, GlitchTip)}
    IN  /\ off => load = LoadRuntimeSettings([b EXCEPT !.config[GlitchTipDsn] = Ref("DSN")])
        /\ load.ok => ~unreadable

\* All the outcomes the facts tell apart do occur.
ASSUME BootsDiffer ==
  LET loads == {LoadRuntimeSettings(b) : b \in Boots}
      kinds == {l.why.kind : l \in {x \in loads : ~x.ok}}
  IN  /\ kinds = {"literal", "agent", "evolution", "reference", "missing", "glitchtip",
                  "install"}
      /\ \E l \in loads : l.ok /\ ChannelOf(<<"slack">>) \in l.skills /\ ChannelOf(<<"email">>) \notin l.skills
=============================================================================

------------------------------ MODULE Facilities ------------------------------
(***************************************************************************)
(* Facilities: infrastructure one skill gives to another.  Providers        *)
(* register first and mount what they kept; then each consumer acquires     *)
(* its grant, which the directory of facilities answers from its file when  *)
(* nothing that produced the grant changed, and from the provider           *)
(* otherwise.  Three providers are here: webhook-provisioner (a public      *)
(* address and the secret its deliveries are verified with), traefik (a     *)
(* route of the reverse proxy, in a table its tools edit too) and           *)
(* cloudflared (the tunnel behind the public address, provisioned step by   *)
(* step in an account others edit).  The process may be killed at every     *)
(* step.  Its files are replaced whole, but for the table of routes: that   *)
(* is written in place, and a table that was cut stays unreadable.          *)
(***************************************************************************)
EXTENDS Naturals, FiniteSets

CONSTANTS Hooks,       \* consumers of ingress.webhook
          Publishers,  \* consumers of proxy.route
          Profiles,    \* verification profiles
          Minted,      \* those whose secret the facility mints
          Hosts,       \* host names a route may have
          Manual,      \* route names no consumer has
          Calls,       \* route tool calls that may overlap
          Requests,    \* <<name, host>>: what they set, or remove with None
          None,
          Torn,        \* a table that cannot be parsed
          MaxMint,     \* bound: addresses, secrets and tunnels ever made
          MaxEdits     \* bound: edits of the configuration and the account

Consumers == Hooks \cup Publishers
(* routeName(consumer-name); two consumers never make the same one here.   *)
Names == Publishers \cup Manual

(* What an endpoint record holds, and what a provider granted to whom.     *)
Endpoint == [slug : Nat, profile : Profiles, material : Nat \cup {None}]
GrantValues == [address : Nat \cup Hosts, secret : Nat \cup {None}]
GrantRecord == [config : Profiles \cup Hosts, values : GrantValues]
Acquisition == [who : Consumers, config : Profiles \cup Hosts,
                values : GrantValues]
(* The table, and what a tool call holds between reading and writing it.   *)
RouteTable == [Names -> Hosts \cup {None}]
RouteCall == [name : Names, host : Hosts \cup {None}, read : RouteTable,
              writes : BOOLEAN, mixed : BOOLEAN]

ASSUME FacilitiesAssumption ==
  /\ Minted \subseteq Profiles
  /\ Hooks \cap Publishers = {}
  /\ Manual \cap Publishers = {}
  /\ Requests \subseteq Names \X (Hosts \cup {None})
  /\ None \notin Profiles \cup Hosts \cup Nat
  /\ None \notin Endpoint \cup GrantRecord \cup Acquisition \cup RouteCall
  /\ Torn \notin RouteTable

VARIABLES
  config,      \* config[c]: the profile or host c asks for
  enabled,     \* the webhook provider has its settings
  grants,      \* grants.json: [config, values] or None
  endpoints,   \* endpoints.json: [slug, profile, material] or None, by consumer
  table,       \* routes.json: table[n] is a host or None; or Torn
  process,     \* "down", "boot" or "up"
  waiting,     \* consumers that did not register yet
  acquired,    \* [who, config, values]: provided, its grant not yet saved; or None
  held,        \* held[c]: the values c registered with, or None
  mounted,     \* mounted[c]: the record the route of c's address verifies with
  pending,     \* pending[t]: [name, host, read, writes, mixed] of a route tool
               \* call: it has truncated the table; another one writes too
  account,     \* [tunnel, ingress, dns]: what the Cloudflare account has
  provision,   \* [step, tunnel]: reconcileTunnel of this boot
  token,       \* the tunnel whose connector token is in the handoff file
  sender,      \* sender[c]: the address somebody registered with the sender
  torn,        \* consumers whose provider and grant were cut apart by a kill
  touched,     \* route names a tool was told to set or remove
  cut,         \* a write of the table was killed, failed or overlapped one
  minted, edits

files == <<grants, endpoints, table, token>>
memory == <<process, waiting, acquired, held, mounted, pending, provision>>
ghosts == <<sender, torn, touched, cut>>
facilitiesVars == <<config, enabled, files, memory, account, ghosts, minted, edits>>

Nothing(S) == [x \in S |-> None]
NotStarted == [step |-> "off", tunnel |-> None]

FacilitiesInit ==
  /\ config \in [Consumers -> Profiles \cup Hosts]
  /\ \A c \in Consumers : config[c] \in IF c \in Hooks THEN Profiles ELSE Hosts
  /\ enabled = TRUE
  /\ grants = Nothing(Consumers) /\ held = grants
  /\ endpoints = Nothing(Hooks) /\ mounted = endpoints /\ sender = endpoints
  /\ table = Nothing(Names)
  /\ process = "down" /\ waiting = {} /\ acquired = None
  /\ pending = Nothing(Calls)
  /\ account = [tunnel |-> None, ingress |-> "none", dns |-> None]
  /\ provision = NotStarted
  /\ token = None
  /\ torn = {} /\ touched = {} /\ cut = FALSE
  /\ minted = 0 /\ edits = 0

-----------------------------------------------------------------------------
(* The operator, between two runs of the process. *)

Edit ==
  /\ process = "down"
  /\ edits < MaxEdits
  /\ edits' = edits + 1
  /\ UNCHANGED <<files, memory, ghosts, minted>>

Reconfigure(c, value) ==
  /\ Edit
  /\ value \in IF c \in Hooks THEN Profiles ELSE Hosts
  /\ config[c] # value
  /\ config' = [config EXCEPT ![c] = value]
  /\ UNCHANGED <<enabled, account>>

SwitchProvider ==
  /\ Edit
  /\ enabled' = ~enabled
  /\ UNCHANGED <<config, account>>

(* Somebody deletes the tunnel, its ingress rule or the DNS record, points *)
(* the record at another tunnel, or puts a rule before the one here.       *)
EditAccount ==
  /\ Edit
  /\ \/ account' = [account EXCEPT !.tunnel = None, !.ingress = "none"]
     \/ account' = [account EXCEPT !.ingress = "none"]
     \/ /\ account.ingress = "own"
        /\ account' = [account EXCEPT !.ingress = "shadowed"]
     \/ \E d \in {None, 0} : account' = [account EXCEPT !.dns = d]
  /\ account' # account
  /\ UNCHANGED <<config, enabled>>

-----------------------------------------------------------------------------
(* loadSkillRegistrations: providers, then consumers one by one. *)

(* register() of webhook-provisioner mounts every endpoint it kept. *)
Boot ==
  /\ process = "down"
  /\ process' = "boot"
  /\ waiting' = Consumers
  /\ mounted' = IF enabled THEN endpoints ELSE Nothing(Hooks)
  /\ UNCHANGED <<config, enabled, files, acquired, held, pending, provision,
                 account, ghosts, minted, edits>>

Registering(c) == process = "boot" /\ acquired = None /\ c \in waiting

Provided(c) == c \in Publishers \/ enabled

SameGrantSource(c) == grants[c] # None /\ grants[c].config = config[c]

(* A stored grant stands when nothing that produced it changed. *)
Reuse(c) ==
  /\ Registering(c)
  /\ Provided(c)
  /\ SameGrantSource(c)
  /\ held' = [held EXCEPT ![c] = grants[c].values]
  /\ waiting' = waiting \ {c}
  /\ UNCHANGED <<config, enabled, files, process, acquired, mounted, pending,
                 provision, account, ghosts, minted, edits>>

(* No provider, or an error before it changed anything, as where the table *)
(* cannot be read: the consumer goes on, or is dropped, without its grant. *)
Refused(c) ==
  /\ Registering(c)
  /\ ~(Provided(c) /\ SameGrantSource(c))
  /\ waiting' = waiting \ {c}
  /\ UNCHANGED <<config, enabled, files, process, acquired, held, mounted,
                 pending, provision, account, ghosts, minted, edits>>

MintedMaterial(profile, existing) ==
  CASE profile \notin Minted -> None
    [] profile \in Minted /\ existing # None /\ existing.profile = profile ->
         existing.material
    [] OTHER -> minted + 2

(* Mutant: every acquire makes an address. *)
FreshEndpointFor(c) ==
  [slug |-> minted + 1, profile |-> config[c],
   material |-> MintedMaterial(config[c], endpoints[c])]

(* Idempotent per consumer: the slug, and with it the public URL, stays.   *)
EndpointFor(c) ==
  LET existing == endpoints[c] IN
    [slug |-> IF existing # None THEN existing.slug ELSE minted + 1,
     profile |-> config[c],
     material |-> MintedMaterial(config[c], existing)]

(* save(): whatever record had this address is replaced. *)
Saved(c, record) == [endpoints EXCEPT ![c] = record]

Granted(c, values) ==
  acquired' = [who |-> c, config |-> config[c], values |-> values]

(* The provider's part of acquire: its own file first, then the route. *)
AcquireWebhook(c) ==
  /\ Registering(c)
  /\ c \in Hooks
  /\ enabled
  /\ ~SameGrantSource(c)
  /\ minted + 2 <= MaxMint
  /\ LET record == EndpointFor(c) IN
       /\ endpoints' = Saved(c, record)
       /\ mounted' = [mounted EXCEPT ![c] = record]
       /\ Granted(c, [address |-> record.slug, secret |-> record.material])
  /\ minted' = minted + 2
  /\ UNCHANGED <<config, enabled, grants, table, token, process, waiting, held,
                 pending, provision, account, ghosts, edits>>

AcquiresRoute(c) ==
  /\ Registering(c)
  /\ c \in Publishers
  /\ ~SameGrantSource(c)
  /\ table # Torn
  /\ UNCHANGED <<config, enabled, grants, endpoints, token, process, held,
                 mounted, pending, provision, account, sender, torn, minted,
                 edits>>

AcquireRoute(c) ==
  /\ AcquiresRoute(c)
  /\ table' = [table EXCEPT ![c] = config[c]]
  /\ touched' = touched \ {c}
  /\ Granted(c, [address |-> config[c], secret |-> None])
  /\ UNCHANGED <<waiting, cut>>

(* The write is cut by an error, which drops the consumer, or by a kill,   *)
(* which is Down after this.                                               *)
CutRoute(c) ==
  /\ AcquiresRoute(c)
  /\ table' = Torn
  /\ cut' = TRUE
  /\ waiting' = waiting \ {c}
  /\ UNCHANGED <<acquired, touched>>

(* The directory's part: the grant is written, then handed out. *)
SaveGrant ==
  /\ acquired # None
  /\ LET c == acquired.who IN
       /\ grants' = [grants EXCEPT ![c] = [config |-> acquired.config,
                                           values |-> acquired.values]]
       /\ held' = [held EXCEPT ![c] = acquired.values]
       /\ waiting' = waiting \ {c}
       /\ torn' = torn \ {c}
  /\ acquired' = None
  /\ UNCHANGED <<config, enabled, endpoints, table, token, process, mounted,
                 pending, provision, account, sender, touched, cut, minted,
                 edits>>

(* startBindings: the routes are collected and the services start. *)
Serve ==
  /\ process = "boot"
  /\ waiting = {}
  /\ process' = "up"
  /\ provision' = [step |-> "tunnel", tunnel |-> None]
  /\ UNCHANGED <<config, enabled, files, waiting, acquired, held, mounted,
                 pending, account, ghosts, minted, edits>>

(* Killed or stopped: only the files stay.  A provider that had written,   *)
(* whose grant was not, is now ahead of the grants; a table that was being *)
(* written stays as it is.                                                 *)
Writing == {t \in Calls : pending[t] # None /\ pending[t].writes}

Down ==
  /\ process # "down"
  /\ cut' = (cut \/ Writing # {})
  /\ torn' = IF acquired = None THEN torn ELSE torn \cup {acquired.who}
  /\ process' = "down" /\ waiting' = {} /\ acquired' = None
  /\ held' = Nothing(Consumers) /\ mounted' = Nothing(Hooks)
  /\ pending' = Nothing(Calls)
  /\ provision' = NotStarted
  /\ UNCHANGED <<config, enabled, files, account, sender, touched, minted,
                 edits>>

(* Somebody gives the address of a consumer to the sender, once. *)
TellSender(c) ==
  /\ process = "up"
  /\ held[c] # None
  /\ sender[c] = None
  /\ sender' = [sender EXCEPT ![c] = held[c].address]
  /\ UNCHANGED <<config, enabled, files, memory, account, torn, touched, cut,
                 minted, edits>>

-----------------------------------------------------------------------------
(* traefik_route_set and traefik_route_remove: the table is read, changed  *)
(* and written back in place; two calls may overlap.                       *)

ReadTable(t, n, host) ==
  /\ process = "up"
  /\ pending[t] = None
  /\ table # Torn
  /\ host = None => table[n] # None
  /\ pending' = [pending EXCEPT ![t] = [name |-> n, host |-> host,
                   read |-> table, writes |-> FALSE, mixed |-> FALSE]]
  /\ touched' = touched \cup {n}
  /\ UNCHANGED <<config, enabled, files, process, waiting, acquired, held,
                 mounted, provision, account, sender, torn, cut, minted, edits>>

(* A tool call that goes on to change the table. *)
Editing(t) ==
  /\ pending[t] # None
  /\ UNCHANGED <<config, enabled, grants, endpoints, token, process, waiting,
                 acquired, held, mounted, provision, account, sender, torn,
                 touched, minted, edits>>

(* writeFile opens the file and empties it; every call that is writing now *)
(* shares the file.                                                        *)
TruncateTable(t) ==
  /\ Editing(t)
  /\ ~pending[t].writes
  /\ table' = Torn
  /\ LET others == Writing IN
       /\ cut' = (cut \/ others # {})
       /\ pending' = [u \in Calls |->
            IF u = t THEN [pending[t] EXCEPT !.writes = TRUE,
                                             !.mixed = others # {}]
            ELSE IF u \in others THEN [pending[u] EXCEPT !.mixed = TRUE]
            ELSE pending[u]]

Edited(call) == [call.read EXCEPT ![call.name] = call.host]

(* Its table is in the file; or, with another's, the end of the longer one *)
(* is left behind the shorter one.                                         *)
WriteTable(t) ==
  /\ Editing(t)
  /\ pending[t].writes
  /\ table' \in {Edited(pending[t])}
               \cup IF pending[t].mixed THEN {Torn} ELSE {}
  /\ pending' = [pending EXCEPT ![t] = None]
  /\ UNCHANGED cut

(* The write fails after it opened the file. *)
FailTable(t) ==
  /\ Editing(t)
  /\ pending[t].writes
  /\ table' = Torn
  /\ cut' = TRUE
  /\ pending' = [pending EXCEPT ![t] = None]

-----------------------------------------------------------------------------
(* reconcileTunnel and fetchConnectorToken: one API call after another,    *)
(* each of which may fail.                                                 *)

Provisioning(step) ==
  /\ process = "up"
  /\ provision.step = step
  /\ UNCHANGED <<config, enabled, grants, endpoints, table, process, waiting,
                 acquired, held, mounted, pending, ghosts, edits>>

(* Adopt the tunnel of this name, or create it; a failed lookup tries to   *)
(* create as well, which the account refuses for a name in use.            *)
EnsureTunnel ==
  /\ Provisioning("tunnel")
  /\ \/ /\ account.tunnel # None
        /\ provision' = [step |-> "ingress", tunnel |-> account.tunnel]
        /\ UNCHANGED <<account, minted>>
     \/ /\ account.tunnel = None
        /\ minted < MaxMint
        /\ minted' = minted + 1
        /\ account' = [account EXCEPT !.tunnel = minted + 1,
                                      !.ingress = "none"]
        /\ provision' = [step |-> "ingress", tunnel |-> minted + 1]
  /\ UNCHANGED token

(* Any rule that leads here will do, also one that another precedes.       *)
EnsureIngress ==
  /\ Provisioning("ingress")
  /\ account' = [account EXCEPT !.ingress = IF @ = "none" THEN "own" ELSE @]
  /\ provision' = [provision EXCEPT !.step = "dns"]
  /\ UNCHANGED <<minted, token>>

(* Mutant: a record that is there is left alone. *)
KeepDnsRecord ==
  /\ Provisioning("dns")
  /\ account' = [account EXCEPT !.dns = IF @ = None THEN provision.tunnel ELSE @]
  /\ provision' = [provision EXCEPT !.step = "token"]
  /\ UNCHANGED <<minted, token>>

(* A record that points at another tunnel is repointed. *)
EnsureDnsRecord ==
  /\ Provisioning("dns")
  /\ account' = [account EXCEPT !.dns = provision.tunnel]
  /\ provision' = [provision EXCEPT !.step = "token"]
  /\ UNCHANGED <<minted, token>>

(* Without a token the tunnel counts as provisioned all the same. *)
FetchToken ==
  /\ Provisioning("token")
  /\ token' \in {token, provision.tunnel}
  /\ provision' = [provision EXCEPT !.step = "provisioned"]
  /\ UNCHANGED <<account, minted>>

ProvisionFails ==
  /\ \E step \in {"tunnel", "ingress", "dns"} : Provisioning(step)
  /\ provision' = [provision EXCEPT !.step = "failed"]
  /\ UNCHANGED <<account, minted, token>>

FacilitiesNext ==
  \/ \E c \in Consumers, value \in Profiles \cup Hosts : Reconfigure(c, value)
  \/ SwitchProvider \/ EditAccount
  \/ Boot \/ SaveGrant \/ Serve \/ Down
  \/ \E c \in Consumers :
       \/ Reuse(c) \/ Refused(c)
       \/ AcquireWebhook(c) \/ AcquireRoute(c) \/ CutRoute(c)
  \/ \E c \in Hooks : TellSender(c)
  \/ \E t \in Calls, request \in Requests :
       ReadTable(t, request[1], request[2])
  \/ \E t \in Calls : TruncateTable(t) \/ WriteTable(t) \/ FailTable(t)
  \/ EnsureTunnel \/ EnsureIngress \/ EnsureDnsRecord \/ FetchToken
  \/ ProvisionFails

FacilitiesSpec == FacilitiesInit /\ [][FacilitiesNext]_facilitiesVars

-----------------------------------------------------------------------------
(* Properties *)

(* What a serving consumer was granted works: the address somebody once    *)
(* gave to its sender is still its own and mounted, deliveries are         *)
(* verified with the secret it was given, and its route is in the proxy's  *)
(* table.  Excepted are: a secret or a route whose provider and grant a    *)
(* kill cut apart, the very route a tool was told to change, and every     *)
(* route while a tool writes the table and once a write of it was killed,  *)
(* failed or overlapped another one (facilities.ts, traefik/src/index.ts). *)
GrantsWork ==
  process = "up" => \A c \in Consumers : held[c] # None =>
    /\ c \in Hooks =>
         /\ mounted[c] # None /\ mounted[c].slug = held[c].address
         /\ sender[c] \in {None, held[c].address}
         /\ c \notin torn => mounted[c].material = held[c].secret
    /\ c \in Publishers \ (touched \cup torn) /\ Writing = {} /\ ~cut =>
         table # Torn /\ table[c] = held[c].address

(* After a boot that says it provisioned the tunnel, the public name leads *)
(* to a tunnel that exists and has a rule that leads to this process,      *)
(* whatever the account was left with.  Where somebody has put another     *)
(* rule before it that takes its requests, the boot sees no difference.    *)
ProvisionedReaches ==
  provision.step = "provisioned" =>
    /\ account.tunnel # None /\ account.dns = account.tunnel
    /\ account.ingress # "none"
=============================================================================

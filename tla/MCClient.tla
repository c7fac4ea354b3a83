----------------------------- MODULE MCClient ------------------------------
(***************************************************************************)
(* Model checking of what client.py does to the machine before and after a *)
(* certificate is obtained: the account it registers (Accounts), and the   *)
(* web server that the two installers change.  `part` picks one of the     *)
(* three; the two installers share the variables that mean the same in     *)
(* both.                                                                   *)
(***************************************************************************)
EXTENDS Accounts

CONSTANTS Parts,      \* "accounts", and the web servers of the run
          Odd,        \* the configurations a plugin is known not to cope with
          Configs,    \* those of nginx a run starts with
          Servers     \* those of Apache

VARIABLES part, orig, mem, conf, running, temp, prog, stack, doms, chal, enh, out, todo, missed,
  ipc, newVhost, challOut, modules, assoc, enhanced, ancestor, debian

shared == <<orig, mem, conf, running, temp, prog, stack, doms, chal, enh, out, todo, missed, ipc>>
nginx == <<newVhost, challOut>>
apache == <<modules, assoc, enhanced, ancestor, debian>>
mcVars == <<vars, part, shared, nginx, apache>>


(* Server blocks of nginx. *)

Adr(p, s, d) == [port |-> p, ssl |-> s, def |-> d]
In80 == Adr(80, FALSE, FALSE)
In443 == Adr(443, TRUE, FALSE)
Block(names, addrs, cert) ==
  [names |-> names, addrs |-> addrs, sslOn |-> FALSE, cert |-> cert, clash |-> FALSE,
   gone |-> FALSE, redirects |-> {}, answers |-> {}, stapled |-> "no"]
Blocks == {Block({"a"}, {In80}, "none"),
           Block({"a", "b"}, {}, "none"),
           Block({}, {Adr(80, FALSE, TRUE)}, "none"),
           Block({"a"}, {In80, In443}, "site"),
           [Block({"b"}, {In443}, "site") EXCEPT !.stapled = "other"],
           Block({"*.long"}, {In80, In443}, "site"),
           Block({"end.*", "*.short"}, {In80}, "none"),
           Block({"*.short"}, {In443}, "site"),
           Block({"~regex"}, {Adr(80, FALSE, TRUE), Adr(443, TRUE, TRUE)}, "site"),
           Block({"b"}, {In80}, "site"),
           [Block({"a"}, {In80}, "none") EXCEPT !.clash = TRUE],
           [Block({"b"}, {Adr(443, FALSE, FALSE)}, "site") EXCEPT !.sslOn = TRUE]}
DefaultsOf(c, p) == {i \in DOMAIN c : \E a \in c[i].addrs : a.port = p /\ a.def}
PortsOf(b) == IF b.addrs = {} THEN {80} ELSE {a.port : a \in b.addrs}
\* No two blocks claim a name at one port, no two are the default of one.
Sound(c) == /\ \A i, j \in DOMAIN c : i # j => \/ c[i].names \cap c[j].names = {}
                                               \/ PortsOf(c[i]) \cap PortsOf(c[j]) = {}
            /\ \A p \in {80, 443} : Cardinality(DefaultsOf(c, p)) <= 1
\* `ssl` is said once for port 443, in another block.
SaidOnce == <<Block({"a"}, {In80, Adr(443, FALSE, FALSE)}, "site"), Block({"b"}, {In443}, "site")>>
\* Two blocks in plain text found for every domain by one kind of name.
SameKind == {<<Block({"*.long"}, {In80, In443}, "site"), Block({"*.short"}, {In80, In443}, "site")>>}
\* A block that speaks plain text at port 443.
PlainAt443 == {<<Block({"a"}, {Adr(443, FALSE, FALSE)}, "none")>>}
NginxConfigs ==
  IF Odd THEN {SaidOnce}
  ELSE {c \in {<<x>> : x \in Blocks} \cup {<<x, y>> : x \in Blocks, y \in Blocks} : Sound(c)}

(* Virtual hosts of Apache. *)

Vhost(names, port) ==
  [names |-> names, wild |-> FALSE, port |-> port, enabled |-> TRUE,
   cert |-> IF port = 443 THEN "site" ELSE "none", toHttps |-> FALSE, rule |-> "none",
   conds |-> {}, header |-> FALSE, stapled |-> FALSE, answers |-> FALSE]
Vhosts == {Vhost({"a"}, 80), Vhost({"a", "b"}, 80), Vhost({}, 80), Vhost({"a"}, 443),
           [Vhost({"b"}, 443) EXCEPT !.header = TRUE],
           [Vhost({"a"}, 80) EXCEPT !.toHttps = TRUE],
           [Vhost({}, 80) EXCEPT !.wild = TRUE], [Vhost({}, 443) EXCEPT !.wild = TRUE],
           [Vhost({"b"}, 80) EXCEPT !.rule = "old"]}
NamesOf(v) == IF v.wild THEN {"a", "b"} ELSE v.names
Distinct(c) == \A i, j \in DOMAIN c :
                 i # j /\ c[i].port = c[j].port => NamesOf(c[i]) \cap NamesOf(c[j]) = {}
NeedsNothing(c) == \A i \in DOMAIN c : c[i].port = 80 /\ ~ c[i].toHttps /\ c[i].rule = "none"
\* One nameless plain host in front of two ssl hosts.
Shared == <<Vhost({}, 80), Vhost({"a"}, 443), Vhost({"b"}, 443)>>
Hosts == {c \in {<<x>> : x \in Vhosts} \cup {<<x, y>> : x \in Vhosts, y \in Vhosts} : Distinct(c)}
ApacheServers ==
  LET full(c) == [cfg |-> c, listen |-> {80, 443}, other |-> FALSE,
                  mods |-> {"ssl", "rewrite", "headers", "socache"}]
      bare(c) == [cfg |-> c, listen |-> {80}, other |-> FALSE, mods |-> {}]
  IN {full(c) : c \in IF Odd THEN {Shared} ELSE Hosts \cup {Shared}}
     \cup {bare(c) : c \in {x \in Hosts : ~ Odd /\ NeedsNothing(x)}}
\* Another site is enabled under the name that the plugin is going to link.
NameTaken == {[s EXCEPT !.other = TRUE] : s \in ApacheServers}

G == INSTANCE NginxInstall WITH disk <- conf, trouble <- missed, pc <- ipc
A == INSTANCE ApacheInstall WITH disk <- conf, trouble <- missed, pc <- ipc

\* What prepare() makes sure of: that nginx loads its configuration.
ASSUME ConfigsAssumption == \A c \in Configs : c \in Seq(G!Block) /\ G!Valid(c)
ASSUME ServersAssumption == Servers \subseteq A!ServerState

\* Apache loads its configuration, and goes on doing so once mod_ssl is enabled:
\* no host waits for a module, not even one within <IfModule mod_ssl.c>.
Complete == \A s \in Servers : \A i \in DOMAIN s.cfg : A!Provided(s.cfg[i], s.mods)

\* The name of the link that enables a new site is free.
NameFree == \A s \in Servers : ~ s.other

\* No host at port 443 sends its requests to https: they would go in circles as
\* it is.
NoLoopYet ==
  \A s \in Servers : \A i \in DOMAIN s.cfg :
    s.cfg[i].port = 443 => ~ s.cfg[i].toHttps /\ s.cfg[i].rule = "none"

\* The kind of name by which a block of nginx is found for a domain (4: none),
\* and whether it serves the domain by name in plain text.
Kind(b, d) == G!BestMatch(d, b.names)[1]
Fits(b, d) == G!Listens(b, 80) /\ Kind(b, d) < 4

\* What nginx is found with: nothing redirected or split off yet; `ssl` said by
\* each block that listens at 443; and of the blocks in plain text no two that
\* are found for a domain by the same kind of name.
Untouched(c) == \A i \in DOMAIN c : c[i].redirects = {} /\ ~ c[i].gone
SaysSsl(c) == \A i \in DOMAIN c : \A a \in c[i].addrs : a.port = 443 /\ ~ c[i].sslOn => a.ssl
OneOfAKind(c) ==
  \A d \in G!Domains : \A i, j \in DOMAIN c :
    Fits(c[i], d) /\ Fits(c[j], d) /\ Kind(c[i], d) = Kind(c[j], d) => i = j
SslAt443 == \A c \in Configs : SaysSsl(c)
OrdinaryBlocks == \A c \in Configs : Untouched(c) /\ SaysSsl(c) /\ OneOfAKind(c)

\* For the challenges: nothing but plain text is spoken at port 80, where the blocks
\* are one of a kind, and none at port 443; no block is named like the CA's own test
\* domains; each host of Apache is enabled, and no two at port 80 match a domain.
PlainAt80(c) == \A i \in DOMAIN c : G!Listens(c[i], 80) => G!PlainPort80(c, i)
NoZname(c) == \A i \in DOMAIN c : c[i].names \cap {"za", "zb"} = {}
OneMatch(c) ==
  \A d \in A!Domains : \A i, j \in DOMAIN c :
    c[i].port = 80 /\ c[j].port = 80 /\ A!Matches(c[i], d) /\ A!Matches(c[j], d) => i = j
OrdinaryHosts == \A s \in Servers : OneMatch(s.cfg) /\ \A i \in DOMAIN s.cfg : s.cfg[i].enabled
Answerable ==
  (\A c \in Configs : OneOfAKind(c) /\ PlainAt80(c) /\ SaysSsl(c) /\ NoZname(c)) /\ OrdinaryHosts

NoNginx == newVhost = 0 /\ challOut = 0
NoApache == debian = FALSE /\ modules = {} /\ assoc = <<>> /\ enhanced = {} /\ ancestor = <<>>
NoServer ==
  /\ orig = 0 /\ mem = 0 /\ conf = 0 /\ running = 0 /\ temp = 0 /\ prog = 0 /\ stack = 0 /\ doms = 0
  /\ chal = 0 /\ enh = 0 /\ out = 0 /\ todo = 0 /\ missed = 0 /\ ipc = "none"
MCInit ==
  /\ part \in Parts /\ Init /\ (part # "accounts" => Loadable = {})
  /\ \/ part = "nginx" /\ G!Init /\ NoApache
     \/ part = "apache" /\ A!Init /\ NoNginx
     \/ part = "accounts" /\ NoServer /\ NoNginx /\ NoApache

NginxNext == part = "nginx" /\ G!Next /\ UNCHANGED <<vars, part, apache>>
ApacheNext == part = "apache" /\ A!Next /\ UNCHANGED <<vars, part, nginx>>
AccountsNext == part = "accounts" /\ Next /\ UNCHANGED <<part, shared, nginx, apache>>
MCNext == NginxNext \/ ApacheNext \/ AccountsNext
MCSpec == MCInit /\ [][MCNext]_mcVars

\* The types of the three parts.
TypesOK == TypeOK /\ (part = "nginx" => G!TypeOK) /\ (part = "apache" => A!TypeOK)

Nginx == part = "nginx"
Apache == part = "apache"

\* While its challenge is open, a domain's request finds the block or host that
\* answers it, although several are performed at once and removed one by one.
ChallengeReachable == (Nginx => G!ChallengeReachable) /\ (Apache => A!ChallengeReachable)

\* A run without trouble ends with every domain of the certificate served by
\* it, stapled and redirected as asked: the searches for a block to deploy to
\* and one to redirect agree with the server's own choice.
Served == /\ Nginx => G!HttpsServed /\ G!Enhanced
          /\ Apache => A!HttpsServed /\ A!RedirectedByName

\* At no time does a redirect lead to itself, and what nginx served by name in
\* plain text is served there still, or redirected.
NoPageLost == (Nginx => G!LoopFree /\ G!StillServed) /\ (Apache => A!LoopFree)

\* The server would load what is on disk: no duplicate defaults and addresses, no
\* directive without its module.
ServerLoads == (Nginx => G!Loadable) /\ (Apache => A!Loadable)

\* A challenge, a deployment or a restart that fails leaves the configuration
\* as it was found.
Undone == (Nginx => G!Undone) /\ (Apache => A!Undone)

\* "Redirect all port 80 traffic": violated for a plain host that several ssl
\* hosts share (Odd); no run checks it.
RedirectedAll == Apache => A!RedirectedAll

\* (InStep and KeyKept are those of Accounts.)
=============================================================================

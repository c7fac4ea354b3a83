----------------------------- MODULE MCCommands -----------------------------
(***************************************************************************)
(* Model checking of what certbot's commands do to the machine's store of  *)
(* renewal parameters, certificates and checkpoints, and of the invocation *)
(* around them (Session).  `part` picks one of the five specifications;    *)
(* the others stand still.                                                 *)
(***************************************************************************)
EXTENDS Session

CONSTANTS Domains, MaxSuffix, MaxGiven, MaxKills,       \* Certificates
          Second, Wrap, MaxTime, MaxName, MaxBackups,   \* CheckpointNames
          Files, Confs, Renewals, MaxRuns,              \* Renewal
          Plugins, Machines, CommandLines, MaxCommands, \* Options
          Parts

VARIABLES part,
  readable, due, conf, archive, live, served, opts, queue, eff, hooksLeft, already, eventually,
  ran, owed, outcome, failing, aborted, runs, rpc,
  lineage, links, names, newer, shared, op, cpc, given, kills, cended,
  machine, params, cli, config, picked, wanted, opc, ocount, oended,
  backups, newest

rVars == <<readable, due, conf, archive, live, served, opts, queue, eff, hooksLeft, already,
           eventually, ran, owed, outcome, failing, aborted, runs, rpc>>
cVars == <<lineage, links, names, newer, shared, op, cpc, given, kills, cended>>
oVars == <<machine, params, cli, config, picked, wanted, opc, ocount, oended>>
nVars == <<backups, newest>>
mcVars == <<vars, part, rVars, cVars, oVars, nVars>>

ASSUME TimeAssumption ==
  /\ {Second, Wrap, MaxTime, MaxName, MaxBackups} \subseteq Nat \ {0}
  /\ MaxTime < MaxName

\* Marks of the model are no domains.
ASSUME DomainsAssumption ==
  /\ Domains \cap {"absent", "empty", "nobody", "missing"} = {}
  /\ MaxSuffix \in Nat

\* Hooks are command lines; a file is named after its lineage.
ASSUME RenewalAssumption ==
  /\ Files \in Seq(STRING) /\ \A i, j \in DOMAIN Files : Files[i] = Files[j] => i = j
  /\ \A i \in DOMAIN Files : Files[i] # "all"
  /\ Confs \subseteq [pre : STRING, post : STRING, renew : STRING, srv : {"prod", "test"},
                      inst : BOOLEAN]
  /\ Renewals \subseteq [name : {"all"} \cup {Files[i] : i \in DOMAIN Files},
                         pre : STRING, renew : STRING, dirs : BOOLEAN, staging : BOOLEAN,
                         dry : BOOLEAN, force : BOOLEAN, break : BOOLEAN]

\* Plugins are not named like what stands for none.
ASSUME PluginsAssumption ==
  /\ \A p \in Plugins : p.name \in STRING \ {"None", "unset"}
  /\ CommandLines \subseteq [verb : STRING, flags : SUBSET (STRING \X STRING),
                             server : STRING, test : STRING, account : STRING, size : STRING,
                             force : BOOLEAN, batch : BOOLEAN]

\* No name has a digit more than the others, as for all times from 2001 to 2286.
OneLength == MaxName < Wrap

(* Renewal: two lineages, one begun on a test server and without a web server. *)

TwoFiles == <<"x", "y">>
Params(pre, post, renew, srv, inst) ==
  [pre |-> pre, post |-> post, renew |-> renew, srv |-> srv, inst |-> inst]
RenewalParams == {Params("P", "Q", "R", "prod", TRUE), Params("none", "S", "none", "test", TRUE)}
Renew(name, set) ==
  [f \in {"name", "pre", "renew", "dirs", "staging", "dry", "force", "break"} |->
     CASE f = "name" -> name [] f = "pre" -> IF "pre" \in set THEN "C" ELSE "none"
       [] f = "renew" -> "none" [] OTHER -> f \in set]
RenewCommands == {Renew("all", {"dirs"}), Renew("all", {"dirs", "dry"}), Renew("y", {"pre", "force"}),
                  Renew("all", {"staging", "force"}), Renew("y", {"staging", "force", "break"})}

(* Options: three plugins; a web server that is missing, broken or in order. *)

Plugin(name, inst) == [name |-> name, auth |-> TRUE, inst |-> inst, shown |-> TRUE]
Installed == {Plugin("nginx", TRUE), Plugin("apache", TRUE), Plugin("webroot", FALSE)}
State(nginx, apache) == [nginx |-> nginx, apache |-> apache, webroot |-> "ok"]
States == {State("ok", "missing"), State("misconfigured", "ok"), State("ok", "ok")}
Line(v, flags) == [verb |-> v, flags |-> flags, server |-> "unset", test |-> "no",
                   account |-> "unset", size |-> "unset", force |-> FALSE, batch |-> FALSE]
Webroot == <<"auth", "webroot">>
Nginx == <<"both", "nginx">>
Issue == Line("certonly", {Webroot, <<"inst", "nginx">>})
Again == Line("renew", {})
Lines ==
  {Line(v, flags) : v \in {"run", "certonly"}, flags \in {{}, {Nginx}, {Webroot}, {Webroot, Nginx}}}
  \cup {Line("renew", flags) : flags \in {{Nginx}, {Webroot}, {<<"inst", "apache">>}}}
  \cup {Issue, Again, Line("install", {<<"inst", "apache">>}),
        Line("run", {Webroot, <<"inst", "nginx">>}), [Line("run", {}) EXCEPT !.batch = TRUE],
        [Line("run", {}) EXCEPT !.test = "dry-run"], [Issue EXCEPT !.server = "other"],
        [Again EXCEPT !.server = "other", !.test = "staging"], [Again EXCEPT !.account = "v01"],
        [Again EXCEPT !.test = "staging"], [Again EXCEPT !.test = "dry-run"],
        [Again EXCEPT !.force = TRUE]}
  \cup {[c EXCEPT !.size = s] : c \in {Issue, Again}, s \in {"2048", "4096"}}
  \cup {[Again EXCEPT !.server = s] : s \in {"v01", "other"}}

R == INSTANCE Renewal WITH CommandLines <- Renewals, pc <- rpc
C == INSTANCE Certificates WITH conf <- lineage, live <- links, pc <- cpc, commands <- given,
                                ended <- cended, MaxCommands <- MaxGiven
O == INSTANCE Options WITH file <- params, pc <- opc, commands <- ocount, ended <- oended
N == INSTANCE CheckpointNames

rIdle ==
  /\ readable = 0 /\ due = 0 /\ conf = 0 /\ archive = 0 /\ live = 0 /\ served = 0 /\ opts = 0
  /\ queue = 0 /\ eff = 0 /\ hooksLeft = 0 /\ already = 0 /\ eventually = 0 /\ ran = 0
  /\ owed = 0 /\ outcome = 0 /\ failing = 0 /\ aborted = 0 /\ runs = 0 /\ rpc = 0
cIdle ==
  /\ lineage = 0 /\ links = 0 /\ names = 0 /\ newer = 0 /\ shared = 0 /\ op = 0 /\ cpc = 0
  /\ given = 0 /\ kills = 0 /\ cended = 0
oIdle ==
  /\ machine = 0 /\ params = 0 /\ cli = 0 /\ config = 0 /\ picked = 0 /\ wanted = 0 /\ opc = 0
  /\ ocount = 0 /\ oended = 0
nIdle == backups = 0 /\ newest = 0
sIdle == verb = "plugins" /\ quiet
MCInit ==
  /\ part \in Parts /\ Init
  /\ \/ part = "renewal" /\ R!Init /\ cIdle /\ oIdle /\ nIdle /\ sIdle
     \/ part = "certificates" /\ C!Init /\ rIdle /\ oIdle /\ nIdle /\ sIdle
     \/ part = "options" /\ O!Init /\ rIdle /\ cIdle /\ nIdle /\ sIdle
     \/ part = "checkpoints" /\ N!Init /\ rIdle /\ cIdle /\ oIdle /\ sIdle
     \/ part = "session" /\ rIdle /\ cIdle /\ oIdle /\ nIdle

RNext == part = "renewal" /\ R!Next /\ UNCHANGED <<vars, part, cVars, oVars, nVars>>
CNext == part = "certificates" /\ C!Next /\ UNCHANGED <<vars, part, rVars, oVars, nVars>>
ONext == part = "options" /\ O!Next /\ UNCHANGED <<vars, part, rVars, cVars, nVars>>
NNext == part = "checkpoints" /\ N!Next /\ UNCHANGED <<vars, part, rVars, cVars, oVars>>
SNext == part = "session" /\ Next /\ UNCHANGED <<part, rVars, cVars, oVars, nVars>>
MCNext == RNext \/ CNext \/ ONext \/ NNext \/ SNext
MCSpec == MCInit /\ [][MCNext]_mcVars

\* The types of the five parts.
TypesOK ==
  /\ TypeOK
  /\ CASE part = "renewal" -> R!TypeOK [] part = "certificates" -> C!TypeOK
       [] part = "options" -> O!TypeOK [] part = "checkpoints" -> N!TypeOK [] OTHER -> TRUE

\* Renewal: a certificate is obtained between its pre-hooks and any post-hook;
\* when a command ends, the post-hooks of all its attempts have run, failed and
\* interrupted ones too, unless it was killed, or an interrupt came while those very
\* hooks were saved up or run; and no hook ran twice for one purpose.
HooksPaired == part = "renewal" => R!Prepared /\ R!Balanced

\* The same whenever the interrupt comes: no run checks it, the code does not keep it.
PostHooksAnyway == part = "renewal" => R!PostHooksAnyway

\* Renewal: every file is treated whatever happened to the others, and what is
\* called a success is in use.
ReportIsTrue == part = "renewal" => R!ReportIsTrue

\* Renewal: a dry run saves nothing and runs no deploy hook, and puts in place at most
\* what an earlier command has saved; a valid certificate gives way to one of a test
\* server only on request; and a lineage's parameters change by what the command line
\* says, never by those of another lineage.
RenewsAsAsked ==
  [][part = "renewal" => R!DryRunHarmlessStep /\ R!ValidStaysStep /\ R!OwnParametersStep]_mcVars

\* Certificates: through renames, copies and kills no new lineage settles in
\* another's archive; a command that gets or keeps a certificate leaves one for
\* exactly the names asked for, or for some of them if --allow-subset-of-names is
\* given; a deletion leaves nothing.
LineagesApart == part = "certificates" => C!NothingShared /\ C!RequestMet /\ C!NothingLeft

\* Certificates: a revocation's deletion makes no other lineage unusable, and no
\* version drops names of its lineage unless the user has said so, or given
\* --allow-subset-of-names.
OthersSurvive == [][part = "certificates" => C!OthersSurviveStep /\ C!NeverShrinksStep]_mcVars

\* Options: a renewal uses the plugins, size and server that the certificate was
\* issued with, unless the command line names others; it is not sent to one
\* server with the account of another, nor refused for flags that agree.
RenewsAsIssued ==
  [][part = "options" => /\ O!KeepsPlugins /\ O!SameOptionsStep
                         /\ O!AccountFits /\ O!NoFalseConflict]_mcVars

\* "The same plugin and options that were used at the time the certificate was
\* originally issued will be used for the renewal attempt": the installer too.
KeepsInstaller == part = "options" => O!KeepsInstaller

\* (NothingLost and Exclusive are those of Session.)

\* CheckpointNames: a rollback takes the checkpoint finalized last and a
\* finalization finds a free name, however the clock jumps.
NamesInOrder == part = "checkpoints" => N!RollbackTakesNewest /\ N!NameIsFree
=============================================================================

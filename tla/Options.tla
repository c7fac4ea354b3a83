------------------------------- MODULE Options -------------------------------
(***************************************************************************)
(* Options and plugins: what the command line asks for, what the renewal   *)
(* file of a certificate adds, which plugins are picked from what works on *)
(* the machine, and what is written back for the next renewal.  Commands   *)
(* for one certificate follow each other; between them plugins may break   *)
(* and be mended.                                                          *)
(***************************************************************************)
EXTENDS Naturals, FiniteSets

CONSTANTS Plugins,      \* records: name, auth, inst (what the class implements), shown
          Machines,     \* what prepare() of each plugin may come to
          CommandLines, \* records as NoCommand; flags are <<"auth", name>>, <<"inst", name>>
                        \* and <<"both", name>>
          MaxCommands   \* bound

VARIABLES
  machine,   \* for each plugin: "ok", "misconfigured" or "missing"
  file,      \* renewalparams of the certificate; Nothing when there is none
  cli,       \* the command line
  config,    \* the configuration as it is by now
  picked,    \* the plugins picked: [auth, inst]
  wanted,    \* what was in force for the certificate when it was last issued
  pc, commands, ended

vars == <<machine, file, cli, config, picked, wanted, pc, commands, ended>>

None == "None"
Unset == "unset"           \* _Default(), or a key that is not in the file
Names == {p.name : p \in Plugins}
DefaultServer == "v01"
Staging == "staging"
DefaultSize == "2048"
Nothing == [auth |-> Unset, inst |-> Unset, server |-> Unset, account |-> Unset, size |-> Unset]
Servers == {DefaultServer, Staging, "other"}

-----------------------------------------------------------------------------
(* The command line: prepare_and_parse_args, cli_plugin_requests. *)

\* set_configurator: two flags that name different plugins for one role conflict.
Asked(role, flags) == {f[2] : f \in {g \in flags : g[1] \in {role, "both"}}}
Conflict(auth, inst) == \E asked \in {auth, inst} : \E p, q \in asked : p # q
The(S) == IF S = {} THEN None ELSE CHOOSE x \in S : TRUE

\* set_test_server, and the checks of parse_args.
ParseError(c) ==
  \/ c.verb = "renew" /\ c.force
  \/ c.test # "no" /\ c.server \notin {Unset, DefaultServer, Staging}
  \/ c.test = "dry-run" /\ c.verb \notin {"certonly", "renew"}
Server(c) == IF c.test # "no" THEN Staging ELSE IF c.server = Unset THEN DefaultServer ELSE c.server

\* set_by_cli: given, or one of its VAR_MODIFIERS was, and so on.
SetByCli(item) ==
  CASE item = "auth" -> Asked("auth", cli.flags) # {}
    [] item = "inst" -> Asked("inst", cli.flags) # {}
    [] item = "server" -> cli.server # Unset \/ cli.test # "no"
    [] item = "account" -> cli.account # Unset \/ cli.server # Unset \/ cli.test # "no"
    [] item = "size" -> cli.size # Unset

\* What a given option, or else the default, is.
Parsed(c) ==
  [auth |-> None, inst |-> None, server |-> Server(c),
   account |-> IF c.account = Unset THEN None ELSE c.account,
   size |-> IF c.size = Unset THEN DefaultSize ELSE c.size]

-----------------------------------------------------------------------------

TypeOK ==
  /\ machine \in Machines /\ DOMAIN file = DOMAIN Nothing
  /\ file.auth \in Names \cup {Unset} /\ file.inst \in Names \cup {None, Unset}
  /\ picked \in [auth : Names \cup {None}, inst : Names \cup {None}]
  /\ pc \in {"idle", "restore", "request", "installer", "authenticator", "account", "save"}
  /\ ended \in {"", "usage", "conflict", "no plugin", "installed", "no account", "saved", "dry run"}

NoCommand == [verb |-> "none", flags |-> {}, server |-> Unset, test |-> "no", account |-> Unset,
              size |-> Unset, force |-> FALSE, batch |-> FALSE]
Init == /\ machine \in Machines /\ file = Nothing /\ cli = NoCommand /\ config = Parsed(NoCommand)
        /\ picked = [auth |-> None, inst |-> None] /\ wanted = Nothing
        /\ pc = "idle" /\ commands = 0 /\ ended = ""

End(how) == pc' = "idle" /\ ended' = how

\* The machine may change between commands.
Command(c) ==
  /\ pc = "idle" /\ commands < MaxCommands /\ commands' = commands + 1
  /\ c.verb = "renew" => file # Nothing
  /\ cli' = [c EXCEPT !.batch = @ \/ c.verb = "renew"]
  /\ machine' \in Machines /\ config' = Parsed(c) /\ picked' = [auth |-> None, inst |-> None]
  /\ IF ParseError(c) THEN End("usage")
     ELSE pc' = (IF c.verb = "renew" THEN "restore" ELSE "request") /\ ended' = ""
  /\ UNCHANGED <<file, wanted>>

\* restore_required_config_elements: what the file has, unless it was given now.
Restored(item) == file[item] # Unset /\ ~ SetByCli(item)
Restore ==
  /\ pc = "restore" /\ pc' = "request"
  /\ config' = [i \in DOMAIN Nothing |-> IF Restored(i) THEN file[i] ELSE config[i]]
  /\ UNCHANGED <<machine, file, cli, picked, wanted, commands, ended>>

\* cli_plugin_requests, with what the file has said.
AuthAsked == Asked("auth", cli.flags) \cup ({config.auth} \ {None})
InstAsked == Asked("inst", cli.flags) \cup ({config.inst} \ {None})
Request ==
  /\ pc = "request" /\ UNCHANGED <<machine, file, cli, picked, wanted, commands>>
  /\ IF Conflict(AuthAsked, InstAsked) THEN End("conflict") /\ UNCHANGED config
     ELSE /\ config' = [config EXCEPT !.auth = The(AuthAsked), !.inst = The(InstAsked)]
          /\ IF cli.verb = "run" /\ The(AuthAsked) # None /\ The(InstAsked) = None
                /\ ~ (CHOOSE p \in Plugins : p.name = The(AuthAsked)).inst
             THEN End("usage")             \* noninstaller_plugins
             ELSE pc' = "installer" /\ UNCHANGED ended

-----------------------------------------------------------------------------
(* pick_plugin: of the plugin asked for, or of those shown, the ones that     *)
(* implement the interfaces and can be prepared; of several the user picks.   *)

Implements(p, roles) == ("auth" \in roles => p.auth) /\ ("inst" \in roles => p.inst)
Prepared(asked, roles) ==
  {p.name : p \in {q \in Plugins : /\ IF asked # None THEN q.name = asked ELSE q.shown
                                   /\ Implements(q, roles) /\ machine[q.name] # "missing"}}
Working(names) == {n \in names : machine[n] = "ok"}
\* The outcomes; None: nothing can be used, or the user picks nothing.
Pick(asked, roles) ==
  LET prepared == Prepared(asked, roles)
  IN IF asked = None /\ cli.batch THEN {}  \* MissingCommandlineFlag
     ELSE IF Cardinality(prepared) > 1 THEN Working(prepared) \cup {None}
     ELSE IF Working(prepared) # {} THEN Working(prepared) ELSE {None}

Same == cli.verb = "run" /\ config.auth = config.inst
NeedsInst == cli.verb \in {"run", "install"}
NeedsAuth == cli.verb \in {"run", "certonly", "renew"}

\* choose_configurator_plugins; a plugin that is needed and was not found is an
\* error, one that was only asked for is not.
PickInstaller ==
  /\ pc = "installer" /\ UNCHANGED <<machine, file, cli, config, wanted, commands>>
  /\ IF Same
     THEN LET found == Pick(config.inst, {"auth", "inst"})
          IN \/ \E n \in found \ {None} : picked' = [auth |-> n, inst |-> n] /\ pc' = "account" /\ UNCHANGED ended
             \/ (None \in found \/ found = {}) /\ End("no plugin") /\ UNCHANGED picked
     ELSE IF ~ NeedsInst /\ config.inst = None THEN pc' = "authenticator" /\ UNCHANGED <<picked, ended>>
     ELSE LET found == Pick(config.inst, {"inst"})
          IN \/ \E n \in found : /\ NeedsInst => n # None
                                 /\ picked' = [picked EXCEPT !.inst = n] /\ UNCHANGED ended
                                 /\ pc' = "authenticator"
             \/ (found = {} \/ (NeedsInst /\ None \in found)) /\ End("no plugin") /\ UNCHANGED picked
PickAuthenticator ==
  /\ pc = "authenticator" /\ UNCHANGED <<machine, file, cli, config, wanted, commands>>
  /\ IF ~ NeedsAuth THEN pc' = "account" /\ UNCHANGED <<picked, ended>>
     ELSE LET found == Pick(config.auth, {"auth"})
          IN \/ \E n \in found \ {None} :
                  picked' = [picked EXCEPT !.auth = n] /\ pc' = "account" /\ UNCHANGED ended
             \/ (None \in found \/ found = {}) /\ End("no plugin") /\ UNCHANGED picked

-----------------------------------------------------------------------------

\* record_chosen_plugins, _determine_account: an account of the server is found
\* or made, unless one is named, which must be the server's.  (Accounts bear the
\* names of their servers.)
AccountOf(server) == server
Account ==
  /\ pc = "account" /\ UNCHANGED <<machine, file, cli, picked, wanted, commands>>
  /\ config' = [config EXCEPT !.auth = picked.auth, !.inst = picked.inst,
                              !.account = IF @ = None THEN AccountOf(config.server) ELSE @]
  /\ IF cli.verb = "install" \/ config.account \notin {None, AccountOf(config.server)}
     THEN End(IF cli.verb = "install" THEN "installed" ELSE "no account") ELSE pc' = "save" /\ UNCHANGED ended

\* relevant_values: what was given, or is not the default.
Default(item) == CASE item = "server" -> DefaultServer [] item = "size" -> DefaultSize [] OTHER -> Unset
IsSet(item) == SetByCli(item) \/ config[item] # Default(item)
OnlyGiven(item) == SetByCli(item)          \* mutant: what came from the file is not kept
OptionWasSet(item) == IsSet(item)
Save ==
  /\ pc = "save" /\ UNCHANGED <<machine, cli, config, picked, commands>>
  /\ IF cli.test = "dry-run" THEN End("dry run") /\ UNCHANGED <<file, wanted>>
     ELSE /\ file' = [i \in DOMAIN Nothing |-> IF OptionWasSet(i) THEN config[i] ELSE Unset]
          /\ wanted' = config /\ End("saved")

Over == pc = "idle" /\ commands = MaxCommands /\ UNCHANGED vars
Next == (\E c \in CommandLines : Command(c)) \/ Restore \/ Request \/ PickInstaller
        \/ PickAuthenticator \/ Account \/ Save \/ Over
Spec == Init /\ [][Next]_vars

-----------------------------------------------------------------------------
(* Properties. *)

Renewing == pc = "save" /\ cli.verb = "renew" /\ cli.test # "dry-run"

\* A renewal never takes another authenticator than the certificate's, nor a web
\* server it was not installed in, unless the command line names one.
KeepsPlugins ==
  Renewing => /\ Asked("auth", cli.flags) = {} => picked.auth = wanted.auth
              /\ Asked("inst", cli.flags) = {} => picked.inst \in {wanted.inst, None}
\* (As documented: and it keeps the installer.)
KeepsInstaller ==
  Renewing /\ Asked("inst", cli.flags) = {} => picked.inst = wanted.inst

\* Whatever a renewal file leaves out, the next renewals use the options that
\* were in force when the certificate was issued, except those given anew.
SameOptionsStep ==
  Renewing =>
      /\ wanted'.size = IF cli.size # Unset THEN cli.size ELSE wanted.size
      /\ wanted'.server = IF cli.server # Unset \/ cli.test # "no" THEN Server(cli)
                         ELSE wanted.server
SameOptions == [][SameOptionsStep]_vars

\* A renewal is not sent to one server with the account of another.
AccountFits == ended = "no account" => cli.account # Unset

\* Flags are refused only if they contradict each other: those of the command
\* line replace what the renewal file has.
NoFalseConflict ==
  ended = "conflict" => Conflict(Asked("auth", cli.flags), Asked("inst", cli.flags))
=============================================================================

------------------------------- MODULE Renewal -------------------------------
(***************************************************************************)
(* `certbot renew`: every renewal file is read, its lineage renewed if it  *)
(* is due, and hooks are run around the attempts: pre-hooks once, before   *)
(* the first attempt that asks for them; deploy hooks for each new         *)
(* certificate; post-hooks once, after the last attempt, however it ended. *)
(* Commands follow each other, and may be interrupted at any step, while   *)
(* the post-hooks are saved up or run as well, or killed.                  *)
(***************************************************************************)
EXTENDS Naturals, Sequences, SequencesExt

CONSTANTS Files,      \* the lineages, in the order of their renewal files
          Confs,      \* the sets of renewal parameters a file may hold
          CommandLines,    \* what the command line may ask for
          MaxRuns     \* bound: commands

VARIABLES
  readable,   \* which files can be parsed and have an authenticator
  due,        \* the lineages that are near to their expiry
  conf,       \* the parameters of each renewal file
  archive,    \* the issuer of each version
  live,       \* the version the links lead to
  served,     \* the version the web server has loaded
  opts,       \* the command line
  queue,      \* the files not yet treated
  eff,        \* lineage_config: the parameters in use for the file treated now
  hooksLeft,  \* what is left of a list of hooks
  already,    \* pre_hook.already
  eventually, \* post_hook.eventually
  ran,        \* the hooks run by this command: <<kind, command>>
  owed,       \* the post-hooks of the attempts made
  outcome,    \* the list a file was put on
  failing,    \* an exception is on its way through renew_cert
  aborted,    \* how the command was stopped: see Stops
  runs, pc

store == <<conf, archive, live>>
world == <<readable, due, opts, runs>>
hooks == <<hooksLeft, already, eventually, ran, owed>>
vars == <<readable, due, conf, archive, live, served, opts, queue, eff, hooksLeft, already,
          eventually, ran, owed, outcome, failing, aborted, runs, pc>>

Names == ToSet(Files)
\* A command is not stopped; interrupted; interrupted while the post-hooks are
\* saved up or run; killed.
Stops == {"no", "interrupted", "cut short", "killed"}
NoHook == "none"
cur == Head(queue)
\* Hooks found in the directories, when these are used.
PreDir == IF opts.dirs THEN <<"P">> ELSE <<>>
PostDir == IF opts.dirs THEN <<"Q">> ELSE <<>>
DeployDir == IF opts.dirs THEN <<"R">> ELSE <<>>
With(dir, cmd) == IF cmd = NoHook THEN dir ELSE Append(dir, cmd)

-----------------------------------------------------------------------------
(* Reading a renewal file. *)

Given(option, stored) == IF option # NoHook THEN option ELSE stored

LineageConfig == [pre |-> NoHook, post |-> NoHook, renew |-> NoHook]

\* restore_required_config_elements: the file's value, unless the command line
\* has one; --staging and --dry-run count as a server.
Restore(l) ==
  LET keep(f) == Given(conf[l][f], LineageConfig[f])
  IN [pre |-> Given(opts.pre, keep("pre")), post |-> keep("post"),
      renew |-> Given(opts.renew, keep("renew")),
      srv |-> IF opts.staging \/ opts.dry THEN "test" ELSE conf[l].srv, inst |-> conf[l].inst]

LatestCommonVersion(l) == Len(archive[l])

ShouldRenew(l) == opts.force \/ l \in due \/ opts.dry

-----------------------------------------------------------------------------

TypeOK ==
  /\ due \subseteq Names
  /\ conf \in [Names -> {[c EXCEPT !.pre = IF given THEN "C" ELSE @, !.srv = IF test THEN "test" ELSE @,
                                                !.inst = @ /\ kept] :
                             c \in Confs, given \in BOOLEAN, test \in BOOLEAN, kept \in BOOLEAN}]
  /\ \A l \in Names : live[l] \in 1..Len(archive[l]) /\ served[l] \in 1..Len(archive[l])
  /\ outcome \in [Names -> {"none", "success", "failure", "skipped", "parse"}]
  /\ aborted \in Stops
  /\ pc \in {"next", "plugins", "pre", "obtain", "saved", "deploy", "post", "reload", "saved hooks", "exit"}

Fresh == /\ queue = (IF opts.name = "all" THEN Files ELSE <<opts.name>>)
         /\ eff = <<>> /\ hooksLeft = <<>> /\ already = {} /\ eventually = <<>> /\ ran = <<>>
         /\ owed = {} /\ outcome = [l \in Names |-> "none"] /\ failing = FALSE /\ aborted = "no"

Init ==
  /\ readable \in SUBSET Names /\ due \in SUBSET Names /\ conf \in [Names -> Confs]
  \* A lineage may have begun on a test server and got a real certificate since.
  /\ archive \in {a \in [Names -> {<<"prod">>, <<"test">>}] :
                    \A l \in Names : conf[l].srv = "prod" => a[l] = <<"prod">>}
  /\ live = [l \in Names |-> 1]
  /\ served = [l \in Names |-> 1] /\ opts \in CommandLines /\ Fresh /\ runs = 1 /\ pc = "next"

\* The next `certbot renew`, a process of its own; others may be due by then.
Again ==
  /\ pc = "exit" /\ runs < MaxRuns /\ runs' = runs + 1 /\ pc' = "next"
  /\ opts' \in CommandLines /\ queue' = (IF opts'.name = "all" THEN Files ELSE <<opts'.name>>)
  /\ eff' = <<>> /\ hooksLeft' = <<>> /\ already' = {} /\ eventually' = <<>> /\ ran' = <<>>
  /\ owed' = {} /\ outcome' = [l \in Names |-> "none"] /\ failing' = FALSE /\ aborted' = "no"
  /\ \E more \in SUBSET Names : due' = due \cup more
  /\ UNCHANGED <<readable, store, served>>

\* The except clauses of the loop: the file goes on a list, the next one follows.
Conclude(list) ==
  /\ outcome' = [outcome EXCEPT ![cur] = list]
  /\ queue' = Tail(queue) /\ pc' = "next" /\ failing' = FALSE
StopAtError(list) ==                       \* mutant: an error ends the loop
  /\ outcome' = [outcome EXCEPT ![cur] = list]
  /\ queue' = (IF list = "failure" THEN <<>> ELSE Tail(queue)) /\ pc' = "next" /\ failing' = FALSE
Put(list) == Conclude(list)

\* _reconstitute, ensure_deployed, should_renew.
Reconstitute ==
  /\ pc = "next" /\ queue # <<>>
  /\ IF cur \notin readable THEN Put("parse") /\ UNCHANGED <<eff, live>>
     ELSE /\ eff' = Restore(cur)
          /\ live' = [live EXCEPT ![cur] = LatestCommonVersion(cur)]
          /\ IF ShouldRenew(cur) THEN pc' = "plugins" /\ UNCHANGED <<outcome, queue, failing>>
                                 ELSE Put("skipped")
  /\ UNCHANGED <<world, conf, archive, served, hooks, aborted>>

\* choose_configurator_plugins, _init_le_client.  An installer that cannot be used
\* is left out (see Options).
ChoosePlugins(ok, usable) ==
  /\ pc = "plugins" /\ eff' = (IF usable THEN eff ELSE [eff EXCEPT !.inst = FALSE])
  /\ IF ok THEN pc' = "pre" /\ hooksLeft' = With(PreDir, eff.pre) /\ UNCHANGED <<outcome, queue, failing>>
           ELSE Put("failure") /\ UNCHANGED hooksLeft
  /\ UNCHANGED <<world, store, served, already, eventually, ran, owed, aborted>>

\* pre_hook: one command of the list, unless this process has run it.
RunPreHook ==
  /\ pc = "pre" /\ hooksLeft # <<>> /\ hooksLeft' = Tail(hooksLeft)
  /\ IF Head(hooksLeft) \in already THEN UNCHANGED <<already, ran>>
     ELSE already' = already \cup {Head(hooksLeft)} /\ ran' = Append(ran, <<"pre", Head(hooksLeft)>>)
  /\ UNCHANGED <<world, store, served, queue, eff, eventually, owed, outcome, failing, aborted, pc>>

BeginObtain ==
  /\ pc = "pre" /\ hooksLeft = <<>> /\ pc' = "obtain"
  /\ owed' = owed \cup ToSet(With(PostDir, eff.post))
  /\ UNCHANGED <<world, store, served, queue, eff, hooksLeft, already, eventually, ran, outcome, failing, aborted>>

\* _avoid_invalidating_lineage: no test certificate in place of a valid one.
Invalidates ==
  /\ eff.srv = "test" /\ ~ opts.break /\ ~ opts.dry
  /\ conf[cur].srv = "prod" \/ archive[cur][live[cur]] = "prod"
ByServerOnly ==                            \* mutant: the certificate is not looked at
  eff.srv = "test" /\ ~ opts.break /\ ~ opts.dry /\ conf[cur].srv = "prod"
AvoidInvalidating == Invalidates

\* What a renewal writes: nothing in a dry run.
DryRun == opts.dry

\* renew_hook: the hooks of the directory, then the file's, unless it was one of them.
DeployHooks == With(DeployDir, IF eff.renew \in ToSet(DeployDir) THEN NoHook ELSE eff.renew)
AllHooks == With(DeployDir, eff.renew)     \* mutant: the file's hook in any case
RenewHook == DeployHooks

\* renew_cert of renewal.py up to the new version and the new parameters.
Obtain(ok) ==
  /\ pc = "obtain"
  /\ IF ~ ok \/ AvoidInvalidating THEN failing' = TRUE /\ pc' = "post" /\ UNCHANGED <<archive, conf, due>>
     ELSE /\ UNCHANGED failing
          /\ IF DryRun THEN pc' = "deploy" /\ UNCHANGED <<archive, conf, due>>
             ELSE /\ archive' = [archive EXCEPT ![cur] = Append(@, eff.srv)]
                  /\ conf' = [conf EXCEPT ![cur] = eff] /\ due' = due \ {cur} /\ pc' = "saved"
  /\ hooksLeft' = IF opts.dry THEN <<>> ELSE RenewHook
  /\ UNCHANGED <<readable, opts, runs, live, served, queue, eff, already, eventually, ran, owed, outcome, aborted>>

\* update_all_links_to(latest_common_version()).
Link ==
  /\ pc = "saved" /\ live' = [live EXCEPT ![cur] = LatestCommonVersion(cur)] /\ pc' = "deploy"
  /\ UNCHANGED <<world, conf, archive, served, queue, eff, hooks, outcome, failing, aborted>>

RunDeployHook ==
  /\ pc = "deploy" /\ hooksLeft # <<>> /\ hooksLeft' = Tail(hooksLeft)
  /\ ran' = Append(ran, <<"deploy", cur, Head(hooksLeft)>>)
  /\ UNCHANGED <<world, store, served, queue, eff, already, eventually, owed, outcome, failing, aborted, pc>>
Deployed ==
  /\ pc = "deploy" /\ hooksLeft = <<>> /\ pc' = "post"
  /\ UNCHANGED <<world, store, served, queue, eff, hooks, outcome, failing, aborted>>

\* post_hook of the renew verb, in a finally clause: kept for later, each command
\* once.  Afterwards the exception, or the interrupt, goes on.
RunEventually(es, h) == IF h \in ToSet(es) THEN es ELSE Append(es, h)
DirHooks == IF opts.dirs THEN RunEventually(eventually, "Q") ELSE eventually
PostHooks == IF eff.post = NoHook THEN DirHooks ELSE RunEventually(DirHooks, eff.post)

PostHook ==
  /\ pc = "post" /\ eventually' = PostHooks
  /\ IF aborted = "no" /\ failing THEN Put("failure")
     ELSE /\ pc' = (IF aborted = "no" THEN "reload" ELSE "saved hooks")
          /\ UNCHANGED <<outcome, queue, failing>>
  /\ UNCHANGED <<world, store, served, eff, hooksLeft, already, ran, owed, aborted>>

\* main.renew_cert: the web server is told, if there is one; it loads what it uses.
RestartServer == served' = live
Reload(ok) ==
  /\ pc = "reload"
  /\ IF ~ eff.inst THEN Put("success") /\ UNCHANGED served
     ELSE IF ok THEN RestartServer /\ Put("success")
     ELSE Put("failure") /\ UNCHANGED served
  /\ UNCHANGED <<world, store, eff, hooks, aborted>>

\* KeyboardInterrupt passes the loop; the finally clauses are on its way.
Interrupt ==
  /\ pc # "exit"
  /\ \/ /\ pc \in {"obtain", "saved", "deploy"} /\ pc' = "post" /\ failing' = TRUE
        /\ aborted' = "interrupted" /\ UNCHANGED eventually
     \/ /\ pc \in {"next", "plugins", "pre", "reload"} /\ pc' = "saved hooks"
        /\ aborted' = "interrupted" /\ UNCHANGED <<eventually, failing>>
     \* post_hook: those of the directory may be kept already.
     \/ /\ pc = "post" /\ pc' = "saved hooks" /\ eventually' \in {eventually, DirHooks}
        /\ aborted' = "cut short" /\ UNCHANGED failing
     \* run_saved_post_hooks: the others are not run.
     \/ /\ pc = "saved hooks" /\ pc' = "exit" /\ aborted' = "cut short"
        /\ UNCHANGED <<eventually, failing>>
  /\ UNCHANGED <<world, store, served, queue, eff, hooksLeft, already, ran, owed, outcome>>

EndOfLoop ==
  /\ pc = "next" /\ queue = <<>> /\ pc' = "saved hooks"
  /\ UNCHANGED <<world, store, served, queue, eff, hooks, outcome, failing, aborted>>

\* run_saved_post_hooks
RunSavedPostHook ==
  /\ pc = "saved hooks"
  /\ IF eventually = <<>> THEN pc' = "exit" /\ UNCHANGED <<eventually, ran>>
     ELSE eventually' = Tail(eventually) /\ ran' = Append(ran, <<"post", Head(eventually)>>) /\ UNCHANGED pc
  /\ UNCHANGED <<world, store, served, queue, eff, hooksLeft, already, owed, outcome, failing, aborted>>

\* SIGKILL, or a power cut: nothing is cleaned up.
Kill ==
  /\ pc # "exit" /\ pc' = "exit" /\ aborted' = "killed"
  /\ UNCHANGED <<world, store, served, queue, eff, hooks, outcome, failing>>

Certbot ==
  \/ Reconstitute \/ RunPreHook \/ BeginObtain \/ Link \/ RunDeployHook \/ Deployed \/ PostHook
  \/ EndOfLoop \/ RunSavedPostHook
  \/ \E ok \in BOOLEAN : Obtain(ok) \/ Reload(ok) \/ \E usable \in BOOLEAN : ChoosePlugins(ok, usable)
Over == pc = "exit" /\ UNCHANGED vars
Next == Certbot \/ Interrupt \/ Kill \/ Again \/ Over
Spec == Init /\ [][Next]_vars

-----------------------------------------------------------------------------
(* Properties. *)

\* Whenever a certificate is obtained, the pre-hooks that prepare for it have
\* been run, and no post-hook has undone them.
Prepared ==
  pc = "obtain" => /\ \A h \in ToSet(With(PreDir, eff.pre)) : <<"pre", h>> \in ToSet(ran)
                   /\ \A i \in DOMAIN ran : ran[i][1] # "post"

\* A command that ends has run the post-hooks of all its attempts, whether
\* they succeeded, failed or were interrupted, unless it was killed, or an interrupt
\* came while these hooks were saved up or run; no hook was run twice for one
\* purpose.
PostHooksRun == pc = "exit" => \A h \in owed : <<"post", h>> \in ToSet(ran)
Balanced ==
  /\ aborted \in {"no", "interrupted"} => PostHooksRun
  /\ \A i, j \in DOMAIN ran : i # j => ran[i] # ran[j]

\* ... by an interrupt at any time.  The code does not keep this: another interrupt
\* leaves the rest of the saved hooks out.
PostHooksAnyway == aborted # "killed" => PostHooksRun

\* A dry run saves no certificate, changes no renewal file and runs no deploy hook.
\* What it may do is to put in place what an earlier command has saved and could not
\* deploy, and to let the web server load it.
DryRunHarmlessStep ==
  opts.dry =>
    /\ UNCHANGED <<conf, archive>> /\ \A i \in DOMAIN ran' : ran'[i][1] # "deploy"
    /\ \A l \in Names : /\ live'[l] \in {live[l], Len(archive[l])}
                         /\ served'[l] \in {served[l], live[l]}
DryRunHarmless == [][DryRunHarmlessStep]_vars

\* A valid certificate is replaced by one of a test server only on request.
ValidStaysStep ==
  \A l \in Names : archive'[l] # archive[l] /\ Last(archive'[l]) = "test" /\ archive[l][live[l]] = "prod"
      => opts.break
ValidStays == [][ValidStaysStep]_vars

\* A renewal changes of a lineage's parameters what the command line said, and
\* no other lineage's parameters find their way into it.
OwnParametersStep ==
  \A l \in Names : conf'[l] # conf[l] =>
      /\ conf'[l].pre \in {conf[l].pre, opts.pre} /\ conf'[l].post = conf[l].post
      /\ conf'[l].renew \in {conf[l].renew, opts.renew}
      /\ conf'[l].srv # conf[l].srv => opts.staging
OwnParameters == [][OwnParametersStep]_vars

\* A command that comes to its end has treated every file, whatever happened to
\* the others, and what it calls a success is in use (a dry run reloads the web
\* server only if it can be used just then).
ReportIsTrue ==
  pc = "exit" /\ aborted = "no" =>
    \A l \in Names :
      /\ outcome[l] = "none" => opts.name \notin {"all", l}
      /\ outcome[l] = "success" => live[l] = Len(archive[l]) /\ (conf[l].inst /\ ~ opts.dry => served[l] = live[l])
      /\ outcome[l] = "skipped" => l \notin due
=============================================================================

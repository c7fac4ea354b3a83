--------------------------- MODULE ApacheInstall ---------------------------
(***************************************************************************)
(* The Apache plugin: like the nginx plugin it edits virtual hosts for a   *)
(* challenge, a certificate and its enhancements, but it also enables      *)
(* modules and sites at once, keeps what it knows of the server (vhosts,   *)
(* modules, the vhost chosen for a domain) across these steps, and makes a *)
(* checkpoint only of what changed.                                        *)
(***************************************************************************)
EXTENDS Naturals, Sequences, FiniteSets, FiniteSetsExt, SequencesExt

CONSTANT Servers          \* the configurations a run starts with

VARIABLES
  orig,       \* the server found, of ServerState
  mem,        \* the Augeas tree and self.vhosts: [cfg, listen]
  disk,       \* the files and the modules enabled
  running,    \* what Apache serves: the server at its last good reload
  modules,    \* ApacheParser.modules
  assoc,      \* ApacheConfigurator.assoc: 0 or the index of the vhost
  enhanced,   \* _enhanced_vhosts["redirect"]
  ancestor,   \* VirtualHost.ancestor of a vhost made in this run, or 0
  temp, prog, \* temporary checkpoint, checkpoint in progress: {} or {server}
  stack,      \* finalized checkpoints, the newest last
  debian,     \* DebianConfigurator: enables modules and sites
  doms, chal, enh,   \* what the run is asked for
  out,        \* ApacheConfigurator._chall_out
  todo, trouble, pc

know == <<modules, assoc, enhanced, ancestor>>
files == <<disk, temp, prog, stack>>
asked == <<orig, debian, doms, chal, enh>>
vars == <<orig, mem, disk, running, modules, assoc, enhanced, ancestor, temp, prog, stack,
          debian, doms, chal, enh, out, todo, trouble, pc>>

Domains == {"a", "b"}
Zdomain == [d \in Domains |-> IF d = "a" THEN "za" ELSE "zb"]    \* of tls-sni-01
Mods == {"ssl", "rewrite", "headers", "socache"}
Vhost(names, port) ==
  [names |-> names, wild |-> FALSE, port |-> port, enabled |-> TRUE, cert |-> "none",
   toHttps |-> FALSE, rule |-> "none", conds |-> {}, header |-> FALSE, stapled |-> FALSE,
   answers |-> FALSE]
VirtualHost ==
  [names : SUBSET {"a", "b", "za", "zb"}, wild : BOOLEAN, port : {80, 443}, enabled : BOOLEAN,
   cert : {"none", "site", "challenge", "le"}, toHttps : BOOLEAN, rule : {"none", "old", "certbot"},
   conds : SUBSET Domains, header : BOOLEAN, stapled : BOOLEAN, answers : BOOLEAN]
\* `other`: another site's entry is enabled under the name of the link that the
\* plugin makes to enable the virtual host it creates.
ServerState ==
  [cfg : Seq(VirtualHost), listen : SUBSET {80, 443}, mods : SUBSET Mods, other : BOOLEAN]

-----------------------------------------------------------------------------
(* What Apache does with a configuration. *)

Matches(v, h) == h \in v.names \/ (v.wild /\ h \in Domains)

\* The virtual host that answers a request for h at port p, or 0: the first
\* that has the name, or else the first.
Serve(s, p, h) ==
  LET at == {i \in DOMAIN s.cfg : /\ s.cfg[i].enabled /\ s.cfg[i].port = p /\ p \in s.listen
                                  /\ p = 443 => "ssl" \in s.mods}
      named == {i \in at : Matches(s.cfg[i], h)}
  IN IF named # {} THEN Min(named) ELSE IF at # {} THEN Min(at) ELSE 0

\* A request for h that this virtual host answers is sent to https.
Redirects(v, h) == v.toHttps \/ (v.rule # "none" /\ (v.conds = {} \/ h \in v.conds))

\* configtest: every directive used belongs to a module that is loaded.
Provided(v, mods) ==
  /\ v.toHttps \/ v.rule # "none" \/ v.answers => "rewrite" \in mods
  /\ v.header => "headers" \in mods
  /\ v.stapled => "socache" \in mods
Loads(s) ==
  \A i \in DOMAIN s.cfg :
    s.cfg[i].enabled /\ (s.cfg[i].port = 443 => "ssl" \in s.mods) => Provided(s.cfg[i], s.mods)

-----------------------------------------------------------------------------
(* Edits: e.cfg, e.listen and e.mods are the server, e.at the vhost chosen,  *)
(* e.able the modules that a2enmod and a2dismod can handle, e.why what was   *)
(* raised; the rest is what the plugin keeps.                                *)

Able == {Mods} \cup {Mods \ {m} : m \in Mods}
Edit(able) ==
  [cfg |-> mem.cfg, listen |-> mem.listen, mods |-> disk.mods, modules |-> modules,
   assoc |-> assoc, enhanced |-> enhanced, ancestor |-> ancestor, at |-> 0, why |-> "ok",
   able |-> able]
Raise(e, why) == [e EXCEPT !.why = why]
Server(e) == [cfg |-> e.cfg, listen |-> e.listen, mods |-> e.mods, other |-> disk.other]

\* enable_mod, unless the module is known to be loaded: a2enmod may fail, and
\* nothing but Debian's plugin has it.
NeedMod(e, m) ==
  IF e.why # "ok" \/ m \in e.modules THEN e
  ELSE IF debian /\ m \in e.able THEN [e EXCEPT !.mods = @ \cup {m}, !.modules = @ \cup {m}]
  ELSE Raise(e, "error")

\* prepare_server_https: prepare_https_modules does nothing but on Debian.
HttpsMods(e) == IF debian THEN NeedMod(NeedMod(e, "socache"), "ssl") ELSE e
Listening(e, p) == [e EXCEPT !.listen = @ \cup {p}]      \* ensure_listen
PrepareServerHttps(e) == Listening(HttpsMods(e), 443)

\* _find_best_vhost among `cand`: points, and the only one when none has any.
\* Blocks without a name and _default_ addresses are not told apart here.
Points(v, h) == (IF h \in v.names THEN 3 ELSE IF v.wild THEN 2 ELSE 0)
                 + (IF v.port = 443 /\ Matches(v, h) THEN 3 ELSE 0)
FindBestVhost(c, cand, h) ==
  LET top == Max({0} \cup {Points(c[i], h) : i \in cand})
  IN IF top > 0 THEN Min({i \in cand : Points(c[i], h) = top})
     ELSE IF Cardinality(cand) = 1 THEN Min(cand) ELSE 0

\* make_vhost_ssl: a copy at port 443, without the rules that lead to https.
SiftRewriteRules(v) == [v EXCEPT !.toHttps = FALSE, !.rule = "none", !.conds = {}]
Made(e, v) == [e EXCEPT !.cfg = Append(@, v), !.at = Len(e.cfg) + 1]
NewVhost(e, v) == [Made(e, v) EXCEPT !.ancestor = Append(@, e.at)]
MakeVhostSsl(e) ==
  LET v == SiftRewriteRules([e.cfg[e.at] EXCEPT !.port = 443, !.enabled = ~ debian])
  IN NewVhost(e, v)

\* Addr.conflicts: an enabled vhost has the address.
Taken(e, p) == \E i \in DOMAIN e.cfg : e.cfg[i].enabled /\ e.cfg[i].port = p

\* _add_servername_alias
Named(v, d) == [v EXCEPT !.names = @ \cup (IF v.wild THEN {} ELSE {d})]

\* choose_vhost; `pick` is the user's choice among all vhosts when none fits, 0
\* when there is nobody to ask.  The name is added to a vhost that lacks it.
Alias(e, d) == [e EXCEPT !.cfg[e.at] = Named(@, d), !.assoc[d] = e.at]
SslOf(e) == IF e.cfg[e.at].port = 443 THEN e ELSE MakeVhostSsl(e)
Take(e, d, best, at) ==
  IF at \notin DOMAIN e.cfg \/ (best = 0 /\ e.cfg[at].port = 80 /\ Taken(e, 443))
  THEN Raise(e, "error")
  ELSE Alias(SslOf([e EXCEPT !.at = at]), d)
BestOr(e, d, best, pick) == Take(e, d, best, IF best # 0 THEN best ELSE pick)
ChooseVhost(e, d, pick) ==
  IF e.assoc[d] # 0 THEN [e EXCEPT !.at = e.assoc[d]]
  ELSE BestOr(e, d, FindBestVhost(e.cfg, DOMAIN e.cfg, d), pick)

\* enable_site: the link may fail, and does if its name is taken.  By then the
\* name is registered as that of a file the client makes.
EnableSite(e, linkFails) ==
  IF linkFails /\ ~ e.cfg[e.at].enabled THEN Raise(e, "registered")
  ELSE [e EXCEPT !.cfg[e.at].enabled = TRUE]

\* deploy_cert
GiveCert(e, linkFails) ==
  IF "ssl" \notin e.modules THEN Raise(e, "error")
  ELSE EnableSite([e EXCEPT !.cfg[e.at].cert = "le"], linkFails)
DeployTo(e, linkFails) == IF e.why # "ok" THEN e ELSE GiveCert(PrepareServerHttps(e), linkFails)
DeployCert(e, d, pick, linkFails) == DeployTo(ChooseVhost(e, d, pick), linkFails)

\* _set_http_header
SetHttpHeader(e) ==
  LET f == NeedMod(e, "headers")
  IN IF f.why # "ok" THEN f
     ELSE IF f.cfg[f.at].header THEN Raise(f, "present")
     ELSE [f EXCEPT !.cfg[f.at].header = TRUE]

\* VirtualHost.same_server; as a generic one, `v` is nameless.
SameServer(v, w) == v.names = w.names /\ v.wild = w.wild /\ (v.names # {} \/ v.wild)
Generic(v) == v.names = {} /\ ~ v.wild

\* _get_http_vhost: the one it was made from, one with the same names, or one
\* without a name.
GenericFirst(e) ==                         \* mutant: the nameless vhost before the others
  LET generic == {i \in DOMAIN e.cfg : e.cfg[i].port = 80 /\ Generic(e.cfg[i])}
  IN IF generic # {} THEN Min(generic) ELSE e.ancestor[e.at]
GetHttpVhost(e) ==
  LET plain == {i \in DOMAIN e.cfg : e.cfg[i].port = 80}
      same == {i \in plain : SameServer(e.cfg[i], e.cfg[e.at])}
      generic == {i \in plain : Generic(e.cfg[i])}
  IN IF e.ancestor[e.at] # 0 THEN e.ancestor[e.at]
     ELSE IF same # {} THEN Min(same) ELSE IF generic # {} THEN Min(generic) ELSE 0

\* The new rule, for the names of the ssl vhost.
Rule(e, at) == [e EXCEPT !.cfg[at].rule = "certbot",
                         !.cfg[at].conds = e.cfg[e.at].names, !.enhanced = @ \cup {at}]

\* _create_redirect_vhost: written to vhost_root, which on Debian is
\* sites-available, where nothing enables it.
CreateRedirectVhost(e) ==
  LET v == e.cfg[e.at]
      new == [Vhost(v.names, 80) EXCEPT !.rule = "certbot", !.enabled = ~ debian, !.wild = v.wild]
  IN [e EXCEPT !.cfg = Append(@, new), !.ancestor = Append(@, 0), !.enhanced = @ \cup {Len(e.cfg) + 1}]

\* _verify_no_certbot_redirect: an old rule is replaced on the way.
RuleFound(e, at) == Raise([e EXCEPT !.cfg[at].rule = "certbot"], "present")

\* _enable_redirect
EnableRedirect(e) ==
  LET f == NeedMod(e, "rewrite")
      at == GetHttpVhost(f)
  IN IF f.why # "ok" THEN f
     ELSE IF at = 0 THEN IF Taken(f, 80) THEN Raise(f, "error") ELSE CreateRedirectVhost(f)
     ELSE IF at \in f.enhanced THEN f
     ELSE IF f.cfg[at].rule # "none" THEN RuleFound(f, at) ELSE Rule(f, at)

\* _enable_ocsp_stapling, of a version that has it or not.
EnableStapling(e, version) ==
  LET f == NeedMod(e, "socache")
  IN IF ~ version THEN Raise(e, "error")
     ELSE IF f.why # "ok" THEN f ELSE [f EXCEPT !.cfg[f.at].stapled = TRUE]

\* ApacheHttp01: the vhost that is best for the domain answers, or all do.
HttpVhost(e, d) ==
  LET plain == {i \in DOMAIN e.cfg : e.cfg[i].port = 80}
      best == FindBestVhost(e.cfg, plain, d)
      answer(i) == i = best \/ (best = 0 /\ i \in plain)
  IN IF e.why # "ok" \/ plain = {} THEN Raise(e, "error")
     ELSE [e EXCEPT !.cfg = [i \in DOMAIN e.cfg |->
                              [e.cfg[i] EXCEPT !.answers = @ \/ answer(i)]]]
PrepareHttp(e) == Listening(IF debian THEN NeedMod(e, "rewrite") ELSE e, 80)

\* ApacheTlsSni01: a vhost of the challenge's own file, in front of nobody's name.
SniVhost(e, d) ==
  IF e.why # "ok" THEN e
  ELSE [e EXCEPT !.cfg = Append(@, [Vhost({Zdomain[d]}, 443) EXCEPT !.cert = "challenge"])]

-----------------------------------------------------------------------------
(* The client's run. *)

TypeOK ==
  /\ {orig, disk, running} \cup temp \cup prog \cup ToSet(stack) \subseteq ServerState
  /\ mem.cfg \in Seq(VirtualHost)
  /\ Len(ancestor) = Len(mem.cfg) /\ enhanced \subseteq DOMAIN mem.cfg
  /\ assoc \in [Domains -> 0..Len(mem.cfg)] /\ modules \subseteq Mods /\ out \subseteq Domains
  /\ trouble \subseteq {"challenge", "invalid", "deploy", "rolled back", "enhance", "not restored"}
  /\ pc \in {"perform", "raised", "challenged", "deploy", "deployed", "enhance", "enhanced", "done"}

Tree(s) == [cfg |-> s.cfg, listen |-> s.listen]
Init ==
  /\ orig \in Servers /\ mem = Tree(orig) /\ disk = orig /\ running = orig
  /\ modules = orig.mods /\ assoc = [d \in Domains |-> 0] /\ enhanced = {}
  /\ ancestor = [i \in DOMAIN orig.cfg |-> 0]
  /\ temp = {} /\ prog = {} /\ stack = <<>> /\ debian \in BOOLEAN
  /\ doms \in {<<"a">>, <<"a", "b">>} /\ chal \in {"http", "sni"}
  /\ enh \in {<<>>, <<"redirect">>, <<"hsts", "redirect", "staple">>}
  /\ out = {} /\ todo = doms /\ trouble = {} /\ pc = "perform"

\* restart: configtest, then the reload, which may fail for reasons of its own.
Restart(s, ok) == IF ok THEN Loads(s) /\ running' = s ELSE UNCHANGED running

\* perform: a failure leaves modules that are enabled, and their undo commands.
PutInPlace(x, ok) ==
  /\ IF x.why = "ok"
     THEN disk' = Server(x) /\ mem' = (IF chal = "http" THEN Tree(x) ELSE [mem EXCEPT !.listen = x.listen])
          /\ Restart(disk', ok)
     ELSE ~ ok /\ disk' = [disk EXCEPT !.mods = x.mods] /\ UNCHANGED <<mem, running>>
  /\ temp' = {disk} /\ modules' = x.modules
Vhosts(e, d) == IF chal = "http" THEN HttpVhost(e, d) ELSE SniVhost(e, d)
\* ... for the one or two domains of the certificate.
InTurn(e) == IF Len(doms) = 1 THEN Vhosts(e, doms[1]) ELSE Vhosts(Vhosts(e, doms[1]), doms[2])
Prepared(able) == IF chal = "http" THEN PrepareHttp(Edit(able)) ELSE PrepareServerHttps(Edit(able))
Perform(ok, able) ==
  /\ pc = "perform" /\ out' = ToSet(doms)
  /\ PutInPlace(InTurn(Prepared(able)), ok)
  /\ IF ok THEN pc' = "challenged" /\ UNCHANGED trouble
     ELSE pc' = "raised" /\ trouble' = {"challenge"}
  /\ UNCHANGED <<asked, assoc, enhanced, ancestor, prog, stack, todo>>

\* cleanup: the last challenge takes the configuration and the modules with it,
\* and the modules are read anew.
ResetModules(s) == s.mods
KeepModules(s) == modules                  \* mutant: no reset_modules
Reset(s) == ResetModules(s)

Cleanup(X, ok) ==
  /\ X # {} /\ X \subseteq out
  /\ pc = "challenged" \/ (pc = "raised" /\ X = out)
  /\ out' = out \ X
  /\ IF out' = {}
     THEN /\ disk' \in temp /\ temp' = {} /\ mem' = Tree(disk') /\ Restart(disk', ok)
          /\ modules' = IF ok THEN Reset(disk') ELSE modules
     ELSE ok /\ UNCHANGED <<disk, temp, mem, running, modules>>
  /\ trouble' = IF ok THEN trouble ELSE trouble \cup {"challenge"}
  /\ pc' = IF ~ ok \/ pc = "raised" THEN "done"
           ELSE IF out' = {} THEN "deploy" ELSE "challenged"
  /\ UNCHANGED <<asked, assoc, enhanced, ancestor, prog, stack, todo>>

Invalid == /\ pc = "deploy" /\ todo = doms /\ pc' = "done" /\ trouble' = {"invalid"}
           /\ UNCHANGED <<asked, files, know, mem, out, running, todo>>

\* What an edit comes to once it is saved: a checkpoint of what it changed.
Keep(e) == /\ mem' = Tree(Server(e)) /\ disk' = Server(e) /\ modules' = e.modules
           /\ assoc' = e.assoc /\ enhanced' = e.enhanced /\ ancestor' = e.ancestor
Begun(e) == IF prog = {} /\ Server(e) # disk THEN {disk} ELSE prog
Checkpoint(e) == prog' = Begun(e)

\* finalize_checkpoint: nothing in progress, no checkpoint.
Finalize == /\ prog' = {} /\ stack' = stack \o SetToSeq(prog)
            /\ UNCHANGED <<mem, disk, temp, know>>

\* recovery_routine: what is registered is removed, whoever made it; what the
\* plugin keeps is not looked at again.
Removed(s, why) == [cfg |-> s.cfg, listen |-> s.listen, mods |-> s.mods,
                    other |-> s.other /\ why # "registered"]
RecoverDisk(why) == disk' = Removed(IF prog = {} THEN disk ELSE CHOOSE s \in prog : TRUE, why)
Recover(why) ==
  /\ RecoverDisk(why) /\ mem' = Tree(disk') /\ prog' = {} /\ ancestor' = [i \in DOMAIN disk'.cfg |-> 0]
  /\ assoc' = [d \in Domains |-> 0] /\ enhanced' = {} /\ UNCHANGED modules

SaveOrRecover(e) ==
  IF e.why = "ok" THEN Keep(e) /\ Checkpoint(e) /\ todo' = Tail(todo) /\ UNCHANGED <<trouble, pc>>
  ELSE Recover(e.why) /\ trouble' = {"deploy"} /\ pc' = "done" /\ UNCHANGED todo
Deploy(pick, linkFails, able) ==
  /\ pc = "deploy" /\ todo # <<>> /\ (disk.other => linkFails)
  /\ SaveOrRecover(DeployCert(Edit(able), Head(todo), pick, linkFails))
  /\ UNCHANGED <<asked, out, running, temp, stack>>

SaveDeployed == /\ pc = "deploy" /\ todo = <<>> /\ Finalize /\ pc' = "deployed"
                /\ UNCHANGED <<asked, out, running, todo, trouble>>

\* _rollback_and_restart: one checkpoint, the newest there is.
Rollback(ok) ==
  /\ IF stack = <<>> THEN UNCHANGED <<disk, stack>>
     ELSE disk' = Last(stack) /\ stack' = Front(stack)
  /\ mem' = Tree(disk') /\ Restart(disk', ok) /\ prog' = {}
  /\ ancestor' = [i \in DOMAIN disk'.cfg |-> 0] /\ assoc' = [d \in Domains |-> 0] /\ enhanced' = {}
  /\ trouble' = IF ok THEN {"rolled back"} ELSE {"rolled back", "not restored"}
  /\ pc' = "done"

RestartDeployed(ok, again) ==
  /\ pc = "deployed"
  /\ IF ok THEN /\ Restart(disk, TRUE) /\ pc' = IF enh = <<>> THEN "done" ELSE "enhance"
                /\ todo' = [i \in 1..(Len(enh) * Len(doms)) |->
                             <<enh[((i - 1) \div Len(doms)) + 1], doms[((i - 1) % Len(doms)) + 1]>>]
                /\ UNCHANGED <<files, know, mem, trouble>>
     ELSE Rollback(again) /\ UNCHANGED <<temp, modules, todo>>
  /\ UNCHANGED <<asked, out>>

\* apply_enhancement: one enhancement for one domain; the checkpoint is
\* finalized after the last domain.
LastDomain == Len(todo) = 1 \/ todo[2][1] # todo[1][1]
Supported(e, kind, version) ==
  IF kind = "hsts" THEN SetHttpHeader(e)
  ELSE IF kind = "redirect" THEN EnableRedirect(e) ELSE EnableStapling(e, version)
KeepOrRecover(e) ==
  IF e.why # "error"
  THEN /\ Keep(e) /\ todo' = Tail(todo) /\ UNCHANGED <<trouble, pc>>
       /\ IF LastDomain THEN prog' = {} /\ stack' = stack \o SetToSeq(Begun(e))
                        ELSE prog' = Begun(e) /\ UNCHANGED stack
  ELSE /\ Recover(e.why) /\ trouble' = {"enhance"} /\ pc' = "done" /\ UNCHANGED <<todo, stack>>
Enhance(version, able) ==
  /\ pc = "enhance" /\ todo # <<>>
  /\ KeepOrRecover(Supported([Edit(able) EXCEPT !.at = assoc[Head(todo)[2]]], Head(todo)[1], version))
  /\ UNCHANGED <<asked, out, running, temp>>

RestartEnhanced(ok, again) ==
  /\ pc = "enhance" /\ todo = <<>>
  /\ IF ok THEN Restart(disk, TRUE) /\ pc' = "done" /\ UNCHANGED <<files, know, mem, trouble>>
     ELSE Rollback(again) /\ UNCHANGED <<temp, modules>>
  /\ UNCHANGED <<asked, out, todo>>

Over == pc = "done" /\ UNCHANGED vars
Client ==
  \/ Invalid \/ SaveDeployed
  \/ \E ok \in BOOLEAN, X \in SUBSET Domains : Cleanup(X, ok)
  \/ \E ok \in BOOLEAN, able \in Able : Perform(ok, able) \/ Enhance(ok, able)
  \/ \E pick \in 0..Len(mem.cfg), linkFails \in BOOLEAN, able \in Able : Deploy(pick, linkFails, able)
  \/ \E ok, again \in BOOLEAN : RestartDeployed(ok, again) \/ RestartEnhanced(ok, again)
Next == Client \/ Over
Spec == Init /\ [][Next]_vars

-----------------------------------------------------------------------------
(* Properties. *)

\* While its challenge is open, a domain's request finds the virtual host that
\* answers it; for tls-sni-01 only where Apache has mod_ssl, which no one but
\* Debian's plugin can load.
ChallengeReachable ==
  pc = "challenged" =>
    \A d \in out :
      IF chal = "http" THEN LET i == Serve(running, 80, d) IN i # 0 /\ running.cfg[i].answers
      ELSE "ssl" \in running.mods =>
             LET i == Serve(running, 443, Zdomain[d])
             IN i # 0 /\ Zdomain[d] \in running.cfg[i].names

\* A run without trouble ends with every domain of the certificate served by it.
HttpsServed ==
  pc = "done" /\ trouble = {} =>
    \A d \in ToSet(doms) : LET i == Serve(running, 443, d)
                           IN i # 0 /\ running.cfg[i].cert = "le"

\* ... and the plain requests redirected, if a virtual host in plain text has
\* the name.
RedirectedByName ==
  pc = "done" /\ trouble = {} /\ "redirect" \in ToSet(enh) =>
    \A d \in ToSet(doms) : (\E i \in DOMAIN orig.cfg : orig.cfg[i].port = 80 /\ Matches(orig.cfg[i], d))
                             => Redirects(running.cfg[Serve(running, 80, d)], d)

\* All requests in plain text are redirected, whoever answers them.
RedirectedAll ==
  pc = "done" /\ trouble = {} /\ "redirect" \in ToSet(enh) =>
    \A d \in ToSet(doms) : LET i == Serve(running, 80, d)
                           IN i # 0 => Redirects(running.cfg[i], d)

\* No redirect is a loop, on disk or in service.
LoopFree ==
  \A s \in {disk, running}, d \in Domains :
    LET i == Serve(s, 443, d) IN i # 0 => ~ Redirects(s.cfg[i], d)

\* Once the challenges are cleaned up, a directive is never saved without the
\* module it belongs to: what the plugin thinks is loaded is loaded.
Loadable == pc \in {"deploy", "deployed", "enhance"} => Loads(disk) /\ modules = disk.mods

\* A challenge or a deployment that fails leaves no file and no module behind and
\* takes none away; a checkpoint is never lost but by the rollback.
Undone == pc = "done" /\ (trouble \cap {"challenge", "invalid", "deploy"} # {}
                            \/ ("rolled back" \in trouble /\ stack = <<>>))
          => disk = orig
=============================================================================

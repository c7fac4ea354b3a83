---------------------------- MODULE NginxInstall ----------------------------
(***************************************************************************)
(* The nginx plugin edits the server blocks of a configuration: for a      *)
(* challenge (temporarily), to install a certificate, and to redirect or   *)
(* staple.  Each edit chooses a block by its names and addresses, by rules *)
(* that should agree with those by which nginx itself picks the block that *)
(* answers a request.  Client drives it: challenge, clean-up, deployment,  *)
(* enhancements, a restart after each and a rollback when one fails.       *)
(***************************************************************************)
EXTENDS Naturals, Sequences, FiniteSets, FiniteSetsExt, SequencesExt

CONSTANT Configs          \* the configurations a run starts with

VARIABLES
  orig,       \* the configuration found
  mem,        \* parser.parsed: what the plugin edits
  disk,       \* the configuration files
  running,    \* what nginx serves: the configuration of its last good reload
  temp, prog, \* temporary checkpoint, checkpoint in progress: {} or {config}
  stack,      \* finalized checkpoints, the newest last
  newVhost,   \* NginxConfigurator.new_vhost: 0 or the index of the block
  doms,       \* the domains of the certificate, in order
  chal,       \* the type of their challenges
  out,        \* challenges performed and not cleaned up
  challOut,   \* NginxConfigurator._chall_out
  enh,        \* the enhancements asked for, in the order they are applied
  todo,       \* the domains the current step still has to treat
  trouble,    \* what went wrong
  pc

files == <<disk, temp, prog, stack>>
edit == <<mem, newVhost>>
chals == <<out, challOut>>
asked == <<orig, doms, chal, enh>>
vars == <<orig, mem, disk, running, temp, prog, stack, newVhost, doms, chal, out, challOut, enh,
          todo, trouble, pc>>

Domains == {"a", "b"}
Zdomain == [d \in Domains |-> IF d = "a" THEN "za" ELSE "zb"]    \* of tls-sni-01
\* The kinds of name that match every host: rank below an exact name, length.
Wild == [n \in {"*.long", "*.short", "end.*", "~regex"} |->
           CASE n = "*.long" -> <<1, 2>> [] n = "*.short" -> <<1, 1>>
             [] n = "end.*" -> <<2, 1>> [] OTHER -> <<3, 1>>]
Addr == [port : {80, 443}, ssl : BOOLEAN, def : BOOLEAN]
At(p) == [port |-> p, ssl |-> FALSE, def |-> FALSE]
Hosts == Domains \cup {"za", "zb"}
Block == [names : SUBSET (Hosts \cup DOMAIN Wild), addrs : SUBSET Addr, sslOn : BOOLEAN,
          cert : {"none", "site", "snakeoil", "challenge", "le"}, clash : BOOLEAN, gone : BOOLEAN,
          redirects : SUBSET Domains, answers : SUBSET Hosts, stapled : {"no", "other", "ours"}]
\* A block with these names and addresses, and nothing else of interest in it.
Plain(names, addrs) ==
  [names |-> names, addrs |-> addrs, sslOn |-> FALSE, cert |-> "none", clash |-> FALSE,
   gone |-> FALSE, redirects |-> {}, answers |-> {}, stapled |-> "no"]

-----------------------------------------------------------------------------
(* What nginx does with a configuration. *)

Listens(b, p) == IF b.addrs = {} THEN p = 80 ELSE \E a \in b.addrs : a.port = p

\* get_best_match: the kind and the length of the name of a block that fits.
Match(h, n) == IF n = h THEN <<0, 1>> ELSE IF n \in DOMAIN Wild THEN Wild[n] ELSE <<4, 0>>
Beats(x, y) == x[1] < y[1] \/ (x[1] = y[1] /\ x[2] > y[2])
Strongest(matches) == CHOOSE x \in matches : \A y \in matches : ~ Beats(y, x)
BestMatch(h, names) == Strongest({<<4, 0>>} \cup {Match(h, n) : n \in names})

\* The block that answers a request for h at port p, or 0; match[i] says how
\* well a block that listens fits.
Answering(c, p, match) ==
  LET named == {i \in DOMAIN match : match[i][1] < 4}
      default == {i \in DOMAIN match : \E a \in c[i].addrs : a.port = p /\ a.def}
      best == {i \in named : \A j \in named : ~ Beats(match[j], match[i])}
  IN IF DOMAIN match = {} THEN 0
     ELSE IF named # {} THEN Min(best)
     ELSE IF default # {} THEN Min(default) ELSE Min(DOMAIN match)
Serve(c, p, h) ==
  Answering(c, p, [i \in {k \in DOMAIN c : Listens(c[k], p)} |-> BestMatch(h, c[i].names)])

\* nginx refuses two default servers of one address, and a block that names an
\* address twice.
Valid(c) ==
  /\ \A p \in {80, 443} :
       Cardinality({i \in DOMAIN c : \E a \in c[i].addrs : a.port = p /\ a.def}) <= 1
  /\ \A i \in DOMAIN c : \A x, y \in c[i].addrs : x.port = y.port => x = y

\* _build_addr_to_ssl: one `ssl` makes an address an ssl address for every block.
SslPorts(c) == {a.port : a \in UNION {{x \in c[i].addrs : x.ssl \/ c[i].sslOn} : i \in DOMAIN c}}

-----------------------------------------------------------------------------
(* What the plugin makes of it: the choice of a block. *)

IsSsl(c, i) == c[i].sslOn \/ \E a \in c[i].addrs : a.port \in SslPorts(c)

\* _vhost_matches: listens in plain text on the port.
PlainPort80(c, i) ==
  /\ ~ c[i].sslOn
  /\ c[i].addrs = {} \/ \E a \in c[i].addrs : a.port = 80 /\ a.port \notin SslPorts(c)

\* The rank of a block, better when it is ssl, and the length of its best name.
Ranked(match, ssl) == <<2 * match[1] + (IF ssl THEN 0 ELSE 1), match[2]>>

\* _select_best_name_match, given the ranks: 0 when none matches.
Foremost(rank) == {i \in DOMAIN rank : rank[i][1] < 8 /\ \A j \in DOMAIN rank : rank[i][1] <= rank[j][1]}
Longest(best, rank) ==
  {i \in best : rank[i][1] \in 2..5 => \A j \in best : rank[j][2] <= rank[i][2]}
FirstOf(blocks) == IF blocks = {} THEN 0 ELSE Min(blocks)
SelectByRank(rank) == FirstOf(Longest(Foremost(rank), rank))
SelectBest(c, cand, h) ==
  SelectByRank([i \in cand |-> Ranked(BestMatch(h, c[i].names), IsSsl(c, i))])

\* An edit in memory: the configuration, new_vhost, the block chosen, no error so far.
Edit(c, nv, at, ok) == [cfg |-> c, nv |-> nv, at |-> at, ok |-> ok]
Undefault(addrs) == {[a EXCEPT !.def = FALSE] : a \in addrs}

\* _vhost_from_duplicated_default: port 0 is any.  One new block serves every
\* domain that has none.
FromDefault(e, d, port) ==
  LET defaults == {i \in DOMAIN e.cfg : \E a \in e.cfg[i].addrs : a.def /\ port \in {0, a.port}}
      copy == [e.cfg[Min(defaults)] EXCEPT !.names = {d}, !.addrs = Undefault(@)]
  IN IF e.nv # 0 THEN Edit([e.cfg EXCEPT ![e.nv].names = @ \cup {d}], e.nv, e.nv, TRUE)
     ELSE IF Cardinality(defaults) # 1 THEN [e EXCEPT !.ok = FALSE]
     ELSE Edit(Append(e.cfg, copy), Len(e.cfg) + 1, Len(e.cfg) + 1, TRUE)

\* _add_directive: a directive that may be there once is there and says otherwise.
Conflict(b) == b.cert # "none" \/ b.clash

\* _make_server_ssl: a snakeoil certificate.
MakeServerSsl(e) ==
  LET b == e.cfg[e.at]
      kept == IF b.addrs = {} THEN {At(80)} ELSE b.addrs
  IN [e EXCEPT !.ok = ~ Conflict(b),
               !.cfg[e.at].addrs = kept \cup {[At(443) EXCEPT !.ssl = TRUE]},
               !.cfg[e.at].cert = "snakeoil"]

\* The block found, or one made from the default; one found is made an ssl block.
Found(e, d, at, create) ==
  IF at # 0 THEN [e EXCEPT !.at = at]
  ELSE IF create THEN FromDefault(e, d, 0) ELSE [e EXCEPT !.ok = FALSE]
Secured(e) == IF e.ok /\ ~ IsSsl(e.cfg, e.at) THEN MakeServerSsl(e) ELSE e
ChooseVhost(e, d, create) == Secured(Found(e, d, SelectBest(e.cfg, DOMAIN e.cfg, d), create))

FoundPlain(e, d, at, create) ==
  IF at # 0 \/ ~ create THEN [e EXCEPT !.at = at] ELSE FromDefault(e, d, 80)
ChooseRedirectVhost(e, d, create) ==
  FoundPlain(e, d, SelectBest(e.cfg, {i \in DOMAIN e.cfg : PlainPort80(e.cfg, i)}, d), create)

\* deploy_cert
GiveCert(e) == IF e.ok THEN [e EXCEPT !.cfg[e.at].cert = "le"] ELSE e
DeployCert(e, d) == GiveCert(ChooseVhost(e, d, TRUE))

\* _enable_redirect: the plain addresses of an ssl block move to a new one.
SplitVhost(e) ==
  LET b == e.cfg[e.at]
      plain == [Plain(b.names, {a \in b.addrs : ~ a.ssl}) EXCEPT !.gone = TRUE]
  IN Edit(Append([e.cfg EXCEPT ![e.at].addrs = {a \in @ : a.ssl}], plain),
          e.nv, Len(e.cfg) + 1, TRUE)
NoSplit(e) == e                            \* mutant: the redirect goes into the ssl block
Split(e) == SplitVhost(e)
RedirectIn(e, d) == [e EXCEPT !.cfg[e.at].redirects = @ \cup {d}]
Redirect(e, d) ==
  IF e.at = 0 THEN e ELSE RedirectIn(IF IsSsl(e.cfg, e.at) THEN Split(e) ELSE e, d)
EnableRedirect(e, d) == Redirect(ChooseRedirectVhost(e, d, FALSE), d)

\* _enable_ocsp_stapling, by a version of nginx that has it or not.
Staple(e, version) ==
  IF ~ e.ok \/ ~ version \/ e.cfg[e.at].stapled = "other" THEN [e EXCEPT !.ok = FALSE]
  ELSE [e EXCEPT !.cfg[e.at].stapled = "ours"]
EnableStapling(e, d, version) == Staple(ChooseVhost(e, d, FALSE), version)

\* The challenges' own file is included before all other blocks.
IncludedFirst(new, c) == new \o c

\* NginxHttp01._make_server_block
ChallengeServer(d) == [Plain({d}, {At(80)}) EXCEPT !.answers = {d}, !.gone = TRUE]

\* NginxHttp01._make_or_mod_server_block: x.new collects the blocks of that file.
Answer(x, f, d) ==
  IF ~ f.ok
  THEN [x EXCEPT !.new = Append(@, ChallengeServer(d))]
  ELSE [x EXCEPT !.e = [f EXCEPT !.cfg[f.at].answers = @ \cup {d}]]
HttpBlock(x, d) == Answer(x, ChooseRedirectVhost(x.e, d, TRUE), d)

\* NginxTlsSni01._make_server_block: the z-domain, at these addresses.
SniServer(z, addrs) == [Plain({z}, Undefault(addrs)) EXCEPT !.answers = {z}, !.cert = "challenge"]

\* NginxTlsSni01.perform
AnswerSni(x, f, d) ==
  IF ~ x.e.ok \/ ~ f.ok THEN [x EXCEPT !.e.ok = FALSE]
  ELSE [e |-> f, new |-> Append(x.new, SniServer(Zdomain[d], f.cfg[f.at].addrs))]
SniBlock(x, d) == AnswerSni(x, ChooseVhost(x.e, d, TRUE), d)

-----------------------------------------------------------------------------
(* The client's run. *)

TypeOK ==
  /\ {orig, mem, disk, running} \cup temp \cup prog \cup ToSet(stack) \subseteq Seq(Block)
  /\ Cardinality(temp) <= 1 /\ Cardinality(prog) <= 1 /\ newVhost \in 0..Len(mem)
  /\ out \subseteq Domains /\ challOut \in 0..2
  /\ trouble \subseteq {"challenge", "invalid", "deploy", "rolled back", "enhance", "not restored"}
  /\ pc \in {"perform", "raised", "challenged", "deploy", "deployed", "enhance", "enhanced", "done"}

Init ==
  /\ orig \in Configs /\ mem = orig /\ disk = orig /\ running = orig
  /\ temp = {} /\ prog = {} /\ stack = <<>> /\ newVhost = 0
  /\ doms \in {<<"a">>, <<"a", "b">>} /\ chal \in {"http", "sni"}
  /\ out = {} /\ challOut = 0
  /\ enh \in {<<>>, <<"redirect">>, <<"staple">>, <<"redirect", "staple">>}
  /\ todo = doms /\ trouble = {} /\ pc = "perform"

\* nginx_restart: the reload of what is on disk, which nginx may refuse.
Restart(c, ok) == IF ok THEN Valid(c) /\ running' = c ELSE UNCHANGED running

\* perform: the edits, the temporary save, the restart.
Blocks(x, d) == IF chal = "http" THEN HttpBlock(x, d) ELSE SniBlock(x, d)
\* ... for the one or two domains of the certificate.
InTurn(x) == IF Len(doms) = 1 THEN Blocks(x, doms[1]) ELSE Blocks(Blocks(x, doms[1]), doms[2])
PutInPlace(x, ok) ==
  /\ mem' = x.e.cfg /\ newVhost' = x.e.nv
  /\ IF x.e.ok
     THEN disk' = IncludedFirst(x.new, x.e.cfg) /\ temp' = {disk} /\ Restart(disk', ok)
     ELSE ~ ok /\ UNCHANGED <<disk, temp, running>>
Perform(ok) ==
  /\ pc = "perform"
  /\ out' = ToSet(doms) /\ challOut' = Len(doms)
  /\ PutInPlace(InTurn([e |-> Edit(mem, newVhost, 0, TRUE), new |-> <<>>]), ok)
  /\ IF ok THEN pc' = "challenged" /\ UNCHANGED trouble
     ELSE pc' = "raised" /\ trouble' = {"challenge"}
  /\ UNCHANGED <<asked, prog, stack, todo>>

\* cleanup of some of the challenges: those that failed go before the others.
RevertDue(n) == n = 0
RevertSoon(n) == TRUE                      \* mutant: the first clean-up reverts
Reverts(n) == RevertDue(n)

Cleanup(X, ok) ==
  /\ X # {} /\ X \subseteq out
  /\ pc = "challenged" \/ (pc = "raised" /\ X = out)
  /\ out' = out \ X /\ challOut' = challOut - Cardinality(X)
  /\ IF Reverts(challOut')
     THEN /\ disk' = IF temp = {} THEN disk ELSE CHOOSE c \in temp : TRUE
          /\ temp' = {} /\ mem' = disk' /\ newVhost' = 0 /\ Restart(disk', ok)
     ELSE ok /\ UNCHANGED <<disk, temp, mem, newVhost, running>>
  /\ trouble' = IF ok THEN trouble ELSE trouble \cup {"challenge"}
  /\ pc' = IF ~ ok \/ (pc = "raised") THEN "done"
           ELSE IF out' = {} THEN "deploy" ELSE "challenged"
  /\ UNCHANGED <<asked, prog, stack, todo>>

\* The CA did not accept a challenge.
Invalid == /\ pc = "deploy" /\ todo = doms /\ pc' = "done" /\ trouble' = {"invalid"}
           /\ UNCHANGED <<asked, files, edit, chals, running, todo>>

\* add_to_checkpoint and filedump
SaveAnew(c) == mem' = c /\ disk' = c /\ prog' = {disk}   \* mutant: each save starts a checkpoint
Save(c) == /\ mem' = c /\ disk' = c
           /\ prog' = IF prog = {} THEN {disk} ELSE prog
\* ... and finalize_checkpoint, when there is a title.
Finalize(c) == /\ mem' = c /\ disk' = c /\ prog' = {}
               /\ stack' = Append(stack, IF prog = {} THEN disk ELSE CHOOSE x \in prog : TRUE)

\* recovery_routine
Recover == /\ disk' = IF prog = {} THEN disk ELSE CHOOSE c \in prog : TRUE
           /\ prog' = {} /\ mem' = disk' /\ newVhost' = 0

\* Client.deploy_certificate: one domain, and a save.
SaveOrRecover(e) ==
  IF e.ok THEN /\ Save(e.cfg) /\ newVhost' = e.nv /\ todo' = Tail(todo)
               /\ UNCHANGED <<trouble, pc>>
  ELSE Recover /\ trouble' = {"deploy"} /\ pc' = "done" /\ UNCHANGED todo
Deploy ==
  /\ pc = "deploy" /\ todo # <<>>
  /\ SaveOrRecover(DeployCert(Edit(mem, newVhost, 0, TRUE), Head(todo)))
  /\ UNCHANGED <<asked, chals, running, temp, stack>>

\* save("Deployed ACME Certificate")
SaveDeployed == /\ pc = "deploy" /\ todo = <<>> /\ Finalize(mem) /\ pc' = "deployed"
                /\ UNCHANGED <<asked, chals, running, temp, newVhost, todo, trouble>>

\* _rollback_and_restart: one checkpoint.
Rollback(ok) ==
  /\ disk' = Last(stack) /\ stack' = Front(stack) /\ mem' = disk' /\ newVhost' = 0
  /\ Restart(disk', ok) /\ prog' = {}
  /\ trouble' = IF ok THEN {"rolled back"} ELSE {"rolled back", "not restored"}
  /\ pc' = "done"

RestartDeployed(ok, again) ==
  /\ pc = "deployed"
  /\ IF ok THEN /\ Restart(disk, TRUE) /\ pc' = IF enh = <<>> THEN "done" ELSE "enhance"
                /\ todo' = doms /\ UNCHANGED <<files, edit, trouble>>
     ELSE Rollback(again) /\ UNCHANGED <<temp, todo>>
  /\ UNCHANGED <<asked, chals>>

\* The enhancement applied now: those before it have their checkpoints.
Current == enh[Len(stack)]

\* apply_enhancement: one domain; the enhancement is saved after the last.
KeepOrRecover(e) ==
  IF e.ok THEN /\ mem' = e.cfg /\ newVhost' = e.nv /\ todo' = Tail(todo)
               /\ UNCHANGED <<disk, prog, trouble, pc>>
  ELSE Recover /\ trouble' = {"enhance"} /\ pc' = "done" /\ UNCHANGED todo
Enhance(version) ==
  /\ pc = "enhance" /\ todo # <<>>
  /\ \/ Current = "redirect" /\ KeepOrRecover(EnableRedirect(Edit(mem, newVhost, 0, TRUE), Head(todo)))
     \/ /\ Current = "staple"
        /\ KeepOrRecover(EnableStapling(Edit(mem, newVhost, 0, TRUE), Head(todo), version))
  /\ UNCHANGED <<asked, chals, running, temp, stack>>

SaveEnhanced == /\ pc = "enhance" /\ todo = <<>> /\ Finalize(mem)
                /\ IF Len(stack') <= Len(enh) THEN pc' = pc /\ todo' = doms
                                              ELSE pc' = "enhanced" /\ UNCHANGED todo
                /\ UNCHANGED <<asked, chals, running, temp, newVhost, trouble>>

RestartEnhanced(ok, again) ==
  /\ pc = "enhanced"
  /\ IF ok THEN Restart(disk, TRUE) /\ pc' = "done" /\ UNCHANGED <<files, edit, trouble>>
     ELSE Rollback(again) /\ UNCHANGED temp
  /\ UNCHANGED <<asked, chals, todo>>

Over == pc = "done" /\ UNCHANGED vars

Client ==
  \/ Invalid \/ Deploy \/ SaveDeployed \/ SaveEnhanced
  \/ \E ok \in BOOLEAN : Perform(ok) \/ (\E X \in SUBSET Domains : Cleanup(X, ok)) \/ Enhance(ok)
  \/ \E ok, again \in BOOLEAN : RestartDeployed(ok, again) \/ RestartEnhanced(ok, again)

Next == Client \/ Over

Spec == Init /\ [][Next]_vars

-----------------------------------------------------------------------------
(* Properties. *)

\* The block the challenge of a domain is looked for in answers it, as long as
\* the challenge is not cleaned up: the choice agrees with nginx, and one of
\* several challenges can be removed without the others.
ChallengeReachable ==
  pc = "challenged" =>
    \A d \in out : LET h == IF chal = "http" THEN d ELSE Zdomain[d]
                       i == Serve(running, IF chal = "http" THEN 80 ELSE 443, h)
                   IN i # 0 /\ h \in running[i].answers

\* A run without trouble ends with every domain of the certificate served by it.
HttpsServed ==
  pc = "done" /\ trouble = {} =>
    \A d \in ToSet(doms) : LET i == Serve(running, 443, d)
                           IN i # 0 /\ running[i].cert = "le" /\ 443 \in SslPorts(running)

\* ... and with the stapling and the redirects asked for; a domain that no
\* block in plain text was named for is left alone.
Enhanced ==
  pc = "done" /\ trouble = {} =>
    \A d \in ToSet(doms) :
      /\ "staple" \in ToSet(enh) => running[Serve(running, 443, d)].stapled = "ours"
      /\ ("redirect" \in ToSet(enh) /\ \E i \in DOMAIN orig :
            PlainPort80(orig, i) /\ BestMatch(d, orig[i].names)[1] < 4)
           => d \in running[Serve(running, 80, d)].redirects

\* No redirect is a loop: the block that answers at 443 does not redirect.
LoopFree == \A d \in Domains, c \in {disk, running} :
              LET i == Serve(c, 443, d) IN i # 0 => d \notin c[i].redirects

\* A domain that a block served by name in plain text is served there again, or
\* redirected, whatever the run did; only other names may lose the page.
StillServed ==
  \A d \in ToSet(doms) :
    (\E i \in DOMAIN orig : Listens(orig[i], 80) /\ BestMatch(d, orig[i].names)[1] < 4) =>
      LET i == Serve(disk, 80, d)
      IN i # 0 /\ (disk[i].gone => d \in disk[i].redirects \cup disk[i].answers)

\* nginx would load every configuration that is on disk.
Loadable == Valid(disk)

\* A deployment that fails, or whose restart fails, leaves the configuration
\* as it was found; so does a challenge.
Undone == pc = "done" /\ (trouble \cap {"challenge", "invalid", "deploy"} # {}
                            \/ ("rolled back" \in trouble /\ stack = <<>>))
          => disk = orig
=============================================================================

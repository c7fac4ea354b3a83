----------------------------- MODULE Certificates -----------------------------
(***************************************************************************)
(* The certificates (lineages) of a machine and the commands that make,    *)
(* extend, rename, revoke and delete them.  A lineage is a renewal file    *)
(* that leads to a live directory of links and an archive of versions;     *)
(* they are made and deleted one after the other, and a command may be     *)
(* killed between any two of these steps.                                  *)
(***************************************************************************)
EXTENDS Naturals, FiniteSets, FiniteSetsExt

CONSTANTS Domains,    \* the names certificates are for
          MaxSuffix,  \* bound: "-0001" and so on are tried
          MaxCommands,   \* bound: commands given
          MaxKills    \* bound: commands killed

VARIABLES
  conf,       \* renewal/NAME.conf: Absent, Empty, or the directory it leads to
  live,       \* live/NAME: "absent", "empty" or "links"
  names,      \* archive/NAME: Missing, or the domains of the version the links lead to
  newer,      \* the domains of a newer version in it, {} when there is none
  shared,     \* somebody has copied a renewal file
  op,         \* the command under way, or the last one
  pc, commands, kills, ended

store == <<conf, live, names, newer>>
vars == <<conf, live, names, newer, shared, op, pc, commands, kills, ended>>

\* A lineage name: a domain, and the number of its suffix.
Names == Domains \X (0..MaxSuffix)
Requests == (SUBSET Domains) \ {{}}
Absent == <<"absent", 0>>
Empty == <<"empty", 0>>
Missing == {"missing"}
Nobody == <<"nobody", 0>>
Idle == [verb |-> "none", doms |-> {}, at |-> Nobody, dir |-> Nobody,
         agreed |-> FALSE, fewer |-> FALSE]

-----------------------------------------------------------------------------
(* What can be loaded: RenewableCert, _search_lineages. *)

Usable(n) == /\ conf[n] \in Names /\ live[conf[n]] = "links"
             /\ names[conf[n]] \in Requests
Lineages == {n \in Names : Usable(n)}
Sans(n) == names[conf[n]]

\* find_duplicative_certs: a lineage with these names; of those with some of
\* them one of the largest.  The order of files is the file system's.
Identical(doms) == {n \in Lineages : Sans(n) = doms}
Subset(doms) ==
  LET some == {n \in Lineages : Sans(n) \subseteq doms}
  IN {n \in some : \A k \in some : Cardinality(Sans(k)) <= Cardinality(Sans(n))}

-----------------------------------------------------------------------------

TypeOK ==
  /\ conf \in [Names -> Names \cup {Absent, Empty}]
  /\ live \in [Names -> {"absent", "empty", "links"}]
  /\ \A n \in Names : /\ names[n] \in (SUBSET Domains) \cup {Missing}
                      /\ newer[n] \subseteq Domains
                      /\ newer[n] # {} => names[n] \in Requests
  /\ op.at \in Names \cup {Nobody} /\ commands \in 0..MaxCommands /\ kills \in 0..MaxKills
  /\ pc \in {"idle", "name", "dirs", "files", "write", "renew", "link", "unlist", "unlink", "prune"}
  /\ ended \in {"", "new", "renewed", "kept", "deployed", "failed", "deleted"}

Init ==
  /\ names = [n \in Names |-> Missing] /\ newer = [n \in Names |-> {}]
  /\ conf = [n \in Names |-> Absent] /\ live = [n \in Names |-> "absent"] /\ shared = FALSE
  /\ op = Idle /\ pc = "idle" /\ commands = 0 /\ kills = 0 /\ ended = ""

End(how) == pc' = "idle" /\ ended' = how
Begin(o, step) == op' = o /\ pc' = step /\ ended' = ""

\* Somebody copies a renewal file under another name, by hand.
Copy == /\ pc = "idle" /\ ~ shared /\ shared' = TRUE
        /\ \E n \in Lineages, k \in Domains \X {0} :
             conf[k] = Absent /\ conf' = [conf EXCEPT ![k] = conf[n]]
        /\ UNCHANGED <<live, names, newer, op, pc, commands, kills, ended>>

Given == pc = "idle" /\ commands < MaxCommands /\ commands' = commands + 1

(* certonly and run: _find_lineage_for_domains_and_certname. *)

\* fewer: --allow-subset-of-names.
NewCert(doms, base, fewer) ==
  Begin([Idle EXCEPT !.verb = "new", !.doms = doms, !.at = base, !.fewer = fewer], "name")
RenewCert(n, doms, agreed, fewer) ==
  Begin([Idle EXCEPT !.verb = "renew", !.doms = doms, !.at = n, !.agreed = agreed,
                     !.fewer = fewer], "renew")

\* obtain_certificate: the names that were validated, one at least.
Obtained == IF op.fewer THEN (SUBSET op.doms) \ {{}} ELSE {op.doms}

\* ensure_deployed: the links follow a newer version.
PutInPlace(d) ==
  IF newer[d] = {} THEN UNCHANGED <<names, newer>>
  ELSE names' = [names EXCEPT ![d] = newer[d]] /\ newer' = [newer EXCEPT ![d] = {}]

\* _handle_identical_cert_request: a version that waits is put in place; or else
\* the certificate is renewed when it is due or the user says so, and kept if not.
HandleIdentical(n, doms, again, fewer) ==
  /\ UNCHANGED <<conf, live>>
  /\ IF newer[conf[n]] # {} \/ ~ again
     THEN /\ PutInPlace(conf[n]) /\ op' = [Idle EXCEPT !.at = n, !.doms = doms]
          /\ End(IF newer[conf[n]] = {} THEN "kept" ELSE "deployed")
     ELSE RenewCert(n, doms, FALSE, fewer) /\ UNCHANGED <<names, newer>>

\* A user who says no ends the command.
Expand(n, doms, yes, fewer) ==
  IF yes THEN RenewCert(n, doms, FALSE, fewer) ELSE End("failed") /\ UNCHANGED op

ForDomains(doms, duplicate, yes, fewer) ==
  /\ Given /\ UNCHANGED <<shared, kills>>
  /\ IF ~ duplicate /\ Identical(doms) # {}
     THEN \E n \in Identical(doms) : HandleIdentical(n, doms, yes, fewer)
     ELSE /\ UNCHANGED store
          /\ IF ~ duplicate /\ Subset(doms) # {} THEN \E n \in Subset(doms) : Expand(n, doms, yes, fewer)
             ELSE \E d \in doms : NewCert(doms, <<d, 0>>, fewer)

\* With --cert-name; the user confirms that names change.
ConfirmNewNames(yes) == yes
ForCertname(n, doms, yes, fewer) ==
  /\ Given /\ UNCHANGED <<shared, kills>>
  /\ IF n \in Lineages /\ Sans(n) = doms THEN HandleIdentical(n, doms, yes, fewer)
     ELSE /\ UNCHANGED store
          /\ IF n \notin Lineages THEN NewCert(doms, n, fewer)
             ELSE IF ConfirmNewNames(yes) THEN RenewCert(n, doms, yes, fewer)
             ELSE End("failed") /\ UNCHANGED op

\* The CA refuses, or an authorization fails.
Refuse == /\ pc \in {"name", "renew"} /\ End("failed") /\ UNCHANGED <<store, shared, op, commands, kills>>

\* renew_cert: a new version, and then the links.
SaveSuccessor == /\ pc = "renew" /\ pc' = "link"
                 /\ \E doms \in Obtained : newer' = [newer EXCEPT ![conf[op.at]] = doms]
                 /\ UNCHANGED <<conf, live, names, shared, op, commands, kills, ended>>
UpdateLinks == /\ pc = "link" /\ PutInPlace(conf[op.at]) /\ End("renewed")
               /\ UNCHANGED <<conf, live, shared, op, commands, kills>>

(* new_lineage *)

\* unique_lineage_name: the first name that has no renewal file; it is made empty.
FreeSuffixes(base) == {i \in 0..MaxSuffix : conf[<<base[1], i>>] = Absent}
UniqueLineageName ==
  /\ pc = "name" /\ FreeSuffixes(op.at) # {}
  /\ LET n == <<op.at[1], Min(FreeSuffixes(op.at))>>
     IN conf' = [conf EXCEPT ![n] = Empty] /\ op' = [op EXCEPT !.at = n]
  /\ pc' = "dirs" /\ UNCHANGED <<live, names, newer, shared, commands, kills, ended>>

\* The directories must not be there.
BothAbsent(n) == names[n] = Missing /\ live[n] = "absent"
AnyDirectory(n) == TRUE                    \* mutant: what is there is used
Fits(n) == BothAbsent(n)
MakeDirectories ==
  /\ pc = "dirs" /\ UNCHANGED <<conf, newer, shared, op, commands, kills>>
  /\ IF Fits(op.at)
     THEN /\ names' = [names EXCEPT ![op.at] = {}] /\ live' = [live EXCEPT ![op.at] = "empty"]
          /\ pc' = "files" /\ UNCHANGED ended
     ELSE End("failed") /\ UNCHANGED <<live, names>>
WriteFiles ==
  /\ pc = "files" /\ live' = [live EXCEPT ![op.at] = "links"]
  /\ \E doms \in Obtained : names' = [names EXCEPT ![op.at] = doms]
  /\ pc' = "write"
  /\ UNCHANGED <<conf, newer, shared, op, commands, kills, ended>>
WriteRenewalConfig ==
  /\ pc = "write" /\ conf' = [conf EXCEPT ![op.at] = op.at] /\ End("new")
  /\ UNCHANGED <<live, names, newer, shared, op, commands, kills>>

(* rename_lineage: the renewal file only. *)
Rename(n, k) ==
  /\ Given /\ n \in Lineages /\ op' = Idle
  /\ IF conf[k] # Absent THEN End("failed") /\ UNCHANGED conf
     ELSE End("kept") /\ conf' = [conf EXCEPT ![k] = conf[n], ![n] = Absent]
  /\ UNCHANGED <<live, names, newer, shared, kills>>

(* delete *)

Delete(n) == /\ Given /\ conf[n] # Absent
             /\ Begin([Idle EXCEPT !.verb = "delete", !.at = n], "unlist")
             /\ UNCHANGED <<store, shared, kills>>

\* delete_files reads the renewal file, and removes it in any case; one that
\* names no links ends with an error there.
Unlist ==
  /\ pc = "unlist" /\ conf' = [conf EXCEPT ![op.at] = Absent] /\ op' = [op EXCEPT !.dir = conf[op.at]]
  /\ IF conf[op.at] \in Names THEN pc' = "unlink" /\ UNCHANGED ended ELSE End("failed")
  /\ UNCHANGED <<live, names, newer, shared, commands, kills>>
\* The links, README and the directory.
Unlink == /\ pc = "unlink" /\ live' = [live EXCEPT ![op.dir] = "absent"] /\ pc' = "prune"
          /\ UNCHANGED <<conf, names, newer, shared, op, commands, kills, ended>>
\* full_archive_path: archive_dir of the renewal file, or else the name's.
Archive == op.dir
Prune == /\ pc = "prune" /\ names' = [names EXCEPT ![Archive] = Missing]
         /\ newer' = [newer EXCEPT ![Archive] = {}] /\ End("deleted")
         /\ UNCHANGED <<conf, live, shared, op, commands, kills>>

(* revoke, and _delete_if_appropriate *)

\* match_and_check_overlaps: the lineages that lead to one archive.
Overlaps(n) == \E k \in Lineages \ {n} : conf[k] = conf[n]
Ignored(n) == FALSE                        \* mutant: no check for overlapping archives
OverlapFound(n) == Overlaps(n)
\* --cert-path is of lineage n.  With another --cert-name the user picks one.
Revoke(n, named, wants) ==
  /\ Given /\ n \in Lineages /\ UNCHANGED <<store, shared, kills>>
  /\ IF ~ wants THEN op' = [Idle EXCEPT !.verb = "revoke"] /\ End("kept")
     ELSE IF OverlapFound(n) \/ named \notin Lineages
     THEN op' = [Idle EXCEPT !.verb = "revoke"] /\ End("failed")
     ELSE \E chosen \in {n, named} :
            IF OverlapFound(chosen) THEN op' = [Idle EXCEPT !.verb = "revoke"] /\ End("kept")
            ELSE Begin([Idle EXCEPT !.verb = "revoke", !.at = chosen], "unlist")

Kill == /\ pc # "idle" /\ kills < MaxKills /\ kills' = kills + 1
        /\ End("failed") /\ UNCHANGED <<store, shared, op, commands>>

Step == \/ Refuse \/ SaveSuccessor \/ UpdateLinks \/ UniqueLineageName \/ MakeDirectories
        \/ WriteFiles \/ WriteRenewalConfig \/ Unlist \/ Unlink \/ Prune
Command ==
  \/ \E doms \in Requests, yes, fewer \in BOOLEAN :
       \/ \E duplicate \in BOOLEAN : ForDomains(doms, duplicate, yes, fewer)
       \/ \E d \in Domains : ForCertname(<<d, 0>>, doms, yes, fewer)
  \/ \E n \in Names : Delete(n) \/ \E k \in Domains \X {0} : Rename(n, k)
  \/ \E n, named \in Names, wants \in BOOLEAN : Revoke(n, named, wants)
Over == pc = "idle" /\ commands = MaxCommands /\ UNCHANGED vars
Next == Step \/ Command \/ Copy \/ Kill \/ Over
Spec == Init /\ [][Next]_vars

-----------------------------------------------------------------------------
(* Properties. *)

\* A deletion that follows a revocation makes no lineage unusable but the one
\* that was chosen, whatever was copied, renamed or left by a kill before it.
OthersSurviveStep ==
  pc # "idle" /\ op.verb = "revoke" =>
      \A n \in Names \ {op.at} : Usable(n) => Usable(n)'
OthersSurvive == [][OthersSurviveStep]_vars

\* Two lineages lead to one archive only if somebody has copied a renewal file:
\* a new lineage never settles in what an older one, a renamed one or a killed
\* deletion has left.
NothingShared ==
  ~ shared => \A n, k \in Names : conf[n] = conf[k] /\ conf[n] \in Names => n = k

\* A command that gets a certificate, or keeps the one there is, leaves a usable
\* one for exactly the names it was asked for, or some of them where
\* --allow-subset-of-names is given.  A command that only puts in place what a killed
\* one has saved ("deployed") is not among them: that may have other names.
RequestMet ==
  pc = "idle" /\ ended \in {"new", "renewed", "kept"} /\ op.doms # {} =>
    Usable(op.at) /\ Sans(op.at) \in Obtained

\* No version that drops names of its lineage is made unless the user has said
\* so, or given --allow-subset-of-names; an expansion never drops any of itself.
NeverShrinksStep ==
  \A d \in Names : newer'[d] \notin {newer[d], {}} =>
      names[d] \subseteq newer'[d] \/ op.agreed \/ op.fewer
NeverShrinks == [][NeverShrinksStep]_vars

\* A deletion that comes to its end leaves neither links nor an archive of the
\* lineage, which may bear another name than its directories.
NothingLeft ==
  pc = "idle" /\ ended = "deleted" => live[op.dir] = "absent" /\ names[op.dir] = Missing
=============================================================================

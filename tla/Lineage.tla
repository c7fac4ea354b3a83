------------------------------ MODULE Lineage ------------------------------
(***************************************************************************)
(* certbot/storage.py: one certificate lineage, saved and deployed.        *)
(*                                                                         *)
(* A version is four files in the archive; four links in /live name the    *)
(* files of the deployed version.  save_successor writes the files of a    *)
(* new version one by one, and update_all_links_to moves the links one by  *)
(* one, with four "previous" links as its log.  _fix_symlinks rolls the    *)
(* links back when all four previous links are there, and forgets them     *)
(* otherwise; an error handler calls it in the process, and RenewableCert  *)
(* when the next one opens the lineage.                                    *)
(*                                                                         *)
(* The process may be killed between any two system calls.  Abstracted:    *)
(* what is in the files and in the renewal configuration, and the private  *)
(* key kept from an earlier version, which no caller asks for.             *)
(***************************************************************************)
EXTENDS Integers

CONSTANTS MaxVersion,  \* bound: versions
          MaxCrashes,  \* bound: kills and interruptions in one behaviour
          TornWrites   \* may a kill leave a file half written?

ASSUME BoundAssumption == MaxVersion \in Nat \ {0} /\ MaxCrashes \in Nat
ASSUME FaultAssumption == TornWrites \in BOOLEAN

VARIABLES archive,   \* the versions each kind has a file of
          torn,      \* versions whose fullchain file is not whole
          cur,       \* the version each live link names, 0 when no link
          prev,      \* the same for the previous links
          pc,        \* where the process is; "down" when there is none
          i,         \* the kind its loop has reached
          target,    \* the version the loop deploys or saves
          next,      \* what follows _fix_symlinks or update_all_links_to
          crashes

links == <<cur, prev>>
files == <<archive, torn>>
vars == <<files, links, pc, i, target, next, crashes>>

\* ALL_FOUR: cert, privkey, chain, fullchain.
Kind      == 1..4
Fullchain == 4
Version   == 1..MaxVersion

Loops == {"mark", "unlink", "relink", "unmark"}

\* Types of the variables, with the bounds.
TypeOK ==
  /\ archive \in [Kind -> SUBSET Version]
  /\ torn \in SUBSET Version
  /\ cur \in [Kind -> Version \cup {0}]
  /\ prev \in [Kind -> Version \cup {0}]
  /\ pc \in {"down", "fix", "fixunlink", "fixlink", "clean", "check", "open",
             "renew", "save"} \cup Loops
  /\ i \in Kind
  /\ target \in Version \cup {0}
  /\ next \in {"check", "renew", "down"}
  /\ crashes \in 0..MaxCrashes

\* The first version has been saved and linked, and no run is under way.
Init ==
  /\ archive = [k \in Kind |-> {1}]
  /\ torn = {}
  /\ cur = [k \in Kind |-> 1]
  /\ prev = [k \in Kind |-> 0]
  /\ pc = "down"
  /\ i = 1
  /\ target = 0
  /\ next = "down"
  /\ crashes = 0

Goto(p) == pc' = p /\ i' = 1

\* The end of one turn of a loop over the kinds: the next kind at pc p, or q.
Loop(p, q) == IF i < 4 THEN pc' = p /\ i' = i + 1 ELSE Goto(q)

\* latest_common_version: of all the kinds, torn or not.
Common == {v \in Version : \A k \in Kind : v \in archive[k]}
LatestCommon == CHOOSE v \in Common : \A w \in Common : w <= v

\* next_free_version: above what any kind has a file of.
Taken == UNION {archive[k] : k \in Kind}
NextFree == 1 + CHOOSE v \in Taken : \A w \in Taken : w <= v

HasPendingDeployment == \E k \in Kind : cur[k] < LatestCommon

-----------------------------------------------------------------------------
(***************************************************************************)
(* _fix_symlinks, entered from two places.                                 *)
(***************************************************************************)

FixSymlinks(return) == Goto("fix") /\ next' = return

\* A run opens the lineage: RenewableCert.
Open == /\ pc = "down"
        /\ FixSymlinks("check")
        /\ target' = 0
        /\ UNCHANGED <<files, links, crashes>>

AllMarked == \A k \in Kind : prev[k] # 0

\* Mutants of Fix: it rolls back when any previous link is there, or never.
FixAny == /\ pc = "fix"
          /\ Goto(IF \E k \in Kind : prev[k] # 0 THEN "fixunlink" ELSE "clean")
          /\ UNCHANGED <<files, links, target, next, crashes>>
FixNever == /\ pc = "fix"
            /\ Goto("clean")
            /\ UNCHANGED <<files, links, target, next, crashes>>

Fix == /\ pc = "fix"
       /\ Goto(IF AllMarked THEN "fixunlink" ELSE "clean")
       /\ UNCHANGED <<files, links, target, next, crashes>>

FixUnlink == /\ pc = "fixunlink"
             /\ cur' = [cur EXCEPT ![i] = 0]
             /\ pc' = "fixlink"
             /\ UNCHANGED <<files, prev, i, target, next, crashes>>

FixLink == /\ pc = "fixlink"
           /\ cur' = [cur EXCEPT ![i] = prev[i]]
           /\ Loop("fixunlink", "clean")
           /\ UNCHANGED <<files, prev, target, next, crashes>>

Clean == /\ pc = "clean"
         /\ prev' = [prev EXCEPT ![i] = 0]
         /\ Loop("clean", next)
         /\ UNCHANGED <<files, cur, target, next, crashes>>

LinksSound == \A k \in Kind : cur[k] \in archive[k]

\* _check_symlinks: each link is there and leads to a file, or the lineage is
\* skipped with a CertStorageError.
Check == /\ pc = "check"
         /\ Goto(IF LinksSound THEN "open" ELSE "down")
         /\ UNCHANGED <<files, links, target, next, crashes>>

-----------------------------------------------------------------------------
(***************************************************************************)
(* Deploying and renewing.                                                 *)
(***************************************************************************)

UpdateAllLinksTo(v, return) == /\ Goto("mark")
                               /\ target' = v
                               /\ next' = return

\* Mutant of EnsureDeployed: nobody looks for a version left undeployed.
EnsureNothing == /\ pc = "open"
                 /\ Goto("renew")
                 /\ UNCHANGED <<files, links, target, next, crashes>>

\* handle_renewal_request, or certonly: ensure_deployed.
EnsureDeployed ==
  /\ pc = "open"
  /\ IF HasPendingDeployment
     THEN UpdateAllLinksTo(LatestCommon, "renew")
     ELSE Goto("renew") /\ UNCHANGED <<target, next>>
  /\ UNCHANGED <<files, links, crashes>>

\* It is not due, or no certificate could be obtained.
NotRenewed == /\ pc = "renew"
              /\ Goto("down")
              /\ UNCHANGED <<files, links, target, next, crashes>>

\* renew_cert has a new certificate, and save_successor picks its version.
Renew == /\ pc = "renew"
         /\ NextFree <= MaxVersion
         /\ Goto("save")
         /\ target' = NextFree
         /\ UNCHANGED <<files, links, next, crashes>>

\* The order in which save_successor writes: privkey, cert, chain, fullchain.
Written(n) == <<2, 1, 3, 4>>[n]

WriteFile == archive' = [archive EXCEPT ![Written(i)] = @ \cup {target}]

\* When the last file is written, update_all_links_to(latest_common_version).
SaveFile ==
  /\ pc = "save"
  /\ WriteFile
  /\ IF i < 4
     THEN pc' = "save" /\ i' = i + 1 /\ UNCHANGED <<target, next>>
     ELSE UpdateAllLinksTo(target, "down")
  /\ UNCHANGED <<torn, links, crashes>>

\* os.symlink(self.current_target(kind), previous link).
Mark == /\ pc = "mark"
        /\ prev' = [prev EXCEPT ![i] = cur[i]]
        /\ Loop("mark", "unlink")
        /\ UNCHANGED <<files, cur, target, next, crashes>>

\* _update_link_to.
Unlink == /\ pc = "unlink"
          /\ cur' = [cur EXCEPT ![i] = 0]
          /\ pc' = "relink"
          /\ UNCHANGED <<files, prev, i, target, next, crashes>>

Relink == /\ pc = "relink"
          /\ cur' = [cur EXCEPT ![i] = target]
          /\ Loop("unlink", "unmark")
          /\ UNCHANGED <<files, prev, target, next, crashes>>

\* A renewal may still follow an ensure_deployed, and a run ends after one.
Unmark == /\ pc = "unmark"
          /\ prev' = [prev EXCEPT ![i] = 0]
          /\ Loop("unmark", next)
          /\ UNCHANGED <<files, cur, target, next, crashes>>

-----------------------------------------------------------------------------
(***************************************************************************)
(* What goes wrong.                                                        *)
(***************************************************************************)

\* An exception or a signal while the links are moved: the error handler
\* calls _fix_symlinks, and the run is over for this lineage; or it goes on as
\* if the links had been moved, when a handler left in place by an earlier
\* "with" swallows the signal (ErrorHandler shows how).
Interrupt == /\ pc \in Loops
             /\ crashes < MaxCrashes
             /\ crashes' = crashes + 1
             /\ \E after \in {"down", next} : FixSymlinks(after)
             /\ UNCHANGED <<files, links, target>>

\* The process is killed.
Crash == /\ pc # "down"
         /\ crashes < MaxCrashes
         /\ crashes' = crashes + 1
         /\ Goto("down")
         /\ UNCHANGED <<files, links, target, next>>

\* It is killed, or the disk is full, between the open and the close of the
\* file: a file with the name is there.
CrashWriting == /\ TornWrites
                /\ pc = "save"
                /\ crashes < MaxCrashes
                /\ crashes' = crashes + 1
                /\ WriteFile
                /\ torn' = IF Written(i) = Fullchain THEN torn \cup {target} ELSE torn
                /\ Goto("down")
                /\ UNCHANGED <<links, target, next>>

Running == \/ Fix \/ FixUnlink \/ FixLink \/ Clean \/ Check
           \/ EnsureDeployed \/ NotRenewed \/ Renew \/ SaveFile
           \/ Mark \/ Unlink \/ Relink \/ Unmark

Next == Open \/ Running \/ Interrupt \/ Crash \/ CrashWriting

Spec == Init /\ [][Next]_vars

\* A running process goes on, and cron keeps starting certbot.
FairSpec == Spec /\ WF_vars(Open) /\ WF_vars(Running)

-----------------------------------------------------------------------------
(***************************************************************************)
(* The refinement of LineageStore.                                         *)
(***************************************************************************)

\* What the links will be when an update has been repaired.
Repaired(k) == IF AllMarked THEN prev[k] ELSE cur[k]

\* The deployed version; 0, which LineageStore never deploys, when the links
\* disagree.
Deployed == IF \E v \in Version : \A k \in Kind : Repaired(k) = v
            THEN Repaired(1) ELSE 0

Store == INSTANCE LineageStore WITH saved <- Common, deployed <- Deployed

-----------------------------------------------------------------------------
\* Whatever is killed or interrupted, and wherever: the four links, once
\* repaired, name the same version, all four files of it are there, and a run
\* moves on to the newest version in one step or not at all.
ImplementsLineageStore == Store!Spec

\* A version whose files are there goes live, also when the run that saved it
\* did not live to deploy it ("May need to recover from rare interrupted /
\* crashed states", ensure_deployed).
NewestGetsDeployed ==
  \A v \in Version : (v \in Common) ~> (Deployed >= v)

\* Where a run goes on from RenewableCert, and where it ends, the live links
\* need no repair: each leads to a file, and all to the same version.
OpenedClean ==
  pc \in {"open", "renew", "save"} =>
    /\ LinksSound
    /\ \A k \in Kind : cur[k] = cur[1] /\ prev[k] = 0

\* "a complete version of this lineage" (has_pending_deployment): what is
\* deployed has been written to the end.
DeployedIsComplete == Deployed \notin torn
=============================================================================

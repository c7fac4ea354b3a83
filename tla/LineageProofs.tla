---------------------------- MODULE LineageProofs ----------------------------
(***************************************************************************)
(* A lineage is moved to its newest version in one step or not at all, for *)
(* any number of versions, kills and interruptions.                        *)
(***************************************************************************)
EXTENDS Lineage, TLAPS, WellFoundedInduction, NaturalsInduction

-----------------------------------------------------------------------------
(***************************************************************************)
(* The inductive invariant.                                                *)
(***************************************************************************)

\* What the links are worth once they are repaired: one whole version.
Recoverable == \E v \in Common : \A k \in Kind : Repaired(k) = v

\* All four live links name d, which is whole.
AllAt(d) == d \in Common /\ \A k \in Kind : cur[k] = d

NoMarks == \A k \in Kind : prev[k] = 0

\* An update goes from d to the newest version.
Moving(d) == d \in Common /\ target = LatestCommon /\ d < target

\* Where the loop that has reached kind i has brought the links, by the pc.
Progress ==
  /\ pc \in {"fixunlink", "fixlink"} =>
       \E d \in Common : /\ \A k \in Kind : prev[k] = d
                         /\ \A k \in Kind : k < i => cur[k] = d
  /\ pc = "clean" =>
       \E d \in Version : /\ AllAt(d)
                          /\ AllMarked => \A k \in Kind : prev[k] = d
                          /\ \A k \in Kind : k < i => prev[k] = 0
  /\ pc \in {"check", "open", "renew", "save"} =>
       NoMarks /\ \E d \in Version : AllAt(d)
  /\ pc = "mark" =>
       \E d \in Version : /\ AllAt(d) /\ Moving(d)
                          /\ \A k \in Kind : prev[k] = IF k < i THEN d ELSE 0
  /\ pc \in {"unlink", "relink"} =>
       \E d \in Version : /\ Moving(d)
                          /\ \A k \in Kind : prev[k] = d
                          /\ \A k \in Kind : k < i => cur[k] = target
  /\ pc = "unmark" =>
       \E d \in Version : /\ AllAt(target) /\ Moving(d)
                          /\ \A k \in Kind : prev[k] = IF k < i THEN 0 ELSE d

\* save_successor writes above every version any kind has a file of.
Saving ==
  pc = "save" =>
    /\ target \in Version
    /\ \A k \in Kind : \A v \in archive[k] : v <= target
    /\ \A n \in Kind : target \in archive[Written(n)] <=> n < i

IInv == /\ TypeOK
        /\ 1 \in Common
        /\ Recoverable
        /\ Progress
        /\ Saving

-----------------------------------------------------------------------------
(***************************************************************************)
(* The newest of some versions.                                            *)
(***************************************************************************)

\* Versions have a greatest one: the difference to MaxVersion has a least one.
LEMMA GreatestVersion ==
  ASSUME NEW S \in SUBSET Version, S # {}
  PROVE  \E v \in S : \A w \in S : w <= v
<1> DEFINE Gaps == {MaxVersion - v : v \in S}
<1>1. Gaps \subseteq Nat /\ Gaps # {}
  <2>1. \A v \in S : MaxVersion - v \in Nat
    BY BoundAssumption DEF Version
  <2>2. QED
    BY <2>1
<1>2. \E g \in Gaps : \A h \in Gaps : ~ (<<h, g>> \in OpToRel(<, Nat))
  BY <1>1, NatLessThanWellFounded, WFMin
<1>3. PICK g \in Gaps : \A h \in Gaps : ~ (h < g)
  BY <1>1, <1>2 DEF OpToRel
<1>4. PICK v \in S : g = MaxVersion - v
  OBVIOUS
<1>5. \A w \in S : w <= v
  BY <1>3, <1>4, BoundAssumption DEF Version
<1>6. QED
  BY <1>5

\* latest_common_version is a common version, and none is later.
LEMMA LatestCommonIsNewest ==
  ASSUME 1 \in Common
  PROVE  LatestCommon \in Common /\ \A w \in Common : w <= LatestCommon
<1>1. Common \in SUBSET Version
  BY DEF Common
<1>2. \E v \in Common : \A w \in Common : w <= v
  BY <1>1, GreatestVersion
<1>3. QED
  BY <1>2 DEF LatestCommon

\* next_free_version is above every file there is.
LEMMA NextFreeIsAbove ==
  ASSUME TypeOK, 1 \in Common
  PROVE  NextFree \in Nat /\ NextFree > 0 /\ \A v \in Taken : v < NextFree
<1>1. Taken \in SUBSET Version /\ 1 \in Taken
  BY DEF Taken, TypeOK, Common, Kind
<1>2. \E v \in Taken : \A w \in Taken : w <= v
  BY <1>1, GreatestVersion
<1>3. PICK v \in Taken : (\A w \in Taken : w <= v) /\ NextFree = 1 + v
  BY <1>2 DEF NextFree
<1>4. QED
  BY <1>1, <1>3, BoundAssumption DEF Version

-----------------------------------------------------------------------------
(***************************************************************************)
(* The invariant is inductive.                                             *)
(***************************************************************************)

LEMMA InitInv == Init => IInv
<1> SUFFICES ASSUME Init PROVE IInv
  OBVIOUS
<1>1. 1 \in Version
  BY BoundAssumption DEF Version
<1>2. TypeOK
  BY <1>1, BoundAssumption DEF Init, TypeOK, Kind
<1>3. 1 \in Common
  BY <1>1 DEF Init, Common
<1>4. \A k \in Kind : Repaired(k) = 1
  BY DEF Init, Repaired, AllMarked, Kind
<1>5. QED
  BY <1>2, <1>3, <1>4 DEF IInv, Recoverable, Progress, Saving, Init

\* What every step but a save leaves alone.
LEMMA SameFiles ==
  ASSUME UNCHANGED archive
  PROVE  Common' = Common /\ LatestCommon' = LatestCommon
<1>1. Common' = Common
  BY DEF Common
<1>2. QED
  BY <1>1 DEF LatestCommon

\* An entry into a loop, or an exit: nothing changes but pc, i, target and next.
LEMMA QuietRecoverable ==
  ASSUME Recoverable, UNCHANGED <<files, links>>
  PROVE  Recoverable'
BY SameFiles DEF Recoverable, Repaired, AllMarked, files, links

\* RenewableCert, _fix_symlinks and what follows them.
LEMMA FixStep ==
  ASSUME IInv, Open \/ Fix \/ Check \/ NotRenewed \/ Interrupt \/ Crash
  PROVE  IInv'
<1>1. UNCHANGED <<files, links>> /\ i' = 1 /\ crashes' \in 0..MaxCrashes
  BY BoundAssumption
     DEF Open, Fix, Check, NotRenewed, Interrupt, Crash, Goto, FixSymlinks, IInv, TypeOK
<1>2. TypeOK'
  BY <1>1 DEF IInv, TypeOK, Open, Fix, Check, NotRenewed, Interrupt, Crash, Goto,
              FixSymlinks, files, links, Kind, Loops
<1>3. 1 \in Common' /\ Recoverable'
  BY <1>1, SameFiles, QuietRecoverable DEF IInv, files
<1>4. Progress'
  <2>1. CASE Fix
    BY <2>1, SameFiles
       DEF IInv, TypeOK, Progress, Recoverable, Repaired, AllMarked, AllAt, Fix, Goto,
           files, links, Kind, Common
  <2>2. CASE Check
    BY <2>2, SameFiles
       DEF IInv, Progress, AllAt, NoMarks, Check, Goto, files, links
  <2>3. pc' \in {"fix", "down"} => Progress'
    BY DEF Progress
  <2>4. QED
    BY <2>1, <2>2, <2>3 DEF Open, NotRenewed, Interrupt, Crash, Goto, FixSymlinks
<1>5. Saving'
  BY DEF Saving, Open, Fix, Check, NotRenewed, Interrupt, Crash, Goto, FixSymlinks
<1>6. QED
  BY <1>2, <1>3, <1>4, <1>5 DEF IInv

\* One turn of a loop that rolls the links back, or of the one that forgets
\* the previous links.
LEMMA RollBackStep ==
  ASSUME IInv, FixUnlink \/ FixLink \/ Clean
  PROVE  IInv'
<1>1. TypeOK'
  BY DEF IInv, TypeOK, FixUnlink, FixLink, Clean, Loop, Goto, files, Kind, Loops
<1>2. UNCHANGED archive /\ Common' = Common /\ LatestCommon' = LatestCommon
  BY SameFiles DEF FixUnlink, FixLink, Clean, files
<1>3. Recoverable' /\ Progress'
  <2>1. CASE FixUnlink
    <3>1. PICK d \in Common : /\ \A k \in Kind : prev[k] = d
                              /\ \A k \in Kind : k < i => cur[k] = d
      BY <2>1 DEF IInv, Progress, FixUnlink
    <3>2. \A k \in Kind : k < i => cur'[k] = d
      BY <2>1, <3>1 DEF IInv, TypeOK, FixUnlink, Kind
    <3>3. pc' = "fixlink" /\ i' = i /\ prev' = prev
      BY <2>1 DEF FixUnlink
    <3>4. Progress'
      BY <1>2, <3>1, <3>2, <3>3 DEF Progress
    <3>5. d # 0
      BY DEF Common, Version
    <3>6. QED
      BY <1>2, <3>1, <3>3, <3>4, <3>5 DEF Recoverable, Repaired, AllMarked
  <2>2. CASE FixLink
    <3>1. PICK d \in Common : /\ \A k \in Kind : prev[k] = d
                              /\ \A k \in Kind : k < i => cur[k] = d
      BY <2>2 DEF IInv, Progress, FixLink
    <3>2. \A k \in Kind : k < i + 1 => cur'[k] = d
      BY <2>2, <3>1 DEF IInv, TypeOK, FixLink, Kind
    <3>3. d \in Version /\ d # 0 /\ prev' = prev /\ i \in Kind
      BY <2>2 DEF FixLink, Common, Version, IInv, TypeOK
    <3>4. Recoverable'
      BY <1>2, <3>1, <3>3 DEF Recoverable, Repaired, AllMarked
    <3>5. CASE i < 4
      BY <1>2, <2>2, <3>1, <3>2, <3>3, <3>4, <3>5 DEF FixLink, Loop, Progress
    <3>6. CASE ~(i < 4)
      <4>1. pc' = "clean" /\ i' = 1
        BY <2>2, <3>6 DEF FixLink, Loop, Goto
      <4>2. \A k \in Kind : cur'[k] = d
        BY <3>2, <3>3, <3>6 DEF Kind
      <4>3. \A k \in Kind : ~(k < 1)
        BY DEF Kind
      <4>4. QED
        BY <1>2, <3>1, <3>3, <3>4, <4>1, <4>2, <4>3 DEF Progress, AllAt
    <3>7. QED
      BY <3>5, <3>6
  <2>3. CASE Clean
    <3>1. PICK d \in Version : /\ AllAt(d)
                               /\ AllMarked => \A k \in Kind : prev[k] = d
                               /\ \A k \in Kind : k < i => prev[k] = 0
      BY <2>3 DEF IInv, Progress, Clean
    <3>2. \A k \in Kind : k < i + 1 => prev'[k] = 0
      BY <2>3, <3>1 DEF IInv, TypeOK, Clean, Kind
    <3>3. i \in Kind /\ 1 \in Kind /\ cur' = cur /\ AllAt(d)'
      BY <1>2, <2>3, <3>1 DEF Clean, IInv, TypeOK, Kind, AllAt
    <3>4. ~AllMarked'
      BY <3>2, <3>3 DEF AllMarked, Kind
    <3>5. Recoverable'
      BY <3>3, <3>4 DEF Recoverable, Repaired, AllAt
    <3>6. CASE i < 4
      BY <2>3, <3>1, <3>2, <3>3, <3>4, <3>5, <3>6 DEF Clean, Loop, Progress
    <3>7. CASE ~(i < 4)
      <4>1. pc' \in {"check", "renew", "down"}
        BY <2>3, <3>7 DEF Clean, Loop, Goto, IInv, TypeOK
      <4>2. NoMarks'
        BY <3>2, <3>3, <3>7 DEF Kind, NoMarks
      <4>3. QED
        BY <3>3, <3>5, <4>1, <4>2 DEF Progress
    <3>8. QED
      BY <3>6, <3>7
  <2>4. QED
    BY <2>1, <2>2, <2>3
<1>4. Saving'
  BY DEF IInv, TypeOK, Saving, FixUnlink, FixLink, Clean, Loop, Goto
<1>5. QED
  BY <1>1, <1>2, <1>3, <1>4 DEF IInv

\* ensure_deployed.
LEMMA EnsureDeployedStep ==
  ASSUME IInv, EnsureDeployed
  PROVE  IInv'
<1>1. UNCHANGED <<files, links, crashes>> /\ i' = 1
  BY DEF EnsureDeployed, UpdateAllLinksTo, Goto
<1>2. PICK d \in Version : AllAt(d)
  BY DEF IInv, Progress, EnsureDeployed
<1>3. AllAt(d)' /\ NoMarks' /\ Common' = Common /\ LatestCommon' = LatestCommon
  BY <1>1, <1>2, SameFiles DEF IInv, Progress, EnsureDeployed, AllAt, NoMarks, files, links
<1>4. LatestCommon \in Version
  BY LatestCommonIsNewest DEF IInv, Common
<1>5. TypeOK'
  BY <1>1, <1>4 DEF IInv, TypeOK, EnsureDeployed, UpdateAllLinksTo, Goto, files, links,
                    Kind, Loops
<1>6. Recoverable' /\ 1 \in Common'
  BY <1>1, <1>3, QuietRecoverable DEF IInv
<1>7. Progress' /\ Saving'
  <2>1. CASE HasPendingDeployment
    <3>1. pc' = "mark" /\ target' = LatestCommon
      BY <2>1 DEF EnsureDeployed, UpdateAllLinksTo, Goto
    <3>2. d < LatestCommon
      BY <1>2, <2>1 DEF HasPendingDeployment, AllAt
    <3>3. Moving(d)'
      BY <1>2, <1>3, <3>1, <3>2 DEF Moving, AllAt
    <3>4. \A k \in Kind : prev'[k] = IF k < i' THEN d ELSE 0
      BY <1>1, <1>3 DEF NoMarks, Kind
    <3>5. QED
      BY <1>3, <3>1, <3>3, <3>4 DEF Progress, Saving
  <2>2. CASE ~HasPendingDeployment
    BY <1>3, <2>2 DEF EnsureDeployed, Goto, Progress, Saving
  <2>3. QED
    BY <2>1, <2>2
<1>8. QED
  BY <1>5, <1>6, <1>7 DEF IInv

\* renew_cert picks the version.
LEMMA RenewStep ==
  ASSUME IInv, Renew
  PROVE  IInv'
<1>1. UNCHANGED <<files, links, crashes>> /\ i' = 1 /\ pc' = "save" /\ target' = NextFree
  BY DEF Renew, Goto
<1>2. NextFree \in Version /\ \A v \in Taken : v < NextFree
  BY NextFreeIsAbove DEF IInv, Renew, Version
<1>3. TypeOK'
  BY <1>1, <1>2 DEF IInv, TypeOK, Renew, files, links, Kind, Loops
<1>4. Recoverable' /\ Common' = Common
  BY <1>1, SameFiles, QuietRecoverable DEF IInv, files
<1>5. Progress'
  BY <1>1, <1>4 DEF IInv, Progress, Renew, AllAt, NoMarks, files, links
<1>6. \A k \in Kind : \A v \in archive[k] : v < NextFree /\ v \in Version
  BY <1>2 DEF Taken, IInv, TypeOK
<1>7. \A n \in Kind : Written(n) \in Kind /\ ~(n < 1)
  BY DEF Kind, Written
<1>8. Saving'
  BY <1>1, <1>2, <1>6, <1>7 DEF Saving, files, Version
<1>9. QED
  BY <1>3, <1>4, <1>5, <1>8 DEF IInv

\* One file is written, whole or not, under the version being saved.
LEMMA WriteFileKeeps ==
  ASSUME IInv, pc = "save", WriteFile
  PROVE  /\ target \in Version /\ archive' \in [Kind -> SUBSET Version]
         /\ Common' = IF i < 4 THEN Common ELSE Common \cup {target}
         /\ \A k \in Kind : \A v \in archive'[k] : v <= target
         /\ \A n \in Kind : target \in archive'[Written(n)] <=> n < i + 1
         /\ \A v \in Common : v < target
<1>1. target \in Version /\ i \in Kind
  BY DEF IInv, TypeOK, Saving
<1>2. /\ Written(1) = 2 /\ Written(2) = 1 /\ Written(3) = 3 /\ Written(4) = 4
  BY DEF Written
<1>3. \A n \in Kind : Written(n) \in Kind
  BY <1>2 DEF Kind
<1>4. \A m, n \in Kind : Written(m) = Written(n) => m = n
  BY <1>2 DEF Kind
<1>5. \A k \in Kind :
        archive'[k] = IF k = Written(i) THEN archive[k] \cup {target} ELSE archive[k]
  BY <1>1, <1>3 DEF WriteFile, IInv, TypeOK
<1>6. archive' \in [Kind -> SUBSET Version]
  BY <1>1, <1>3 DEF WriteFile, IInv, TypeOK
<1>7. \A k \in Kind : \A v \in archive'[k] : v <= target
  <2>1. target <= target /\ \A k \in Kind : \A v \in archive[k] : v <= target
    BY <1>1 DEF IInv, Saving, Version
  <2>2. \A k \in Kind : archive'[k] \subseteq archive[k] \cup {target}
    BY <1>5
  <2>3. QED
    BY <2>1, <2>2
<1>8. \A n \in Kind : target \in archive'[Written(n)] <=> n < i + 1
  BY <1>1, <1>3, <1>4, <1>5 DEF IInv, Saving, Kind
<1>9. target \notin Common
  BY <1>1, <1>3 DEF IInv, Saving, Common, Kind
<1>10. \A v \in Common : v < target
  BY <1>1, <1>9 DEF IInv, Saving, Common, Kind, Version
<1>11. \A v \in Version : v # target => (v \in Common' <=> v \in Common)
  BY <1>5 DEF Common
<1>12. target \in Common' <=> ~(i < 4)
  <2>1. CASE i < 4
    BY <1>1, <1>3, <1>8, <2>1 DEF Common, Kind
  <2>2. CASE ~(i < 4)
    <3>1. \A n \in Kind : target \in archive'[Written(n)]
      BY <1>1, <1>8, <2>2 DEF Kind
    <3>2. \A k \in Kind : \E n \in Kind : k = Written(n)
      BY <1>2 DEF Kind
    <3>3. QED
      BY <1>1, <3>1, <3>2, <2>2 DEF Common
  <2>3. QED
    BY <2>1, <2>2
<1>13. Common' = IF i < 4 THEN Common ELSE Common \cup {target}
  BY <1>1, <1>9, <1>11, <1>12 DEF Common
<1>14. QED
  BY <1>1, <1>6, <1>7, <1>8, <1>10, <1>13

\* The links do not move while files are written.
LEMMA SaveRecoverable ==
  ASSUME IInv, pc = "save", WriteFile, UNCHANGED links
  PROVE  1 \in Common' /\ Recoverable'
BY WriteFileKeeps DEF IInv, Recoverable, Repaired, AllMarked, links

\* save_successor.
LEMMA SaveStep ==
  ASSUME IInv, SaveFile
  PROVE  IInv'
<1>1. pc = "save" /\ WriteFile /\ UNCHANGED <<torn, links, crashes>> /\ target' = target
  BY DEF SaveFile, UpdateAllLinksTo
<1>2. TypeOK'
  BY <1>1, WriteFileKeeps
     DEF IInv, TypeOK, SaveFile, UpdateAllLinksTo, Goto, links, Kind, Loops
<1>3. 1 \in Common' /\ Recoverable'
  BY <1>1, SaveRecoverable
<1>4. PICK d \in Version : AllAt(d)
  BY <1>1 DEF IInv, Progress
<1>5. AllAt(d)' /\ NoMarks' /\ d < target
  BY <1>1, <1>4, WriteFileKeeps DEF IInv, Progress, AllAt, NoMarks, links
<1>6. CASE i < 4
  <2>1. pc' = "save" /\ i' = i + 1
    BY <1>6 DEF SaveFile
  <2>2. Progress'
    BY <1>5, <2>1 DEF Progress
  <2>3. Saving'
    BY <1>1, <2>1, WriteFileKeeps DEF Saving, Written
  <2>4. QED
    BY <1>2, <1>3, <2>2, <2>3 DEF IInv
<1>7. CASE ~(i < 4)
  <2>1. pc' = "mark" /\ i' = 1
    BY <1>7 DEF SaveFile, UpdateAllLinksTo, Goto
  <2>2. target \in Common' /\ \A w \in Common' : w <= target
    <3>1. target \in Version /\ Common' = Common \cup {target} /\ \A v \in Common : v < target
      BY <1>1, <1>7, WriteFileKeeps
    <3>2. target <= target /\ \A v \in Common : v <= target
      BY <3>1 DEF Common, Version
    <3>3. QED
      BY <3>1, <3>2
  <2>3. LatestCommon' \in Common' /\ \A w \in Common' : w <= LatestCommon'
    <3>1. (1 \in Common)'
      BY <1>3
    <3>2. (1 \in Common => LatestCommon \in Common /\ \A w \in Common : w <= LatestCommon)'
      BY LatestCommonIsNewest, PTL
    <3>3. QED
      BY <3>1, <3>2
  <2>4. target = LatestCommon'
    BY <2>2, <2>3 DEF Common, Version
  <2>5. Moving(d)'
    BY <1>1, <1>5, <2>4 DEF Moving, AllAt
  <2>6. \A k \in Kind : prev'[k] = IF k < i' THEN d ELSE 0
    BY <1>5, <2>1 DEF NoMarks, Kind
  <2>7. QED
    BY <1>2, <1>3, <1>5, <2>1, <2>5, <2>6 DEF IInv, Progress, Saving
<1>8. QED
  BY <1>6, <1>7

\* A file of the new version is there, and the process is gone.
LEMMA CrashWritingStep ==
  ASSUME IInv, CrashWriting
  PROVE  IInv'
<1>1. pc = "save" /\ WriteFile /\ UNCHANGED <<links, target, next>> /\ pc' = "down" /\ i' = 1
  BY DEF CrashWriting, Goto
<1>2. TypeOK'
  BY <1>1, WriteFileKeeps, BoundAssumption
     DEF IInv, TypeOK, CrashWriting, links, Kind
<1>3. QED
  BY <1>1, <1>2, SaveRecoverable DEF IInv, Progress, Saving

\* update_all_links_to, one turn of one of its loops.
LEMMA UpdateStep ==
  ASSUME IInv, Mark \/ Unlink \/ Relink \/ Unmark
  PROVE  IInv'
<1>1. TypeOK'
  BY DEF IInv, TypeOK, Mark, Unlink, Relink, Unmark, Loop, Goto, files, Kind, Loops
<1>2. /\ UNCHANGED <<archive, target>> /\ i \in Kind /\ 1 \in Kind
      /\ Common' = Common /\ LatestCommon' = LatestCommon
  BY SameFiles DEF Mark, Unlink, Relink, Unmark, files, IInv, TypeOK, Kind
<1>3. LatestCommon \in Common
  BY LatestCommonIsNewest DEF IInv
<1>4. Recoverable' /\ Progress'
  <2>1. CASE Mark
    <3>1. PICK d \in Version : /\ AllAt(d) /\ Moving(d)
                               /\ \A k \in Kind : prev[k] = IF k < i THEN d ELSE 0
      BY <2>1 DEF IInv, Progress, Mark
    <3>2. \A k \in Kind : prev'[k] = IF k < i + 1 THEN d ELSE 0
      BY <1>2, <2>1, <3>1 DEF Mark, AllAt, IInv, TypeOK, Kind
    <3>3. AllAt(d)' /\ Moving(d)' /\ d # 0 /\ cur' = cur
      BY <1>2, <2>1, <3>1 DEF Mark, AllAt, Moving, Version
    <3>4. Recoverable'
      BY <3>2, <3>3 DEF Recoverable, Repaired, AllMarked, AllAt, Kind
    <3>5. CASE i < 4
      BY <2>1, <3>2, <3>3, <3>4, <3>5 DEF Mark, Loop, Progress
    <3>6. CASE ~(i < 4)
      <4>1. pc' = "unlink" /\ i' = 1
        BY <2>1, <3>6 DEF Mark, Loop, Goto
      <4>2. \A k \in Kind : prev'[k] = d /\ ~(k < 1)
        BY <1>2, <3>2, <3>6 DEF Kind
      <4>3. QED
        BY <3>3, <3>4, <4>1, <4>2 DEF Progress
    <3>7. QED
      BY <3>5, <3>6
  <2>2. CASE Unlink
    <3>1. PICK d \in Version : /\ Moving(d)
                               /\ \A k \in Kind : prev[k] = d
                               /\ \A k \in Kind : k < i => cur[k] = target
      BY <2>2 DEF IInv, Progress, Unlink
    <3>2. \A k \in Kind : k < i => cur'[k] = target
      BY <2>2, <3>1 DEF IInv, TypeOK, Unlink, Kind
    <3>3. Moving(d)' /\ d # 0 /\ d \in Common /\ UNCHANGED <<prev, i>> /\ pc' = "relink"
      BY <1>2, <2>2, <3>1 DEF Unlink, Moving, Version
    <3>4. Recoverable'
      BY <1>2, <3>1, <3>3 DEF Recoverable, Repaired, AllMarked
    <3>5. QED
      BY <1>2, <3>1, <3>2, <3>3, <3>4 DEF Progress
  <2>3. CASE Relink
    <3>1. PICK d \in Version : /\ Moving(d)
                               /\ \A k \in Kind : prev[k] = d
                               /\ \A k \in Kind : k < i => cur[k] = target
      BY <2>3 DEF IInv, Progress, Relink
    <3>2. \A k \in Kind : k < i + 1 => cur'[k] = target
      BY <2>3, <3>1 DEF IInv, TypeOK, Relink, Kind
    <3>3. Moving(d)' /\ d # 0 /\ d \in Common /\ prev' = prev
      BY <1>2, <2>3, <3>1 DEF Relink, Moving, Version
    <3>4. Recoverable'
      BY <1>2, <3>1, <3>3 DEF Recoverable, Repaired, AllMarked
    <3>5. CASE i < 4
      BY <1>2, <2>3, <3>1, <3>2, <3>3, <3>4, <3>5 DEF Relink, Loop, Progress
    <3>6. CASE ~(i < 4)
      <4>1. pc' = "unmark" /\ i' = 1
        BY <2>3, <3>6 DEF Relink, Loop, Goto
      <4>2. AllAt(target)'
        BY <1>2, <1>3, <3>1, <3>2, <3>6 DEF AllAt, Moving, Kind
      <4>3. \A k \in Kind : ~(k < 1)
        BY DEF Kind
      <4>4. QED
        BY <1>2, <3>1, <3>3, <3>4, <4>1, <4>2, <4>3 DEF Progress
    <3>7. QED
      BY <3>5, <3>6
  <2>4. CASE Unmark
    <3>1. PICK d \in Version : /\ AllAt(target) /\ Moving(d)
                               /\ \A k \in Kind : prev[k] = IF k < i THEN 0 ELSE d
      BY <2>4 DEF IInv, Progress, Unmark
    <3>2. \A k \in Kind : prev'[k] = IF k < i + 1 THEN 0 ELSE d
      BY <1>2, <2>4, <3>1 DEF IInv, TypeOK, Unmark, Kind
    <3>3. AllAt(target)' /\ Moving(d)' /\ target \in Version
      BY <1>2, <1>3, <2>4, <3>1 DEF Unmark, AllAt, Moving, Common
    <3>4. ~AllMarked'
      BY <1>2, <3>2 DEF AllMarked, Kind
    <3>5. Recoverable'
      BY <1>2, <3>3, <3>4 DEF Recoverable, Repaired, AllAt
    <3>6. CASE i < 4
      BY <1>2, <2>4, <3>2, <3>3, <3>5, <3>6 DEF Unmark, Loop, Progress
    <3>7. CASE ~(i < 4)
      <4>1. pc' = next /\ pc' \in {"check", "renew", "down"}
        BY <2>4, <3>7 DEF Unmark, Loop, Goto, IInv, TypeOK
      <4>2. NoMarks'
        BY <1>2, <3>2, <3>7 DEF Kind, NoMarks
      <4>3. QED
        BY <1>2, <3>3, <3>5, <4>1, <4>2 DEF Progress
    <3>8. QED
      BY <3>6, <3>7
  <2>5. QED
    BY <2>1, <2>2, <2>3, <2>4
<1>5. Saving'
  BY DEF IInv, TypeOK, Saving, Mark, Unlink, Relink, Unmark, Loop, Goto
<1>6. QED
  BY <1>1, <1>2, <1>4, <1>5 DEF IInv

LEMMA StepInv == IInv /\ [Next]_vars => IInv'
<1> SUFFICES ASSUME IInv, [Next]_vars
             PROVE  IInv'
  OBVIOUS
<1>1. CASE Open \/ Fix \/ Check \/ NotRenewed \/ Interrupt \/ Crash
  BY <1>1, FixStep
<1>2. CASE FixUnlink \/ FixLink \/ Clean
  BY <1>2, RollBackStep
<1>3. CASE EnsureDeployed
  BY <1>3, EnsureDeployedStep
<1>4. CASE Renew
  BY <1>4, RenewStep
<1>5. CASE SaveFile
  BY <1>5, SaveStep
<1>6. CASE CrashWriting
  BY <1>6, CrashWritingStep
<1>7. CASE Mark \/ Unlink \/ Relink \/ Unmark
  BY <1>7, UpdateStep
<1>8. CASE UNCHANGED vars
  <2>1. UNCHANGED <<archive, torn, cur, prev, pc, i, target, next, crashes>>
    BY <1>8 DEF vars, files, links
  <2>2. Common' = Common /\ LatestCommon' = LatestCommon
    BY <2>1, SameFiles
  <2>3. Progress'
    BY <2>1, <2>2 DEF IInv, Progress, AllAt, AllMarked, Moving, NoMarks
  <2>4. QED
    BY <2>1, <2>2, <2>3, QuietRecoverable
       DEF IInv, TypeOK, Saving, files, links
<1>9. QED
  BY <1>1, <1>2, <1>3, <1>4, <1>5, <1>6, <1>7, <1>8 DEF Next, Running

\* In every reachable state the links can be repaired to one whole version, and
\* the loops of storage.py have brought them where their positions say.
THEOREM LinksInvariant == Spec => []IInv
BY InitInv, StepInv, PTL DEF Spec

\* RenewableCert and update_all_links_to leave four links that lead to files of
\* one version, and no previous links, wherever a run goes on.
THEOREM Opened == Spec => []OpenedClean
<1>1. IInv => OpenedClean
  BY DEF IInv, Progress, AllAt, NoMarks, OpenedClean, LinksSound, Common, Kind
<1>2. QED
  BY <1>1, LinksInvariant, PTL

-----------------------------------------------------------------------------
(***************************************************************************)
(* The refinement of LineageStore.                                         *)
(***************************************************************************)

\* The refinement mapping shows the version the links are worth.
LEMMA DeployedIs ==
  \A v \in Version : (\A k \in Kind : Repaired(k) = v) => Deployed = v
BY DEF Deployed, Kind

\* A step that neither completes a version nor changes what the links are worth
\* is a stutter of LineageStore.
LEMMA Stutters ==
  ASSUME NEW d \in Version, Common' = Common,
         \A k \in Kind : Repaired(k) = d,
         \A k \in Kind : Repaired(k)' = d
  PROVE  UNCHANGED Store!vars
<1>1. Deployed = d
  BY DeployedIs
<1>2. (\A v \in Version : (\A k \in Kind : Repaired(k) = v) => Deployed = v)'
  BY DeployedIs, PTL
<1>3. Deployed' = d
  BY <1>2
<1>4. QED
  BY <1>1, <1>3 DEF Store!vars

\* Nothing but a previous link or a live link that does not count is changed.
LEMMA QuietStutters ==
  ASSUME IInv, UNCHANGED <<archive, links>>
  PROVE  UNCHANGED Store!vars
<1>1. Common' = Common
  BY SameFiles
<1>2. PICK d \in Common : \A k \in Kind : Repaired(k) = d
  BY DEF IInv, Recoverable
<1>3. d \in Version /\ \A k \in Kind : Repaired(k)' = d
  BY <1>2 DEF Repaired, AllMarked, links, Common
<1>4. QED
  BY <1>1, <1>2, <1>3, Stutters

\* Rolling back does not change what the links are worth.
LEMMA RollBackStutters ==
  ASSUME IInv, FixUnlink \/ FixLink \/ Clean
  PROVE  UNCHANGED Store!vars
<1>1. Common' = Common
  BY SameFiles DEF FixUnlink, FixLink, Clean, files
<1>2. CASE FixUnlink \/ FixLink
  <2>1. PICK d \in Common : \A k \in Kind : prev[k] = d
    BY <1>2 DEF IInv, Progress, FixUnlink, FixLink
  <2>2. d \in Version /\ d # 0 /\ prev' = prev
    BY <1>2 DEF FixUnlink, FixLink, Common, Version
  <2>3. \A k \in Kind : Repaired(k) = d /\ Repaired(k)' = d
    BY <2>1, <2>2 DEF Repaired, AllMarked
  <2>4. QED
    BY <1>1, <2>2, <2>3, Stutters
<1>3. CASE Clean
  <2>1. PICK d \in Version : /\ AllAt(d)
                             /\ AllMarked => \A k \in Kind : prev[k] = d
    BY <1>3 DEF IInv, Progress, Clean
  <2>2. cur' = cur /\ i \in Kind /\ prev'[i] = 0
    BY <1>3 DEF Clean, IInv, TypeOK
  <2>3. ~AllMarked'
    BY <2>2 DEF AllMarked
  <2>4. \A k \in Kind : Repaired(k) = d /\ Repaired(k)' = d
    BY <2>1, <2>2, <2>3 DEF Repaired, AllAt
  <2>5. QED
    BY <1>1, <2>1, <2>4, Stutters
<1>4. QED
  BY <1>2, <1>3

\* Moving the links deploys the newest version when the first previous link goes,
\* and changes nothing before and after.
LEMMA UpdateRefines ==
  ASSUME IInv, Mark \/ Unlink \/ Relink \/ Unmark
  PROVE  [Store!Next]_Store!vars
<1>1. Common' = Common /\ i \in Kind /\ 1 \in Kind
  BY SameFiles DEF Mark, Unlink, Relink, Unmark, files, IInv, TypeOK, Kind
<1>2. CASE Mark
  <2>1. PICK d \in Version : /\ AllAt(d)
                             /\ \A k \in Kind : prev[k] = IF k < i THEN d ELSE 0
    BY <1>2 DEF IInv, Progress, Mark
  <2>2. cur' = cur /\ \A k \in Kind : prev'[k] = IF k < i + 1 THEN d ELSE 0
    BY <1>2, <2>1 DEF Mark, AllAt, IInv, TypeOK, Kind
  <2>3. \A k \in Kind : Repaired(k) = d
    BY <1>1, <2>1 DEF Repaired, AllMarked, AllAt, Kind
  <2>4. \A k \in Kind : Repaired(k)' = d
    BY <1>1, <2>1, <2>2 DEF Repaired, AllMarked, AllAt, Kind
  <2>5. QED
    BY <1>1, <2>1, <2>3, <2>4, Stutters
<1>3. CASE Unlink \/ Relink
  <2>1. PICK d \in Version : \A k \in Kind : prev[k] = d
    BY <1>3 DEF IInv, Progress, Unlink, Relink
  <2>2. d # 0 /\ prev' = prev
    BY <1>3 DEF Unlink, Relink, Version
  <2>3. \A k \in Kind : Repaired(k) = d /\ Repaired(k)' = d
    BY <2>1, <2>2 DEF Repaired, AllMarked
  <2>4. QED
    BY <1>1, <2>3, Stutters
<1>4. CASE Unmark
  <2>1. PICK d \in Version : /\ AllAt(target) /\ Moving(d)
                             /\ \A k \in Kind : prev[k] = IF k < i THEN 0 ELSE d
    BY <1>4 DEF IInv, Progress, Unmark
  <2>2. cur' = cur /\ target' = target /\ prev'[i] = 0 /\ target \in Version
    BY <1>4, <2>1 DEF Unmark, IInv, TypeOK, AllAt, Common
  <2>3. \A k \in Kind : Repaired(k)' = target
    BY <1>1, <2>1, <2>2 DEF Repaired, AllMarked, AllAt
  <2>4. CASE i = 1
    <3>1. \A k \in Kind : prev[k] = d /\ d # 0
      BY <2>1, <2>4 DEF Kind, Version
    <3>2. \A k \in Kind : Repaired(k) = d
      BY <3>1 DEF Repaired, AllMarked
    <3>3. Deployed = d
      BY <3>2, DeployedIs
    <3>4. (\A v \in Version : (\A k \in Kind : Repaired(k) = v) => Deployed = v)'
      BY DeployedIs, PTL
    <3>5. Deployed' = target
      BY <2>2, <2>3, <3>4
    <3>6. target = Store!Newest
      BY <2>1 DEF Moving, LatestCommon, Store!Newest
    <3>7. Store!Deploy
      BY <1>1, <2>1, <3>3, <3>5, <3>6 DEF Store!Deploy, Moving
    <3>8. QED
      BY <3>7 DEF Store!Next
  <2>5. CASE i # 1
    <3>1. \A k \in Kind : Repaired(k) = target
      BY <1>1, <2>1, <2>5 DEF Repaired, AllMarked, AllAt, Kind
    <3>2. QED
      BY <1>1, <2>2, <2>3, <3>1, Stutters
  <2>6. QED
    BY <2>4, <2>5
<1>5. QED
  BY <1>2, <1>3, <1>4

\* Writing the fourth file of a version saves it; the others are stutters.
LEMMA WriteRefines ==
  ASSUME IInv, pc = "save", WriteFile, UNCHANGED links
  PROVE  [Store!Next]_Store!vars
<1>1. PICK d \in Common : \A k \in Kind : Repaired(k) = d
  BY DEF IInv, Recoverable
<1>2. d \in Version /\ \A k \in Kind : Repaired(k)' = d
  BY <1>1 DEF Repaired, AllMarked, links, Common
<1>3. CASE i < 4
  BY <1>1, <1>2, <1>3, Stutters, WriteFileKeeps
<1>4. CASE ~(i < 4)
  <2>1. /\ target \in Version /\ Common' = Common \cup {target}
        /\ \A v \in Common : target > v
    <3>1. /\ target \in Version /\ Common' = Common \cup {target}
          /\ \A v \in Common : v < target
      BY <1>4, WriteFileKeeps
    <3>2. QED
      BY <3>1 DEF Common, Version
  <2>2. Deployed = d
    BY <1>1, <1>2, DeployedIs
  <2>3. (\A v \in Version : (\A k \in Kind : Repaired(k) = v) => Deployed = v)'
    BY DeployedIs, PTL
  <2>4. Deployed' = d
    BY <1>2, <2>3
  <2>5. Store!Save(target)
    BY <2>1, <2>2, <2>4 DEF Store!Save
  <2>6. QED
    BY <2>1, <2>5 DEF Store!Next
<1>5. QED
  BY <1>3, <1>4

LEMMA StepRefines == IInv /\ [Next]_vars => [Store!Next]_Store!vars
<1> SUFFICES ASSUME IInv, [Next]_vars
             PROVE  [Store!Next]_Store!vars
  OBVIOUS
<1>1. CASE Open \/ Fix \/ Check \/ EnsureDeployed \/ NotRenewed \/ Renew
           \/ Interrupt \/ Crash \/ UNCHANGED vars
  <2>1. UNCHANGED <<archive, links>>
    BY <1>1 DEF Open, Fix, Check, EnsureDeployed, NotRenewed, Renew, Interrupt, Crash,
                vars, files
  <2>2. QED
    BY <2>1, QuietStutters
<1>2. CASE FixUnlink \/ FixLink \/ Clean
  BY <1>2, RollBackStutters
<1>3. CASE SaveFile \/ CrashWriting
  BY <1>3, WriteRefines DEF SaveFile, CrashWriting
<1>4. CASE Mark \/ Unlink \/ Relink \/ Unmark
  BY <1>4, UpdateRefines
<1>5. QED
  BY <1>1, <1>2, <1>3, <1>4 DEF Next, Running

LEMMA InitRefines == Init => Store!Init
<1> SUFFICES ASSUME Init PROVE Store!Init
  OBVIOUS
<1>1. 1 \in Version
  BY BoundAssumption DEF Version
<1>2. Common = {1}
  BY <1>1 DEF Init, Common, Kind
<1>3. \A k \in Kind : Repaired(k) = 1
  BY DEF Init, Repaired, AllMarked, Kind
<1>4. QED
  BY <1>1, <1>2, <1>3, DeployedIs DEF Store!Init

\* Whatever is killed or interrupted, the lineage as repaired moves from a whole
\* version to the newest whole version at once, for any number of versions.
THEOREM Refinement == Spec => ImplementsLineageStore
<1>1. Init => Store!Init
  BY InitRefines
<1>2. IInv /\ [Next]_vars => [Store!Next]_Store!vars
  BY StepRefines
<1>3. QED
  BY <1>1, <1>2, LinksInvariant, PTL DEF Spec, ImplementsLineageStore, Store!Spec
=============================================================================

---------------------------- MODULE LineageStore ----------------------------
(***************************************************************************)
(* What certbot's storage promises of one certificate lineage, with links, *)
(* recovery links and crash points left out.                               *)
(*                                                                         *)
(* There are versions saved in the archive, and one of them is deployed:   *)
(* it is what /live shows once an interrupted update has been repaired.    *)
(* A version is deployed as a whole, all four files at once, only after it *)
(* has been saved as a whole, and only to go forward.                      *)
(***************************************************************************)
EXTENDS Naturals

CONSTANT Version

VARIABLES saved,     \* the versions of which all four files are there
          deployed   \* the version that is live

vars == <<saved, deployed>>

Newest == CHOOSE v \in saved : \A w \in saved : w <= v

Init == saved = {1} /\ deployed = 1

\* The version is newer than any before.
Save(v) == /\ \A w \in saved : v > w
           /\ saved' = saved \cup {v}
           /\ UNCHANGED deployed

Deploy == /\ deployed < Newest
          /\ deployed' = Newest
          /\ UNCHANGED saved

Next == Deploy \/ \E v \in Version : Save(v)

Spec == Init /\ [][Next]_vars
=============================================================================

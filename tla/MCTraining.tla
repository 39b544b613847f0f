----------------------------- MODULE MCTraining -----------------------------
(* Three packs: "pack-a" with two characters, a pack of tier B that wants  *)
(* half of them at L1 and repeats one of them, and a pack that wants the   *)
(* second pack at L2; a host may find the manifest without the second.     *)
EXTENDS Training, TLC

CONSTANTS x, y, a, b, d

MCPos == a :> 1 @@ b :> 2 @@ d :> 3
MCMembers == a :> {x, y} @@ b :> {y} @@ d :> {x}
Mastery(p, n, l1, l2) ==
  [kind |-> "pack_mastery", requires |-> p, introduced |-> n, l1 |-> l1, l2 |-> l2]
MCRule == a :> [kind |-> "default_open"] @@ b :> Mastery(a, 90, 50, 0) @@ d :> Mastery(b, 100, 0, 60)
MCCatalogs == {{a, b, d}, {a, d}}

Symmetry == Permutations(Clients)
=============================================================================

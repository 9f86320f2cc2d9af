------------------------- MODULE MCSkillProvisioner -------------------------
(* Small instances of SkillProvisioner for TLC; values are in the cfg files. *)
EXTENDS SkillProvisioner, TLC

CONSTANTS triage, deploy, notes, ann, bob, p1, p2

(* Nothing tells skills, users or calls apart, and no property is about      *)
(* liveness.                                                                 *)
Symmetry == Permutations(Skills) \cup Permutations(Users) \cup Permutations(Provisions)
===============================================================================

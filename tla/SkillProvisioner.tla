--------------------------- MODULE SkillProvisioner ---------------------------
(***************************************************************************)
(* SkillProvisioner.provision on the skills directory of one workspace: the *)
(* manifest is read, permitted skills are copied one by one, skills of the  *)
(* old manifest that are no longer effective are deleted, and the manifest  *)
(* is rewritten.  Meanwhile administrators change permissions, allowed      *)
(* skills and the source, and users create directories of their own.        *)
(*                                                                          *)
(* A skill directory is the set of what is in it: "source" (a copy made by  *)
(* this tool, complete or not) and "user" (files the user put there).  The  *)
(* empty set is no directory.  Names are valid and directories are no       *)
(* symlinks: what the name and realpath checks turn away is not modelled.   *)
(*                                                                          *)
(* A definition named D_Variant is a mistaken D that some property rejects. *)
(***************************************************************************)
EXTENDS Naturals, FiniteSets

CONSTANTS
  Skills,       \* names a workspace may allow
  UserNames,    \* names users give to directories of their own
  Users,        \* users provisions are made for
  Provisions,   \* threads that call provision()
  Faults,       \* subset of {"stop"}: an exception or the process's death
  MaxFaults,    \* bound: such stops
  MaxChanges,   \* bound: changes by administrators
  None

ASSUME SkillAssumption ==
  /\ Faults \subseteq {"stop"}
  /\ MaxFaults \in Nat /\ MaxChanges \in Nat
  /\ None \notin Skills

VARIABLES
  disk,      \* disk[s]: what is in directory s
  manifest,  \* the managed names on disk; readable = FALSE: absent or truncated
  readable,
  usable,    \* usable[u]: skills can_use_skill grants u
  allowed,   \* allowed_skills of the workspace
  offered,   \* skills the source has, with their SKILL.md
  pc,        \* where each provision() is
  user,      \* for whom
  prev,      \* prev_managed
  todo,      \* skills the loop has still to look at, then those to clean up
  cand,      \* the skill the loop is at, once granted
  done,      \* provisioned
  faults, changes,
  asked,     \* history: the allowed_skills p was called with
  granted,   \* history: skills the user was granted at some time since p began
  present,   \* history: skills the source had at some time since p began
  trouble    \* history: a call has stopped half-way, or two have overlapped

grants == <<usable, allowed, offered>>
call   == <<user, asked>>
seen   == <<granted, present, trouble>>
vars   == <<disk, manifest, readable, usable, allowed, offered, pc, user, prev,
            todo, cand, done, faults, changes, asked, granted, present, trouble>>

Names == Skills \cup UserNames

Resting(p) == pc[p] \in {"idle", "finished"}

-------------------------------------------------------------------------------
Init ==
  /\ disk = [s \in Names |-> {}]
  /\ manifest = {} /\ readable = FALSE
  /\ usable = [u \in Users |-> Skills]
  /\ allowed = Skills
  /\ offered = Skills
  /\ pc = [p \in Provisions |-> "idle"]
  /\ user \in [Provisions -> Users]
  /\ prev = [p \in Provisions |-> {}]
  /\ todo = [p \in Provisions |-> {}]
  /\ cand = [p \in Provisions |-> None]
  /\ done = [p \in Provisions |-> {}]
  /\ faults = 0 /\ changes = 0
  /\ asked = [p \in Provisions |-> {}]
  /\ granted = [p \in Provisions |-> {}]
  /\ present = [p \in Provisions |-> {}]
  /\ trouble = FALSE

Goto(p, label) == pc' = [pc EXCEPT ![p] = label]

(* provision() is called with a resolved workspace, whose allowed_skills is *)
(* a tuple: later changes do not reach it.  _read_manifest takes an absent  *)
(* or broken file for an empty manifest.                                    *)
Begin(p) ==
  /\ pc[p] \in {"idle", "finished"}
  /\ \E u \in Users :
       /\ user' = [user EXCEPT ![p] = u]
       /\ granted' = [granted EXCEPT ![p] = usable[u]]
  /\ asked' = [asked EXCEPT ![p] = allowed]
  /\ present' = [present EXCEPT ![p] = offered]
  /\ trouble' = (trouble \/ \E q \in Provisions \ {p} : ~Resting(q))
  /\ prev' = [prev EXCEPT ![p] = IF readable THEN manifest ELSE {}]
  /\ todo' = [todo EXCEPT ![p] = allowed]
  /\ done' = [done EXCEPT ![p] = {}]
  /\ Goto(p, "loop")
  /\ UNCHANGED <<disk, manifest, readable, grants, cand, faults, changes>>

(* One turn of the loop: the permission is asked, then the source, then the *)
(* skill copied into whatever directory is there.  Denied and missing (or   *)
(* malformed) skills are passed over.                                       *)
Granted_Always(p, s) == TRUE

Granted_OnceManaged(p, s) == s \in usable[user[p]] \cup prev[p]

Granted(p, s) == s \in usable[user[p]]

Permit(p) ==
  /\ pc[p] = "loop"
  /\ \E s \in todo[p] :
       /\ todo' = [todo EXCEPT ![p] = @ \ {s}]
       /\ \/ ~Granted(p, s) /\ UNCHANGED <<pc, cand>>
          \/ /\ Granted(p, s)
             /\ cand' = [cand EXCEPT ![p] = s]
             /\ Goto(p, "source")
  /\ UNCHANGED <<disk, manifest, readable, grants, call, seen, prev, done, faults,
                 changes>>

Miss(p) ==
  /\ pc[p] = "source" /\ cand[p] \notin offered
  /\ cand' = [cand EXCEPT ![p] = None]
  /\ Goto(p, "loop")
  /\ UNCHANGED <<disk, manifest, readable, grants, call, seen, prev, todo, done,
                 faults, changes>>

Copy(p) ==
  /\ pc[p] = "source" /\ cand[p] \in offered
  /\ disk' = [disk EXCEPT ![cand[p]] = @ \cup {"source"}]
  /\ done' = [done EXCEPT ![p] = @ \cup {cand[p]}]
  /\ cand' = [cand EXCEPT ![p] = None]
  /\ Goto(p, "loop")
  /\ UNCHANGED <<manifest, readable, grants, call, seen, prev, todo, faults, changes>>

EndLoop_Sweeps(p) ==
  /\ pc[p] = "loop" /\ todo[p] = {}
  /\ todo' = [todo EXCEPT ![p] = {s \in Names : disk[s] # {}} \ done[p]]
  /\ Goto(p, "revoke")
  /\ UNCHANGED <<disk, manifest, readable, grants, call, seen, prev, cand, done,
                 faults, changes>>

EndLoop(p) ==
  /\ pc[p] = "loop" /\ todo[p] = {}
  /\ todo' = [todo EXCEPT ![p] = prev[p] \ done[p]]
  /\ Goto(p, "revoke")
  /\ UNCHANGED <<disk, manifest, readable, grants, call, seen, prev, cand, done,
                 faults, changes>>

(* rmtree takes the directory with everything in it.                        *)
Remove(p) ==
  /\ pc[p] = "revoke"
  /\ \E s \in todo[p] :
       /\ disk' = [disk EXCEPT ![s] = {}]
       /\ todo' = [todo EXCEPT ![p] = @ \ {s}]
  /\ UNCHANGED <<manifest, readable, grants, pc, call, seen, prev, cand, done,
                 faults, changes>>

(* _write_manifest: opening the file empties it, then it is written.        *)
Truncate(p) ==
  /\ pc[p] = "revoke" /\ todo[p] = {}
  /\ readable' = FALSE /\ manifest' = {}
  /\ Goto(p, "write")
  /\ UNCHANGED <<disk, grants, call, seen, prev, todo, cand, done, faults, changes>>

WriteManifest_KeepsOld(p) ==
  /\ pc[p] = "write"
  /\ readable' = TRUE /\ manifest' = done[p] \cup prev[p]
  /\ Goto(p, "finished")
  /\ UNCHANGED <<disk, grants, call, seen, prev, todo, cand, done, faults, changes>>

(* The text goes over what another call wrote since the file was emptied;   *)
(* a longer one sticks out behind it and the file no longer parses.         *)
Overlaid(p) == readable /\ manifest # done[p]

WriteManifest(p) ==
  /\ pc[p] = "write"
  /\ \/ readable' = TRUE /\ manifest' = done[p]
     \/ Overlaid(p) /\ readable' = FALSE /\ manifest' = {}
  /\ Goto(p, "finished")
  /\ UNCHANGED <<disk, grants, call, seen, prev, todo, cand, done, faults, changes>>

(* Reading the manifest, a check, copytree or rmtree raises, the last two   *)
(* having done part of their work or none, or the process dies.             *)
Stop(p) ==
  /\ "stop" \in Faults /\ faults < MaxFaults
  /\ pc[p] \in {"loop", "source", "revoke", "write"}
  /\ faults' = faults + 1
  /\ trouble' = TRUE
  /\ \/ UNCHANGED disk
     \/ /\ pc[p] = "source" /\ cand[p] \in offered
        /\ disk' = [disk EXCEPT ![cand[p]] = @ \cup {"source"}]
  /\ cand' = [cand EXCEPT ![p] = None]
  /\ Goto(p, "idle")
  /\ UNCHANGED <<manifest, readable, grants, call, granted, present, prev, todo, done, changes>>

-------------------------------------------------------------------------------
(* The surroundings.                                                        *)

Toggle(set, s) == IF s \in set THEN set \ {s} ELSE set \cup {s}

Change ==
  /\ changes < MaxChanges
  /\ changes' = changes + 1
  /\ \E s \in Skills :
       \/ \E u \in Users : usable' = [usable EXCEPT ![u] = Toggle(@, s)]
          /\ UNCHANGED <<allowed, offered>>
       \/ allowed' = Toggle(allowed, s) /\ UNCHANGED <<usable, offered>>
       \/ offered' = Toggle(offered, s) /\ UNCHANGED <<usable, allowed>>
  /\ granted' = [p \in Provisions |->
       IF Resting(p) THEN granted[p] ELSE granted[p] \cup usable'[user[p]]]
  /\ present' = [p \in Provisions |->
       IF Resting(p) THEN present[p] ELSE present[p] \cup offered']
  /\ UNCHANGED <<disk, manifest, readable, pc, call, prev, todo, cand, done, faults,
                 trouble>>

UserCreates ==
  /\ \E s \in UserNames :
       "user" \notin disk[s] /\ disk' = [disk EXCEPT ![s] = @ \cup {"user"}]
  /\ UNCHANGED <<manifest, readable, grants, pc, call, seen, prev, todo, cand, done,
                 faults, changes>>

Next ==
  \/ \E p \in Provisions :
       \/ Begin(p) \/ Permit(p) \/ Miss(p) \/ Copy(p) \/ EndLoop(p)
       \/ Remove(p) \/ Truncate(p) \/ WriteManifest(p) \/ Stop(p)
  \/ Change
  \/ UserCreates

Spec == Init /\ [][Next]_vars

-------------------------------------------------------------------------------
(* Properties.                                                              *)

(* Types of the directory, the grants and the calls.                        *)
TypeOK ==
  /\ disk \in [Names -> SUBSET {"source", "user"}]
  /\ manifest \subseteq Skills /\ readable \in BOOLEAN
  /\ usable \in [Users -> SUBSET Skills]
  /\ allowed \subseteq Skills /\ offered \subseteq Skills
  /\ pc \in [Provisions -> {"idle", "loop", "source", "revoke", "write",
                            "finished"}]
  /\ user \in [Provisions -> Users]
  /\ prev \in [Provisions -> SUBSET Skills]
  /\ todo \in [Provisions -> SUBSET Names]
  /\ done \in [Provisions -> SUBSET Skills]
  /\ cand \in [Provisions -> Skills \cup {None}]
  /\ asked \in [Provisions -> SUBSET Skills]
  /\ granted \in [Provisions -> SUBSET Skills]
  /\ present \in [Provisions -> SUBSET Skills]
  /\ trouble \in BOOLEAN

(* As long as calls neither stop half-way nor overlap, the manifest names   *)
(* between calls exactly the directories this tool has put on disk, so that *)
(* the next call can take any of them back.                                 *)
ManifestMatchesDisk ==
  (~trouble /\ \A p \in Provisions : Resting(p)) =>
    {s \in Names : "source" \in disk[s]} = IF readable THEN manifest ELSE {}

(* A copied skill is one that call p allowed, and that its user was granted *)
(* and the source had at some time while it ran.                            *)
OnlyEffectiveLeft(p) ==
  \A s \in Names :
    "source" \in disk[s] => s \in asked[p] \cap granted[p] \cap present[p]

Returns(p) == pc[p] = "write" /\ pc'[p] = "finished"

(* "Revoked skills are removed from disk on next provision": they are when  *)
(* a call returns, if no call has stopped half-way or overlapped another.   *)
RevokedRemoved ==
  [][\A p \in Provisions : (Returns(p) /\ ~trouble) => OnlyEffectiveLeft(p)]_vars

(* Only allowed and granted skills are synchronised: whatever races with it *)
(* and wherever calls stop, a directory becomes a copy only in a call whose *)
(* workspace allows the skill, after the user was granted it.               *)
OnlyEffectiveCopied ==
  [][\A s \in Names :
       ("source" \in disk'[s] /\ "source" \notin disk[s]) =>
         \E p \in Provisions :
           ~Resting(p) /\ s \in asked[p] \cap granted[p] \cap present[p]]_vars

(* "User-created directories are never touched": no step takes a user's own *)
(* files away.                                                              *)
UserDirsUntouched ==
  [][\A s \in Names : "user" \in disk[s] => "user" \in disk'[s]]_vars
===============================================================================

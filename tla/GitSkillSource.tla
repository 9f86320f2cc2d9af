--------------------------- MODULE GitSkillSource ---------------------------
(***************************************************************************)
(* GitSkillSource.refresh: a cache directory brought step by step to the     *)
(* commit a ref of a remote repository points to, in a process that may be   *)
(* killed at any step and started again with other allowed_skill_paths, and  *)
(* the skills a reader of the source then finds.                             *)
(*                                                                           *)
(* Git is outside the source: its commands are modelled by what refresh()    *)
(* relies on.  One that fails leaves the cache as it was; one killed while   *)
(* it updates the files leaves some of them old, new or missing, and         *)
(* index.lock, which makes every later update fail.  A skill is represented  *)
(* by the commit its files come from.                                        *)
(*                                                                           *)
(* A definition named D_Variant is a mistaken D that some property rejects.  *)
(***************************************************************************)
EXTENDS Naturals, FiniteSets, SequencesExt

CONSTANTS
  Paths,      \* directories of the repository that may hold a SKILL.md
  TopLevel,   \* those directly under its root
  Under,      \* the pairs <<p, q>> where directory p lies below q
  Name,       \* Name[p]: the last segment of p
  Refs, Commits,
  Has,        \* Has[c]: the paths with a SKILL.md in commit c
  Configs,    \* what allowed_skill_paths may be: FullTree or a sequence
  FullTree,   \* no allowed_skill_paths
  Malformed,  \* a path _validate_allowed_path turns away
  Relative,   \* is cache_dir a relative path (of one segment)
  MaxPushes,  \* bound: times a ref moves
  Faults,     \* subset of {"fail", "kill"}
  MaxFaults,  \* bound: failing steps and kills
  Absent, None

ASSUME GitAssumption ==
  /\ TopLevel \subseteq Paths
  /\ Under \subseteq Paths \X Paths
  /\ DOMAIN Name = Paths
  /\ \A p, q \in TopLevel : Name[p] = Name[q] => p = q
  /\ Has \in [Commits -> SUBSET Paths]
  /\ Malformed \notin Paths
  /\ FullTree \in Configs
  /\ Configs \ {FullTree} \subseteq Seq(Paths \cup {Malformed})
  /\ Relative \in BOOLEAN
  /\ MaxPushes \in Nat /\ MaxFaults \in Nat
  /\ Faults \subseteq {"fail", "kill"}
  /\ Absent \notin Commits /\ None \notin Paths /\ None \notin Commits

VARIABLES
  remote,   \* remote[r]: the commit ref r points to
  repo,     \* .git in cache_dir: "none", "broken" (a killed clone) or "cloned"
  locked,   \* index.lock is there
  sparse,   \* sparse-checkout is on
  cone,     \* the paths sparse-checkout selects when on
  fetched,  \* FETCH_HEAD
  head,     \* the commit checked out
  tree,     \* tree[p]: the commit the files of p come from, or Absent
  links,    \* links[n]: where the overlay's symlink n leads, or None
  allowed,  \* _allowed_skill_paths of the present process
  ref,      \* _ref
  local,    \* _local: "none", "flat" (the overlay) or "root" (cache_dir)
  pc,       \* where refresh() is; "idle": not called, or it raised
  next,     \* index of the overlay's next path
  result,   \* the commit refresh() reports
  listed,   \* the skill names it reports
  pointed,  \* history: commits ref pointed to since refresh() began
  faults, pushes

cache == <<repo, locked, sparse, cone, fetched, head, tree, links>>
setup == <<allowed, ref>>
call  == <<next, result, listed, pointed>>
env   == <<remote, faults, pushes>>
vars  == <<cache, setup, local, pc, call, env>>

Names == {Name[p] : p \in Paths}

Selective == allowed # FullTree

(* any_nested: the overlay is needed.                                        *)
Nested == Selective /\ ~(ToSet(allowed) \subseteq TopLevel)

(* Cone mode takes the selected directories with all below them, and the     *)
(* files directly in the directories above.                                  *)
ConeOf(ps) ==
  {p \in Paths : \E q \in ps : p = q \/ <<p, q>> \in Under \/ <<q, p>> \in Under}

Files(c, selected) ==
  [p \in Paths |-> IF c # None /\ p \in selected /\ p \in Has[c] THEN c ELSE Absent]

Selected == IF sparse THEN cone ELSE Paths

(* Path.exists(): a directory is there if anything below it is.              *)
DirExists(p) ==
  \E q \in Paths : (q = p \/ <<q, p>> \in Under) /\ tree[q] # Absent

-------------------------------------------------------------------------------
Init ==
  /\ remote \in [Refs -> Commits]
  /\ repo = "none" /\ locked = FALSE
  /\ sparse = FALSE /\ cone = {}
  /\ fetched = None /\ head = None
  /\ tree = [p \in Paths |-> Absent]
  /\ links = [n \in Names |-> None]
  /\ allowed \in Configs /\ ref \in Refs
  /\ local = "none" /\ pc = "idle" /\ next = 1
  /\ result = None /\ listed = {}
  /\ pointed = {}
  /\ faults = 0 /\ pushes = 0

Resting == pc \in {"idle", "done"}

Rejected == Selective /\ Malformed \in ToSet(allowed)

(* refresh(ref=r), or refresh() with r the ref it has.  A path that fails    *)
(* validation raises before anything is done, the new ref being kept.        *)
Begin(r) ==
  /\ Resting
  /\ ref' = r
  /\ pointed' = {remote[r]}
  /\ pc' = IF Rejected THEN "idle" ELSE IF repo = "none" THEN "clone" ELSE "sparse"
  /\ result' = None /\ listed' = {}
  /\ UNCHANGED <<cache, allowed, local, next, env>>

Clone ==
  /\ pc = "clone"
  /\ repo' = "cloned"
  /\ pc' = "sparse"
  /\ UNCHANGED <<locked, sparse, cone, fetched, head, tree, links, setup, local, call,
                 env>>

(* git sparse-checkout and git checkout bring the files to commit c and the  *)
(* selected paths; they refuse while another command's lock is there.        *)
Updatable == repo = "cloned" /\ ~locked

Update(c, selected) ==
  /\ Updatable
  /\ tree' = Files(c, selected)
  /\ UNCHANGED <<repo, locked, links, setup, local, call, env>>

(* What sparse-checkout init selects: what was selected before, if anything. *)
InitialCone_Reset == {}

InitialCone == cone

SparseInit ==
  /\ pc = "sparse" /\ Selective
  /\ sparse' = TRUE /\ cone' = InitialCone
  /\ Update(head, cone')
  /\ pc' = "set"
  /\ UNCHANGED <<fetched, head>>

NewCone == ConeOf(ToSet(allowed))

SparseSet ==
  /\ pc = "set"
  /\ cone' = NewCone
  /\ Update(head, cone')
  /\ pc' = "fetch"
  /\ UNCHANGED <<sparse, fetched, head>>

SparseDisable ==
  /\ pc = "sparse" /\ ~Selective
  /\ sparse' = FALSE
  /\ Update(head, Paths)
  /\ pc' = "fetch"
  /\ UNCHANGED <<cone, fetched, head>>

Fetch ==
  /\ pc = "fetch" /\ repo = "cloned"
  /\ fetched' = remote[ref]
  /\ pc' = "checkout"
  /\ UNCHANGED <<repo, locked, sparse, cone, head, tree, links, setup, local, call, env>>

(* checkout --detach FETCH_HEAD, not the branch the clone once made.         *)
Detached_Once == IF head = None THEN fetched ELSE head

Detached == fetched

Checkout ==
  /\ pc = "checkout"
  /\ head' = Detached
  /\ Update(head', Selected)
  /\ pc' = "resolve"
  /\ UNCHANGED <<sparse, cone, fetched>>

(* rev-parse HEAD.                                                           *)
Resolve ==
  /\ pc = "resolve"
  /\ result' = head
  /\ next' = 1
  /\ pc' = IF Nested THEN "overlay" ELSE "publish"
  /\ UNCHANGED <<cache, setup, local, listed, pointed, env>>

(* One turn of the overlay's loop: what is at the link's place is cleared,   *)
(* and the link made if the checkout has the directory.                      *)
Relinked(p) == [links EXCEPT ![Name[p]] = IF DirExists(p) THEN p ELSE None]

Unlinked(p) == [links EXCEPT ![Name[p]] = None]

Overlay ==
  /\ pc = "overlay"
  /\ links' = Relinked(allowed[next])
  /\ next' = next + 1
  /\ pc' = IF next = Len(allowed) THEN "publish" ELSE "overlay"
  /\ UNCHANGED <<repo, locked, sparse, cone, fetched, head, tree, setup, local, result,
                 listed, pointed, env>>

(* The names are those of the allowed paths, or of the directories found in  *)
(* the root of the full tree.                                                *)
Listed == IF Selective THEN {Name[p] : p \in ToSet(allowed)}
                       ELSE {Name[p] : p \in {q \in TopLevel : DirExists(q)}}

Publish ==
  /\ pc = "publish"
  /\ local' = IF Nested THEN "flat" ELSE "root"
  /\ listed' = Listed
  /\ pc' = "done"
  /\ UNCHANGED <<cache, setup, next, result, pointed, env>>

-------------------------------------------------------------------------------
(* Failures.                                                                 *)

Updating == pc \in {"sparse", "set", "checkout"}

(* A git command exits with an error, or clearing or making a link does      *)
(* after the old one may have gone.  _local and _ref stay.  (A git that does *)
(* not know sparse-checkout disable is not modelled.)                        *)
Fail ==
  /\ ~Resting /\ pc # "publish"
  /\ \/ Updating /\ ~Updatable /\ UNCHANGED faults
     \/ pc = "fetch" /\ repo # "cloned" /\ UNCHANGED faults
     \/ "fail" \in Faults /\ faults < MaxFaults /\ faults' = faults + 1
  /\ \/ UNCHANGED links
     \/ pc = "overlay" /\ links' = Unlinked(allowed[next])
  /\ pc' = "idle"
  /\ UNCHANGED <<repo, locked, sparse, cone, fetched, head, tree, setup, local, call,
                 remote, pushes>>

(* A process is started, with its own configuration, on the cache there is.  *)
Start == allowed' \in Configs /\ ref' \in Refs /\ local' = "none" /\ pc' = "idle"

(* What the files are being brought to.                                      *)
Target == CASE pc = "sparse" -> Files(head, IF Selective THEN cone ELSE Paths)
            [] pc = "set" -> Files(head, NewCone)
            [] OTHER -> Files(fetched, Selected)

(* The process dies with the git command it runs; another one is started.    *)
Kill ==
  /\ "kill" \in Faults /\ faults < MaxFaults
  /\ faults' = faults + 1
  /\ \/ UNCHANGED <<repo, locked, tree, links>>
     \/ /\ pc = "clone" /\ repo' \in {"broken", "cloned"}
        /\ UNCHANGED <<locked, tree, links>>
     \/ /\ Updating /\ Updatable
        /\ locked' = TRUE
        /\ tree' \in {t \in [Paths -> Commits \cup {Absent}] :
                        \A p \in Paths : t[p] \in {tree[p], Target[p], Absent}}
        /\ UNCHANGED <<repo, links>>
     \/ /\ pc = "overlay" /\ links' = Unlinked(allowed[next])
        /\ UNCHANGED <<repo, locked, tree>>
  /\ Start
  /\ UNCHANGED <<sparse, cone, fetched, head, call, remote, pushes>>

(* The program is stopped between refreshes and deployed again.              *)
Redeploy ==
  /\ Resting
  /\ Start
  /\ UNCHANGED <<cache, call, env>>

(* An operator empties a cache no refresh works with.                        *)
CleanUp ==
  /\ pc = "idle" /\ (locked \/ repo = "broken")
  /\ repo' = "none" /\ locked' = FALSE
  /\ sparse' = FALSE /\ cone' = {}
  /\ fetched' = None /\ head' = None
  /\ tree' = [p \in Paths |-> Absent]
  /\ links' = [n \in Names |-> None]
  /\ UNCHANGED <<setup, local, pc, call, env>>

Push ==
  /\ pushes < MaxPushes
  /\ pushes' = pushes + 1
  /\ \E r \in Refs, c \in Commits :
       /\ c # remote[r]
       /\ remote' = [remote EXCEPT ![r] = c]
       /\ pointed' = IF r = ref /\ ~Resting THEN pointed \cup {c} ELSE pointed
  /\ UNCHANGED <<cache, setup, local, pc, next, result, listed, faults>>

Next ==
  \/ \E r \in Refs : Begin(r)
  \/ Clone \/ SparseInit \/ SparseSet \/ SparseDisable \/ Fetch \/ Checkout
  \/ Resolve \/ Overlay \/ Publish
  \/ Fail \/ Kill \/ Redeploy \/ CleanUp \/ Push

Spec == Init /\ [][Next]_vars

-------------------------------------------------------------------------------
(* What a reader finds.                                                      *)

(* The commit whose files has_skill and skill_dir find under a name, or      *)
(* Absent: nothing before the first refresh, else LocalDirSkillSource on the *)
(* overlay or on cache_dir.  A link to a relative path is taken relative to  *)
(* the overlay and leads nowhere.                                            *)
Shown(n) ==
  CASE local = "flat" /\ links[n] # None /\ ~Relative -> tree[links[n]]
    [] local = "root" /\ (\E p \in TopLevel : Name[p] = n) ->
         tree[CHOOSE p \in TopLevel : Name[p] = n]
    [] OTHER -> Absent

-------------------------------------------------------------------------------
(* Properties.                                                               *)

(* Types of the remote, the cache and the object.                            *)
TypeOK ==
  /\ remote \in [Refs -> Commits]
  /\ repo \in {"none", "broken", "cloned"}
  /\ locked \in BOOLEAN /\ sparse \in BOOLEAN
  /\ cone \subseteq Paths
  /\ fetched \in Commits \cup {None} /\ head \in Commits \cup {None}
  /\ tree \in [Paths -> Commits \cup {Absent}]
  /\ links \in [Names -> Paths \cup {None}]
  /\ allowed \in Configs /\ ref \in Refs
  /\ local \in {"none", "flat", "root"}
  /\ pc \in {"idle", "clone", "sparse", "set", "fetch", "checkout", "resolve",
             "overlay", "publish", "done"}
  /\ next \in Nat
  /\ result \in Commits \cup {None} /\ listed \subseteq Names
  /\ pointed \subseteq Commits

(* Paths whose skill the reader should find under a name no other claims.    *)
Wanted ==
  IF Selective THEN {p \in ToSet(allowed) :
                       \A q \in ToSet(allowed) : Name[q] = Name[p] => q = p}
               ELSE TopLevel

(* "refresh() ... Always safe to call again": whatever earlier refreshes,    *)
(* kills and configurations left in the cache, once refresh returns, the     *)
(* commit it reports is one the ref pointed to while it ran, every wanted    *)
(* skill of that commit is found, and nothing of another commit is.          *)
ServesTheCommit ==
  pc = "done" =>
    /\ result \in pointed
    /\ \A p \in Wanted \cap Has[result] : Shown(Name[p]) = result
    /\ \A n \in Names : Shown(n) \in {result, Absent}

(* Skills are read, and copied by provisioning, while refresh() runs or     *)
(* after it has raised: a wanted skill a reader could find is lost only to a *)
(* commit without it, or when its own link is cleared and cannot be remade.  *)
RefreshKeepsSkills ==
  [][(local # "none" /\ local' # "none" /\ allowed' = allowed) =>
       \A p \in Wanted :
         (Shown(Name[p]) # Absent /\ Shown(Name[p])' = Absent) =>
           \/ pc = "checkout" /\ p \notin Has[head']
           \/ pc = "overlay" /\ pc' = "idle" /\ p = allowed[next]]_vars
===============================================================================

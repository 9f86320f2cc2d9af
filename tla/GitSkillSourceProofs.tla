------------------------ MODULE GitSkillSourceProofs ------------------------
(***************************************************************************)
(* Proofs about GitSkillSource for any repository, any configurations and   *)
(* any sequence of refreshes, failures, kills, deployments and pushes.      *)
(***************************************************************************)
EXTENDS GitSkillSource, TLAPS

(* Past the commands that select paths, and past the checkout.              *)
Chosen     == {"fetch", "checkout", "resolve", "overlay", "publish", "done"}
CheckedOut == {"resolve", "overlay", "publish", "done"}

(* sparse-checkout is as this process wants it.                             *)
SelectsAllowed == sparse = Selective /\ (Selective => cone = NewCone)

(* The overlay leads to p, if there is anything to find.                    *)
Linked(p) == links[Name[p]] = IF DirExists(p) THEN p ELSE None

Place == IF Nested THEN "flat" ELSE "root"

(* What a refresh under way has achieved so far.                            *)
CallInv ==
  /\ ~Resting => remote[ref] \in pointed /\ ~Rejected
  /\ pc = "set" => Selective /\ sparse
  /\ pc \in {"set"} \cup Chosen => repo = "cloned" /\ ~locked
  /\ pc \in Chosen => SelectsAllowed
  /\ pc = "checkout" => fetched \in pointed
  /\ pc \in CheckedOut => head \in pointed /\ tree = Files(head, Selected)
  /\ pc \in CheckedOut \ {"resolve"} => result = head
  /\ pc = "overlay" =>
       /\ Nested /\ next \in 1 .. Len(allowed)
       /\ \A p \in Wanted : (\E i \in 1 .. next - 1 : p = allowed[i]) => Linked(p)
  /\ pc \in {"publish", "done"} => (Nested => \A p \in Wanted : Linked(p))
  /\ pc = "done" => local = Place

(* What stays true, whatever the next refreshes do, of a cache from which    *)
(* this process has once been served.                                        *)
KeepInv ==
  local # "none" =>
    /\ ~Rejected /\ local = Place
    /\ repo = "cloned" /\ ~locked
    /\ SelectsAllowed
    /\ tree = Files(head, Selected)
    /\ Nested => \A p \in Wanted : links[Name[p]] \in {p, None}

IInv == TypeOK /\ CallInv /\ KeepInv

-------------------------------------------------------------------------------
(* Facts about configurations, files and links.                             *)

(* Validated paths are paths.                                               *)
LEMMA AllowedPaths ==
  ASSUME TypeOK, Selective, ~Rejected
  PROVE  /\ Len(allowed) \in Nat /\ DOMAIN allowed = 1 .. Len(allowed)
         /\ ToSet(allowed) = {allowed[i] : i \in 1 .. Len(allowed)}
         /\ ToSet(allowed) \subseteq Paths
<1>1. allowed \in Seq(Paths \cup {Malformed})
  BY GitAssumption DEF TypeOK, Selective
<1>2. Len(allowed) \in Nat /\ DOMAIN allowed = 1 .. Len(allowed)
  BY <1>1
<1>3. \A i \in 1 .. Len(allowed) : allowed[i] \in Paths \cup {Malformed}
  BY <1>1
<1>4. ToSet(allowed) = {allowed[i] : i \in 1 .. Len(allowed)}
  BY <1>2 DEF ToSet
<1>5. QED BY <1>2, <1>3, <1>4 DEF Rejected

LEMMA WantedPaths ==
  ASSUME TypeOK, ~Rejected
  PROVE  Wanted \subseteq Paths
BY AllowedPaths, GitAssumption DEF Wanted

(* No allowed path but p itself claims the name of a wanted p.              *)
LEMMA WantedAlone ==
  ASSUME Selective, NEW p \in Wanted
  PROVE  /\ p \in ToSet(allowed)
         /\ \A q \in ToSet(allowed) : Name[q] = Name[p] => q = p
BY DEF Wanted

(* Cone mode selects at least what it is told to.                           *)
LEMMA WantedSelected ==
  ASSUME TypeOK, ~Rejected, SelectsAllowed
  PROVE  Wanted \subseteq Selected
BY WantedPaths, WantedAlone DEF SelectsAllowed, Selected, NewCone, ConeOf

(* A path of one segment is found in the root under its own name.           *)
LEMMA RootName ==
  ASSUME NEW p \in TopLevel
  PROVE  (CHOOSE q \in TopLevel : Name[q] = Name[p]) = p
BY GitAssumption

LEMMA FilesType ==
  ASSUME NEW c \in Commits \cup {None}, NEW S
  PROVE  Files(c, S) \in [Paths -> Commits \cup {Absent}]
BY DEF Files

LEMMA FilesOf ==
  ASSUME NEW c, NEW S, NEW p \in Paths
  PROVE  /\ Files(c, S)[p] \in {c, Absent}
         /\ c # None /\ p \in S /\ p \in Has[c] => Files(c, S)[p] = c
BY DEF Files

(* What is found under a wanted name, from the overlay and from the root.   *)
LEMMA ShownFlat ==
  ASSUME local = "flat", NEW n
  PROVE  Shown(n) = IF links[n] # None /\ ~Relative THEN tree[links[n]] ELSE Absent
BY DEF Shown

LEMMA ShownRoot ==
  ASSUME TypeOK, ~Rejected, ~Nested, local = "root", NEW p \in Wanted
  PROVE  Shown(Name[p]) = tree[p]
<1>1. p \in TopLevel
  BY WantedAlone DEF Nested, Wanted
<1>2. QED BY <1>1, RootName DEF Shown

-------------------------------------------------------------------------------
(* Types.                                                                   *)

LEMMA TypesStay ==
  ASSUME TypeOK, CallInv, [Next]_vars
  PROVE  TypeOK'
<1> USE DEF TypeOK
<1>1. ASSUME NEW r \in Refs, Begin(r) PROVE TypeOK'
  BY <1>1 DEF Begin, cache, setup, call, env
<1>2. CASE Clone
  BY <1>2 DEF Clone, setup, call, env
<1>3. CASE SparseInit
  BY <1>3, FilesType DEF SparseInit, InitialCone, Update, setup, call, env
<1>4. CASE SparseSet
  BY <1>4, FilesType DEF SparseSet, NewCone, ConeOf, Update, setup, call, env
<1>5. CASE SparseDisable
  BY <1>5, FilesType DEF SparseDisable, Update, setup, call, env
<1>6. CASE Fetch
  BY <1>6 DEF Fetch, setup, call, env
<1>7. CASE Checkout
  BY <1>7, FilesType DEF Checkout, Detached, Update, setup, call, env
<1>8. CASE Resolve
  BY <1>8 DEF Resolve, cache, setup, env
<1>9. CASE Overlay
  <2>1. ~Rejected /\ Selective /\ next \in 1 .. Len(allowed)
    BY <1>9 DEF Overlay, CallInv, Resting, Nested
  <2>2. allowed[next] \in Paths
    BY <2>1, AllowedPaths
  <2>3. Relinked(allowed[next]) \in [Names -> Paths \cup {None}]
    BY <2>2 DEF Relinked, Names
  <2>4. QED BY <1>9, <2>3 DEF Overlay, setup, env
<1>10. CASE Publish
  <2>1. Listed \subseteq Names
    BY <1>10, AllowedPaths, GitAssumption DEF Publish, CallInv, Resting, Listed, Names
  <2>2. QED BY <1>10, <2>1 DEF Publish, cache, setup, env
<1>11. CASE Fail
  <2>1. links' \in [Names -> Paths \cup {None}]
    BY <1>11 DEF Fail, Unlinked
  <2>2. QED BY <1>11, <2>1 DEF Fail, setup, call
<1>12. CASE Kill
  <2>1. links' \in [Names -> Paths \cup {None}]
    BY <1>12 DEF Kill, Unlinked
  <2>2. tree' \in [Paths -> Commits \cup {Absent}] /\ locked' \in BOOLEAN
        /\ repo' \in {"none", "broken", "cloned"}
    BY <1>12 DEF Kill
  <2>3. QED BY <1>12, <2>1, <2>2 DEF Kill, Start, call
<1>13. CASE Redeploy
  BY <1>13 DEF Redeploy, Start, cache, call, env
<1>14. CASE CleanUp
  BY <1>14 DEF CleanUp, setup, call, env
<1>15. CASE Push
  BY <1>15 DEF Push, cache, setup
<1>16. CASE UNCHANGED vars
  BY <1>16 DEF vars, cache, setup, call, env
<1>17. QED
  BY <1>1, <1>2, <1>3, <1>4, <1>5, <1>6, <1>7, <1>8, <1>9, <1>10, <1>11, <1>12,
     <1>13, <1>14, <1>15, <1>16 DEF Next

-------------------------------------------------------------------------------
(* What a refresh achieves.                                                 *)

(* Only the start of a process changes the configuration.                   *)
LEMMA SameConfiguration ==
  ASSUME allowed' = allowed
  PROVE  /\ Selective' = Selective /\ Nested' = Nested /\ Rejected' = Rejected
         /\ Wanted' = Wanted /\ NewCone' = NewCone /\ Place' = Place
BY DEF Selective, Nested, Rejected, Wanted, NewCone, Place

LEMMA SameLinks ==
  ASSUME tree' = tree, links' = links, NEW p
  PROVE  Linked(p)' = Linked(p)
BY DEF Linked, DirExists

(* A refresh that has not come to the files has only its configuration and  *)
(* the ref to answer for.                                                   *)
LEMMA EarlyCall ==
  ASSUME pc' \in {"clone", "sparse"}, ~Rejected', remote'[ref'] \in pointed'
  PROVE  CallInv'
BY DEF CallInv, Resting, Chosen, CheckedOut

LEMMA NoCall ==
  ASSUME pc' = "idle"
  PROVE  CallInv'
BY DEF CallInv, Resting, Chosen, CheckedOut

(* One turn of the overlay's loop links one path and spoils no other that   *)
(* is wanted.                                                               *)
LEMMA OverlayLinks ==
  ASSUME TypeOK, CallInv, Overlay
  PROVE  /\ next \in 1 .. Len(allowed) /\ Selective /\ ~Rejected
         /\ \A p \in Wanted : p = allowed[next] \/ Linked(p) => Linked(p)'
<1>1. /\ next \in 1 .. Len(allowed) /\ Selective /\ ~Rejected
      /\ links' = Relinked(allowed[next]) /\ tree' = tree
  BY DEF Overlay, CallInv, Resting, Nested
<1>2. allowed[next] \in ToSet(allowed)
  BY <1>1, AllowedPaths
<1>3. ASSUME NEW p \in Wanted, p = allowed[next] \/ Linked(p)
      PROVE  Linked(p)'
  <2>1. p \in Paths /\ Name[p] \in Names
    BY <1>1, WantedPaths DEF Names
  <2>2. DirExists(p)' = DirExists(p)
    BY <1>1 DEF DirExists
  <2>3. CASE p = allowed[next]
    BY <1>1, <2>1, <2>2, <2>3 DEF Relinked, Linked, TypeOK
  <2>4. CASE p # allowed[next]
    <3>1. Name[allowed[next]] # Name[p]
      BY <1>1, <1>2, <2>4, WantedAlone
    <3>2. links'[Name[p]] = links[Name[p]]
      BY <1>1, <2>1, <3>1 DEF Relinked, TypeOK
    <3>3. QED BY <1>3, <2>2, <2>4, <3>2 DEF Linked
  <2>5. QED BY <2>3, <2>4
<1>4. QED BY <1>1, <1>3

LEMMA CallStays ==
  ASSUME TypeOK, CallInv, [Next]_vars
  PROVE  CallInv'
<1> USE DEF Resting, Chosen, CheckedOut
<1>1. ASSUME NEW r \in Refs, Begin(r) PROVE CallInv'
  <2>1. allowed' = allowed /\ remote'[ref'] \in pointed'
    BY <1>1 DEF Begin, env
  <2>2. CASE Rejected
    BY <1>1, <2>2, NoCall DEF Begin
  <2>3. CASE ~Rejected
    <3>1. pc' \in {"clone", "sparse"}
      BY <1>1, <2>3 DEF Begin
    <3>2. QED BY <2>1, <2>3, <3>1, SameConfiguration, EarlyCall
  <2>4. QED BY <2>2, <2>3
<1>2. CASE Clone
  <2>1. Rejected' = Rejected /\ pc' = "sparse" /\ remote'[ref'] \in pointed'
        /\ ~Rejected
    BY <1>2, SameConfiguration DEF Clone, setup, call, env, CallInv
  <2>2. QED BY <2>1, EarlyCall
<1>3. CASE SparseInit
  BY <1>3, SameConfiguration DEF SparseInit, Update, Updatable, setup, call, env,
     CallInv
<1>4. CASE SparseSet
  BY <1>4, SameConfiguration DEF SparseSet, Update, Updatable, setup, call, env,
     CallInv, SelectsAllowed
<1>5. CASE SparseDisable
  <2>1. /\ ~Rejected' /\ remote'[ref'] \in pointed' /\ pc' = "fetch"
        /\ repo' = "cloned" /\ ~locked'
    BY <1>5, SameConfiguration DEF SparseDisable, Update, Updatable, setup, call, env,
       CallInv
  <2>2. SelectsAllowed'
    BY <1>5 DEF SparseDisable, Update, setup, Selective, SelectsAllowed
  <2>3. QED BY <2>1, <2>2 DEF CallInv
<1>6. CASE Fetch
  BY <1>6, SameConfiguration DEF Fetch, setup, call, env, CallInv, SelectsAllowed
<1>7. CASE Checkout
  BY <1>7, SameConfiguration DEF Checkout, Detached, Update, Updatable, setup, call,
     env, CallInv, SelectsAllowed, Selected
<1>8. CASE Resolve
  <2>1. /\ ~Rejected /\ remote[ref] \in pointed /\ SelectsAllowed
        /\ head \in pointed /\ tree = Files(head, Selected)
        /\ repo = "cloned" /\ ~locked
    BY <1>8 DEF Resolve, CallInv
  <2>2. /\ UNCHANGED <<repo, locked, sparse, cone, head, tree, allowed, ref, pointed,
                       remote>>
        /\ result' = head /\ next' = 1
        /\ pc' = IF Nested THEN "overlay" ELSE "publish"
    BY <1>8 DEF Resolve, cache, setup, env
  <2>3. ~Nested \/ Len(allowed) \in Nat \ {0}
    <3>1. SUFFICES ASSUME Nested PROVE Len(allowed) \in Nat \ {0}
      OBVIOUS
    <3>2. /\ Len(allowed) \in Nat
          /\ ToSet(allowed) = {allowed[i] : i \in 1 .. Len(allowed)}
      BY <2>1, <3>1, AllowedPaths DEF Nested
    <3>3. ToSet(allowed) # {}
      BY <3>1 DEF Nested
    <3>4. QED BY <3>2, <3>3
  <2>4. QED
    BY <2>1, <2>2, <2>3, SameConfiguration DEF CallInv, SelectsAllowed, Selected
<1>9. CASE Overlay
  <2>1. /\ ~Rejected /\ remote[ref] \in pointed /\ SelectsAllowed /\ Nested
        /\ head \in pointed /\ tree = Files(head, Selected) /\ result = head
        /\ \A p \in Wanted : (\E i \in 1 .. next - 1 : p = allowed[i]) => Linked(p)
        /\ repo = "cloned" /\ ~locked
    BY <1>9 DEF Overlay, CallInv
  <2>2. /\ UNCHANGED <<repo, locked, sparse, cone, head, tree, allowed, ref, pointed,
                       remote, result>>
        /\ next' = next + 1
        /\ pc' = IF next = Len(allowed) THEN "publish" ELSE "overlay"
    BY <1>9 DEF Overlay, setup, env
  <2>3. /\ Len(allowed) \in Nat /\ next \in 1 .. Len(allowed)
        /\ ToSet(allowed) = {allowed[i] : i \in 1 .. Len(allowed)} /\ Selective
    BY <1>9, OverlayLinks, AllowedPaths
  <2>4. ASSUME NEW p \in Wanted, \E i \in 1 .. next : p = allowed[i]
        PROVE  Linked(p)'
    <3>1. PICK i \in 1 .. next : p = allowed[i]
      BY <2>4
    <3>2. p = allowed[next] \/ Linked(p)
      BY <2>1, <2>3, <3>1
    <3>3. QED BY <1>9, <3>2, OverlayLinks
  <2>5. CASE next = Len(allowed)
    <3>1. \A p \in Wanted : Linked(p)'
      BY <2>3, <2>4, <2>5, WantedAlone
    <3>2. QED
      BY <2>1, <2>2, <2>5, <3>1, SameConfiguration DEF CallInv, SelectsAllowed,
         Selected
  <2>6. CASE next # Len(allowed)
    <3>1. next' \in 1 .. Len(allowed) /\ next' - 1 = next
      BY <2>2, <2>3, <2>6
    <3>2. \A p \in Wanted' : (\E i \in 1 .. next' - 1 : p = allowed'[i]) => Linked(p)'
      BY <2>2, <2>4, <3>1, SameConfiguration
    <3>3. QED
      BY <2>1, <2>2, <2>6, <3>1, <3>2, SameConfiguration DEF CallInv, SelectsAllowed,
         Selected
  <2>7. QED BY <2>5, <2>6
<1>10. CASE Publish
  <2>1. \A p \in Wanted : Linked(p)' = Linked(p)
    BY <1>10, SameLinks DEF Publish, cache
  <2>2. QED
    BY <1>10, <2>1, SameConfiguration DEF Publish, cache, setup, env, CallInv,
       SelectsAllowed, Selected, Place
<1>11. CASE Fail \/ Kill \/ Redeploy
  BY <1>11, NoCall DEF Fail, Kill, Redeploy, Start
<1>12. CASE CleanUp
  BY <1>12, NoCall DEF CleanUp
<1>13. CASE Push
  <2>1. /\ UNCHANGED <<repo, locked, sparse, cone, fetched, head, tree, links,
                       allowed, ref, local, pc, next, result>>
        /\ pointed \subseteq pointed'
        /\ ~Resting => remote'[ref] = remote[ref] \/ remote'[ref] \in pointed'
    BY <1>13 DEF Push, cache, setup, TypeOK
  <2>2. \A p : Linked(p)' = Linked(p)
    BY <2>1, SameLinks
  <2>3. QED
    BY <2>1, <2>2, SameConfiguration DEF CallInv, SelectsAllowed, Selected
<1>14. CASE UNCHANGED vars
  <2>1. \A p : Linked(p)' = Linked(p)
    BY <1>14, SameLinks DEF vars, cache
  <2>2. QED
    BY <1>14, <2>1, SameConfiguration DEF vars, cache, setup, call, env, CallInv,
       SelectsAllowed, Selected
<1>15. QED
  BY <1>1, <1>2, <1>3, <1>4, <1>5, <1>6, <1>7, <1>8, <1>9, <1>10, <1>11, <1>12,
     <1>13, <1>14 DEF Next

-------------------------------------------------------------------------------
(* What a refresh never undoes.                                             *)

(* A step that brings nothing but the files of the same paths.              *)
LEMMA KeepsSelection ==
  ASSUME KeepInv, local' = local, allowed' = allowed, repo' = "cloned", locked' = locked,
         links' = links, sparse' = sparse, cone' = cone,
         (tree' = tree /\ head' = head) \/ tree' = Files(head', Selected)
  PROVE  KeepInv'
<1>1. Selected' = Selected /\ SelectsAllowed' = SelectsAllowed
  BY SameConfiguration DEF Selected, SelectsAllowed
<1>2. QED BY <1>1, SameConfiguration DEF KeepInv

(* A step that clears or makes one of the overlay's links.                  *)
LEMMA KeepsLinks ==
  ASSUME TypeOK, KeepInv, Nested, ~Rejected, NEW q \in ToSet(allowed),
         links' \in {links, Unlinked(q), Relinked(q)},
         UNCHANGED <<local, allowed, repo, locked, sparse, cone, tree, head>>
  PROVE  KeepInv'
<1>1. SUFFICES ASSUME local # "none"
               PROVE  \A p \in Wanted : links'[Name[p]] \in {p, None}
  BY SameConfiguration DEF KeepInv, Selected, SelectsAllowed
<1>2. TAKE p \in Wanted
<1>3. p \in Paths /\ Name[p] \in Names /\ links[Name[p]] \in {p, None}
  BY <1>1, WantedPaths DEF Names, KeepInv
<1>4. CASE Name[q] = Name[p]
  <2>1. q = p
    BY <1>4, WantedAlone DEF Nested
  <2>2. QED BY <1>3, <2>1 DEF Unlinked, Relinked, TypeOK
<1>5. CASE Name[q] # Name[p]
  BY <1>3, <1>5 DEF Unlinked, Relinked, TypeOK
<1>6. QED BY <1>4, <1>5

LEMMA KeepStays ==
  ASSUME IInv, [Next]_vars
  PROVE  KeepInv'
<1> USE DEF IInv
<1>1. ASSUME NEW r \in Refs, Begin(r) PROVE KeepInv'
  BY <1>1, SameConfiguration DEF Begin, cache, KeepInv, Selected, SelectsAllowed
<1>2. CASE Clone
  BY <1>2, SameConfiguration DEF Clone, setup, KeepInv, Selected, SelectsAllowed
<1>3. CASE SparseInit
  <2>1. SUFFICES ASSUME local # "none" PROVE KeepInv'
    BY <1>3 DEF SparseInit, Update, KeepInv
  <2>2. sparse = TRUE
    BY <1>3, <2>1 DEF SparseInit, KeepInv, SelectsAllowed
  <2>3. tree' = Files(head, Selected)
    BY <1>3, <2>2 DEF SparseInit, Update, InitialCone, Selected
  <2>4. QED
    BY <1>3, <2>2, <2>3, KeepsSelection
    DEF SparseInit, Update, Updatable, InitialCone, setup
<1>4. CASE SparseSet
  <2>1. SUFFICES ASSUME local # "none" PROVE KeepInv'
    BY <1>4 DEF SparseSet, Update, KeepInv
  <2>2. Selective /\ sparse = TRUE /\ cone = NewCone
    BY <1>4, <2>1 DEF SparseSet, KeepInv, SelectsAllowed, CallInv
  <2>3. tree' = Files(head, Selected)
    BY <1>4, <2>2 DEF SparseSet, Update, Selected
  <2>4. QED
    BY <1>4, <2>2, <2>3, KeepsSelection DEF SparseSet, Update, Updatable, setup
<1>5. CASE SparseDisable
  <2>1. SUFFICES ASSUME local # "none" PROVE KeepInv'
    BY <1>5 DEF SparseDisable, Update, KeepInv
  <2>2. sparse = FALSE
    BY <1>5, <2>1 DEF SparseDisable, KeepInv, SelectsAllowed, TypeOK
  <2>3. tree' = Files(head, Selected)
    BY <1>5, <2>2 DEF SparseDisable, Update, Selected
  <2>4. QED
    BY <1>5, <2>2, <2>3, KeepsSelection DEF SparseDisable, Update, Updatable, setup
<1>6. CASE Fetch
  BY <1>6, KeepsSelection DEF Fetch, setup
<1>7. CASE Checkout
  BY <1>7, KeepsSelection DEF Checkout, Update, Updatable, setup
<1>8. CASE Resolve
  BY <1>8, SameConfiguration DEF Resolve, cache, setup, KeepInv, Selected, SelectsAllowed
<1>9. CASE Overlay
  <2>1. Nested /\ ~Rejected /\ allowed[next] \in ToSet(allowed)
    BY <1>9, OverlayLinks, AllowedPaths DEF Overlay, CallInv
  <2>2. QED BY <1>9, <2>1, KeepsLinks DEF Overlay, setup
<1>10. CASE Publish
  <2>1. /\ ~Rejected /\ repo = "cloned" /\ ~locked /\ SelectsAllowed
        /\ tree = Files(head, Selected) /\ (Nested => \A p \in Wanted : Linked(p))
    BY <1>10 DEF Publish, CallInv, Resting, Chosen, CheckedOut
  <2>2. /\ UNCHANGED <<repo, locked, sparse, cone, tree, head, links, allowed>>
        /\ local' = Place
    BY <1>10 DEF Publish, cache, setup, Place
  <2>3. Nested => \A p \in Wanted : links[Name[p]] \in {p, None}
    BY <2>1 DEF Linked
  <2>4. QED
    BY <2>1, <2>2, <2>3, SameConfiguration DEF KeepInv, Selected, SelectsAllowed
<1>11. CASE Fail
  <2>1. CASE UNCHANGED links
    BY <1>11, <2>1, SameConfiguration DEF Fail, setup, KeepInv, Selected, SelectsAllowed
  <2>2. CASE pc = "overlay" /\ links' = Unlinked(allowed[next])
    <3>1. /\ Nested /\ ~Rejected /\ Selective /\ next \in 1 .. Len(allowed)
      BY <2>2 DEF CallInv, Resting, Nested
    <3>2. allowed[next] \in ToSet(allowed)
      BY <3>1, AllowedPaths
    <3>3. QED BY <1>11, <2>2, <3>1, <3>2, KeepsLinks DEF Fail, setup
  <2>3. QED BY <1>11, <2>1, <2>2 DEF Fail
<1>12. CASE Kill \/ Redeploy
  BY <1>12 DEF Kill, Redeploy, Start, KeepInv
<1>13. CASE CleanUp
  BY <1>13 DEF CleanUp, KeepInv
<1>14. CASE Push
  BY <1>14, SameConfiguration DEF Push, cache, setup, KeepInv, Selected, SelectsAllowed
<1>15. CASE UNCHANGED vars
  BY <1>15, SameConfiguration DEF vars, cache, setup, KeepInv, Selected, SelectsAllowed
<1>16. QED
  BY <1>1, <1>2, <1>3, <1>4, <1>5, <1>6, <1>7, <1>8, <1>9, <1>10, <1>11, <1>12,
     <1>13, <1>14, <1>15 DEF Next

LEMMA InitIInv == Init => IInv
<1> SUFFICES ASSUME Init PROVE IInv
  OBVIOUS
<1>1. TypeOK
  BY DEF Init, TypeOK
<1>2. CallInv
  BY DEF Init, CallInv, Resting, Chosen, CheckedOut
<1>3. KeepInv
  BY DEF Init, KeepInv
<1>4. QED BY <1>1, <1>2, <1>3 DEF IInv

LEMMA Inductive == Spec => []IInv
<1>1. IInv /\ [Next]_vars => IInv'
  BY TypesStay, CallStays, KeepStays DEF IInv
<1>2. QED BY InitIInv, <1>1, PTL DEF Spec

-------------------------------------------------------------------------------
(* The theorems.                                                            *)

(* Whatever the commands, kills and configurations that went before left,   *)
(* the cache, the links and the reported names and commits have their types. *)
THEOREM GitTyped == Spec => []TypeOK
<1>1. IInv => TypeOK
  BY DEF IInv
<1>2. QED BY Inductive, <1>1, PTL

LEMMA ServesNow ==
  ASSUME ~Relative, IInv, pc = "done"
  PROVE  /\ result \in pointed
         /\ \A p \in Wanted \cap Has[result] : Shown(Name[p]) = result
         /\ \A n \in Names : Shown(n) \in {result, Absent}
<1>1. /\ result = head /\ head \in pointed /\ tree = Files(head, Selected)
      /\ SelectsAllowed /\ local = Place /\ (Nested => \A p \in Wanted : Linked(p))
  BY DEF IInv, CallInv, Chosen, CheckedOut
<1>2. ~Rejected /\ TypeOK /\ head # None
  BY <1>1, GitAssumption DEF IInv, KeepInv, Place, TypeOK
<1>3. ASSUME NEW p \in Wanted \cap Has[result] PROVE Shown(Name[p]) = result
  <2>1. p \in Paths /\ tree[p] = head
    BY <1>1, <1>2, <1>3, WantedPaths, WantedSelected, FilesOf
  <2>2. CASE Nested
    <3>1. tree[p] # Absent
      BY <1>1, <1>2, <2>1, GitAssumption DEF TypeOK
    <3>2. DirExists(p)
      BY <2>1, <3>1 DEF DirExists
    <3>3. links[Name[p]] = p /\ p # None
      BY <1>1, <1>3, <2>1, <2>2, <3>2, GitAssumption DEF Linked
    <3>4. QED BY <1>1, <2>1, <2>2, <3>3, ShownFlat DEF Place
  <2>3. CASE ~Nested
    BY <1>1, <1>2, <1>3, <2>1, <2>3, ShownRoot DEF Place
  <2>4. QED BY <2>2, <2>3
<1>4. ASSUME NEW n \in Names PROVE Shown(n) \in {result, Absent}
  <2>1. \A p \in Paths : tree[p] \in {head, Absent}
    BY <1>1, FilesOf
  <2>2. links[n] \in Paths \cup {None}
    BY <1>2 DEF TypeOK
  <2>3. CASE local = "flat"
    BY <1>1, <2>1, <2>2, <2>3 DEF Shown
  <2>4. CASE local = "root" /\ \E p \in TopLevel : Name[p] = n
    <3>1. (CHOOSE p \in TopLevel : Name[p] = n) \in Paths
      BY <2>4, GitAssumption
    <3>2. QED BY <1>1, <2>1, <2>4, <3>1 DEF Shown
  <2>5. CASE local = "root" /\ ~\E p \in TopLevel : Name[p] = n
    BY <2>5 DEF Shown
  <2>6. QED BY <1>1, <2>3, <2>4, <2>5 DEF Place
<1>5. QED BY <1>1, <1>3, <1>4

(* When refresh() returns, the commit it reports is one the ref pointed to   *)
(* while it ran, and what is read is that commit, for every repository and   *)
(* whatever was in the cache; with an absolute cache_dir, as git_relative    *)
(* shows this to be needed.                                                  *)
THEOREM CommitAlwaysServed == ~Relative => (Spec => []ServesTheCommit)
<1>1. CASE Relative
  BY <1>1
<1>2. CASE ~Relative
  <2>1. IInv => ServesTheCommit
    BY <1>2, ServesNow DEF ServesTheCommit
  <2>2. QED BY Inductive, <2>1, PTL
<1>3. QED BY <1>1, <1>2

-------------------------------------------------------------------------------
(* Nothing but a checkout changes the files a reader may read, and nothing  *)
(* but the overlay's loop the links.                                        *)
LEMMA OnlyTheseChange ==
  ASSUME IInv, KeepInv', [Next]_vars, local # "none", local' # "none",
         allowed' = allowed
  PROVE  /\ Checkout \/ tree' = tree
         /\ links' = links \/ Overlay \/ (Fail /\ links' = Unlinked(allowed[next])
                                          /\ pc = "overlay")
<1>1. Selected' = Selected
  BY SameConfiguration DEF IInv, KeepInv, Selected, SelectsAllowed
<1>2. repo = "cloned" /\ ~locked
  BY DEF IInv, KeepInv
<1>3. Checkout \/ head' = head
  BY <1>2 DEF Next, Begin, Clone, SparseInit, SparseSet, SparseDisable, Fetch, Resolve,
     Overlay, Publish, Fail, Kill, Redeploy, CleanUp, Push, vars, cache
<1>4. Checkout \/ tree' = tree
  BY <1>1, <1>3 DEF IInv, KeepInv
<1>5. links' = links \/ Overlay \/ (Fail /\ links' = Unlinked(allowed[next])
                                    /\ pc = "overlay")
  BY <1>2 DEF Next, Begin, Clone, SparseInit, SparseSet, SparseDisable, Update, Fetch,
     Checkout, Resolve, Publish, Fail, Kill, Start, Redeploy, CleanUp, Push, vars, cache
<1>6. QED BY <1>4, <1>5

(* What a reader finds under a wanted name is p, in the commit checked out. *)
Found(p) == IF Nested THEN IF links[Name[p]] = p /\ ~Relative THEN tree[p] ELSE Absent
                      ELSE tree[p]

LEMMA ShownIs ==
  ASSUME IInv, local # "none", NEW p \in Wanted
  PROVE  Shown(Name[p]) = Found(p) /\ p \in Paths /\ Name[p] \in Names
<1>1. TypeOK /\ ~Rejected /\ local = Place
  BY DEF IInv, KeepInv
<1>2. p \in Paths /\ Name[p] \in Names /\ p # None
  BY <1>1, WantedPaths, GitAssumption DEF Names
<1>3. Nested => links[Name[p]] \in {p, None}
  BY DEF IInv, KeepInv
<1>4. QED BY <1>1, <1>2, <1>3, ShownFlat, ShownRoot DEF Place, Found

LEMMA ShownIsNext ==
  (IInv /\ local # "none" => \A p \in Wanted : Shown(Name[p]) = Found(p))'
<1>1. IInv /\ local # "none" => \A p \in Wanted : Shown(Name[p]) = Found(p)
  BY ShownIs
<1>2. QED BY <1>1, PTL

LEMMA KeepsShown ==
  ASSUME IInv, IInv', [Next]_vars, local # "none", local' # "none", allowed' = allowed,
         NEW p \in Wanted, Shown(Name[p]) # Absent, Shown(Name[p])' = Absent
  PROVE  \/ pc = "checkout" /\ p \notin Has[head']
         \/ pc = "overlay" /\ pc' = "idle" /\ p = allowed[next]
<1>1. /\ p \in Paths /\ Name[p] \in Names /\ tree[p] # Absent
      /\ Nested => links[Name[p]] = p /\ ~Relative
  BY ShownIs DEF Found
<1>2. (Nested /\ links'[Name[p]] # p) \/ tree'[p] = Absent
  <2>1. p \in Wanted' /\ Nested' = Nested
    BY SameConfiguration
  <2>2. Found(p)' = Absent
    BY <2>1, ShownIsNext
  <2>3. QED BY <1>1, <2>1, <2>2 DEF Found
<1>3. CASE Checkout
  <2>1. links' = links /\ pc = "checkout" /\ head' = fetched
    BY <1>3 DEF Checkout, Update, Detached
  <2>2. tree'[p] = Absent
    BY <1>1, <1>2, <2>1
  <2>3. fetched \in Commits /\ fetched # None
    BY <2>1, GitAssumption DEF IInv, CallInv, TypeOK
  <2>4. p \in Selected
    BY WantedSelected DEF IInv, KeepInv
  <2>5. tree' = Files(head', Selected)
    BY <1>3 DEF Checkout, Update
  <2>6. QED BY <1>1, <2>1, <2>2, <2>3, <2>4, <2>5, FilesOf, GitAssumption
<1>4. CASE ~Checkout
  <2>1. tree' = tree
    BY <1>4, OnlyTheseChange DEF IInv
  <2>2. Nested /\ links'[Name[p]] # p
    BY <1>1, <1>2, <2>1
  <2>3. ~Rejected /\ Selective /\ TypeOK
    BY <2>2 DEF IInv, KeepInv, Nested
  <2>4. CASE Overlay
    <3>1. p # allowed[next] => links'[Name[p]] = links[Name[p]]
      <4>1. allowed[next] \in ToSet(allowed) /\ links' = Relinked(allowed[next])
        BY <2>3, <2>4, OverlayLinks, AllowedPaths DEF IInv, Overlay
      <4>2. p # allowed[next] => Name[allowed[next]] # Name[p]
        BY <2>3, <4>1, WantedAlone
      <4>3. QED BY <1>1, <2>3, <4>1, <4>2 DEF Relinked, TypeOK
    <3>2. p = allowed[next] => links'[Name[p]] = p
      BY <1>1, <2>3, <2>4 DEF Overlay, Relinked, DirExists, TypeOK
    <3>3. QED BY <1>1, <2>2, <3>1, <3>2
  <2>5. CASE Fail /\ links' = Unlinked(allowed[next]) /\ pc = "overlay"
    <3>1. allowed[next] \in ToSet(allowed)
      BY <2>3, <2>5, AllowedPaths DEF IInv, CallInv
    <3>2. p # allowed[next] => Name[allowed[next]] # Name[p]
      BY <2>3, <3>1, WantedAlone
    <3>3. p # allowed[next] => links'[Name[p]] = links[Name[p]]
      BY <1>1, <2>3, <2>5, <3>2 DEF Unlinked, TypeOK
    <3>4. QED BY <1>1, <2>2, <2>5, <3>3 DEF Fail
  <2>6. QED BY <1>1, <2>2, <2>4, <2>5, OnlyTheseChange DEF IInv
<1>5. QED BY <1>3, <1>4

(* While refresh() runs, and after it has raised, a wanted skill a reader    *)
(* could find is lost only to a commit without it or when its own link could *)
(* not be remade: whatever the reconfigurations that led to the cache.       *)
THEOREM SkillsAlwaysKept == Spec => RefreshKeepsSkills
<1>1. IInv /\ IInv' /\ [Next]_vars =>
        [(local # "none" /\ local' # "none" /\ allowed' = allowed) =>
           \A p \in Wanted :
             (Shown(Name[p]) # Absent /\ Shown(Name[p])' = Absent) =>
               \/ pc = "checkout" /\ p \notin Has[head']
               \/ pc = "overlay" /\ pc' = "idle" /\ p = allowed[next]]_vars
  BY KeepsShown
<1>2. QED BY Inductive, <1>1, PTL DEF Spec, RefreshKeepsSkills
===============================================================================

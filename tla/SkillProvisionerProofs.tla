------------------------ MODULE SkillProvisionerProofs ------------------------
(***************************************************************************)
(* Proofs about SkillProvisioner, for any skills, users and provisions.     *)
(*                                                                          *)
(* The argument: what a call is about to copy, or has copied, was asked,    *)
(* granted and offered since the call began.  If calls neither stop nor     *)
(* overlap, one call at a time turns the old manifest's directories into    *)
(* the new manifest's, and the disk is always what that call thinks it is.  *)
(***************************************************************************)
EXTENDS SkillProvisioner, TLAPS

(* Granted and offered now is granted and offered since p began.            *)
HistoryInv ==
  \A p \in Provisions : ~Resting(p) =>
    usable[user[p]] \subseteq granted[p] /\ offered \subseteq present[p]

(* A call copies what it was called with; it deletes only skills.           *)
CallInv ==
  \A p \in Provisions :
    /\ pc[p] \in {"loop", "source"} => todo[p] \subseteq asked[p]
    /\ pc[p] = "source" => cand[p] \in asked[p] \cap granted[p]
    /\ pc[p] = "revoke" => todo[p] \subseteq Skills

DoneInv ==
  \A p \in Provisions : ~Resting(p) =>
    done[p] \subseteq asked[p] \cap granted[p] \cap present[p]

Copied == {s \in Names : "source" \in disk[s]}

Managed == IF readable THEN manifest ELSE {}

(* Without trouble one call is under way at most.                           *)
AloneInv ==
  ~trouble => \A p, q \in Provisions : ~Resting(p) /\ ~Resting(q) => p = q

(* ... and knows what is on disk.                                           *)
DiskInv ==
  ~trouble =>
    /\ (\A p \in Provisions : Resting(p)) => Copied = Managed
    /\ \A p \in Provisions :
         /\ pc[p] \in {"loop", "source"} => Copied = prev[p] \cup done[p]
         /\ pc[p] = "revoke" =>
              Copied = todo[p] \cup done[p] /\ todo[p] \cap done[p] = {}
         /\ pc[p] = "write" => Copied = done[p] /\ ~readable

IInv == TypeOK /\ HistoryInv /\ CallInv /\ DoneInv /\ AloneInv /\ DiskInv

-------------------------------------------------------------------------------
(* No call, and nothing on disk.                                            *)
LEMMA Starts == Init => IInv
<1> SUFFICES ASSUME Init PROVE IInv
  OBVIOUS
<1>1. Copied = {} /\ Managed = {}
  BY DEF Init, Copied, Managed
<1>2. TypeOK
  BY SkillAssumption DEF Init, TypeOK, Names
<1>3. HistoryInv /\ CallInv /\ DoneInv /\ AloneInv
  BY DEF Init, HistoryInv, CallInv, DoneInv, AloneInv, Resting
<1>4. DiskInv
  BY <1>1 DEF Init, DiskInv
<1>5. QED BY <1>2, <1>3, <1>4 DEF IInv

(* Types are kept.                                                          *)
LEMMA TypesKept ==
  ASSUME IInv, Next
  PROVE  TypeOK'
<1> USE SkillAssumption DEF IInv, TypeOK, CallInv, Names, Goto, grants, call, seen
<1>1. ASSUME NEW p \in Provisions, Begin(p) PROVE TypeOK'
  BY <1>1 DEF Begin
<1>2. ASSUME NEW p \in Provisions, Permit(p) PROVE TypeOK'
  BY <1>2 DEF Permit, Granted
<1>3. ASSUME NEW p \in Provisions, Miss(p) PROVE TypeOK'
  BY <1>3 DEF Miss
<1>4. ASSUME NEW p \in Provisions, Copy(p) PROVE TypeOK'
  BY <1>4 DEF Copy
<1>5. ASSUME NEW p \in Provisions, EndLoop(p) PROVE TypeOK'
  BY <1>5 DEF EndLoop
<1>6. ASSUME NEW p \in Provisions, Remove(p) PROVE TypeOK'
  BY <1>6 DEF Remove
<1>7. ASSUME NEW p \in Provisions, Truncate(p) PROVE TypeOK'
  BY <1>7 DEF Truncate
<1>8. ASSUME NEW p \in Provisions, WriteManifest(p) PROVE TypeOK'
  BY <1>8 DEF WriteManifest, Overlaid
<1>9. ASSUME NEW p \in Provisions, Stop(p) PROVE TypeOK'
  BY <1>9 DEF Stop
<1>10. CASE Change BY <1>10 DEF Change, Toggle
<1>11. CASE UserCreates BY <1>11 DEF UserCreates
<1>12. QED BY <1>1, <1>2, <1>3, <1>4, <1>5, <1>6, <1>7, <1>8, <1>9, <1>10, <1>11
        DEF Next

(* Histories keep up with the administrators.                               *)
LEMMA HistoryKept ==
  ASSUME IInv, Next
  PROVE  HistoryInv'
<1> USE SkillAssumption DEF IInv, TypeOK, HistoryInv, Resting, Goto, grants, call, seen
<1>1. ASSUME NEW p \in Provisions, Begin(p) PROVE HistoryInv'
  BY <1>1 DEF Begin
<1>2. ASSUME NEW p \in Provisions, Permit(p) PROVE HistoryInv'
  BY <1>2 DEF Permit, Granted
<1>3. ASSUME NEW p \in Provisions, Miss(p) PROVE HistoryInv'
  BY <1>3 DEF Miss
<1>4. ASSUME NEW p \in Provisions, Copy(p) PROVE HistoryInv'
  BY <1>4 DEF Copy
<1>5. ASSUME NEW p \in Provisions, EndLoop(p) PROVE HistoryInv'
  BY <1>5 DEF EndLoop
<1>6. ASSUME NEW p \in Provisions, Remove(p) PROVE HistoryInv'
  BY <1>6 DEF Remove
<1>7. ASSUME NEW p \in Provisions, Truncate(p) PROVE HistoryInv'
  BY <1>7 DEF Truncate
<1>8. ASSUME NEW p \in Provisions, WriteManifest(p) PROVE HistoryInv'
  BY <1>8 DEF WriteManifest, Overlaid
<1>9. ASSUME NEW p \in Provisions, Stop(p) PROVE HistoryInv'
  BY <1>9 DEF Stop
<1>10. CASE Change BY <1>10 DEF Change, Toggle
<1>11. CASE UserCreates BY <1>11 DEF UserCreates
<1>12. QED BY <1>1, <1>2, <1>3, <1>4, <1>5, <1>6, <1>7, <1>8, <1>9, <1>10, <1>11
        DEF Next

(* A call keeps to what it was called with.                                 *)
LEMMA CallKept ==
  ASSUME IInv, Next
  PROVE  CallInv'
<1> USE SkillAssumption DEF IInv, TypeOK, HistoryInv, CallInv, Resting, Goto, grants, call, seen
<1>1. ASSUME NEW p \in Provisions, Begin(p) PROVE CallInv'
  BY <1>1 DEF Begin
<1>2. ASSUME NEW p \in Provisions, Permit(p) PROVE CallInv'
  BY <1>2 DEF Permit, Granted
<1>3. ASSUME NEW p \in Provisions, Miss(p) PROVE CallInv'
  BY <1>3 DEF Miss
<1>4. ASSUME NEW p \in Provisions, Copy(p) PROVE CallInv'
  BY <1>4 DEF Copy
<1>5. ASSUME NEW p \in Provisions, EndLoop(p) PROVE CallInv'
  BY <1>5 DEF EndLoop
<1>6. ASSUME NEW p \in Provisions, Remove(p) PROVE CallInv'
  BY <1>6 DEF Remove
<1>7. ASSUME NEW p \in Provisions, Truncate(p) PROVE CallInv'
  BY <1>7 DEF Truncate
<1>8. ASSUME NEW p \in Provisions, WriteManifest(p) PROVE CallInv'
  BY <1>8 DEF WriteManifest, Overlaid
<1>9. ASSUME NEW p \in Provisions, Stop(p) PROVE CallInv'
  BY <1>9 DEF Stop
<1>10. CASE Change BY <1>10 DEF Change, Toggle
<1>11. CASE UserCreates BY <1>11 DEF UserCreates
<1>12. QED BY <1>1, <1>2, <1>3, <1>4, <1>5, <1>6, <1>7, <1>8, <1>9, <1>10, <1>11
        DEF Next

(* What was copied was effective.                                           *)
LEMMA DoneKept ==
  ASSUME IInv, Next
  PROVE  DoneInv'
<1> USE SkillAssumption DEF IInv, TypeOK, HistoryInv, CallInv, DoneInv, Resting, Goto, grants, call, seen
<1>1. ASSUME NEW p \in Provisions, Begin(p) PROVE DoneInv'
  BY <1>1 DEF Begin
<1>2. ASSUME NEW p \in Provisions, Permit(p) PROVE DoneInv'
  BY <1>2 DEF Permit, Granted
<1>3. ASSUME NEW p \in Provisions, Miss(p) PROVE DoneInv'
  BY <1>3 DEF Miss
<1>4. ASSUME NEW p \in Provisions, Copy(p) PROVE DoneInv'
  BY <1>4 DEF Copy
<1>5. ASSUME NEW p \in Provisions, EndLoop(p) PROVE DoneInv'
  BY <1>5 DEF EndLoop
<1>6. ASSUME NEW p \in Provisions, Remove(p) PROVE DoneInv'
  BY <1>6 DEF Remove
<1>7. ASSUME NEW p \in Provisions, Truncate(p) PROVE DoneInv'
  BY <1>7 DEF Truncate
<1>8. ASSUME NEW p \in Provisions, WriteManifest(p) PROVE DoneInv'
  BY <1>8 DEF WriteManifest, Overlaid
<1>9. ASSUME NEW p \in Provisions, Stop(p) PROVE DoneInv'
  BY <1>9 DEF Stop
<1>10. CASE Change BY <1>10 DEF Change, Toggle
<1>11. CASE UserCreates BY <1>11 DEF UserCreates
<1>12. QED BY <1>1, <1>2, <1>3, <1>4, <1>5, <1>6, <1>7, <1>8, <1>9, <1>10, <1>11
        DEF Next

(* A second call under way is recorded as trouble.                          *)
LEMMA AloneKept ==
  ASSUME IInv, Next
  PROVE  AloneInv'
<1> USE SkillAssumption DEF IInv, TypeOK, AloneInv, Resting, Goto, grants, call, seen
<1>1. ASSUME NEW p \in Provisions, Begin(p) PROVE AloneInv'
  BY <1>1 DEF Begin
<1>2. ASSUME NEW p \in Provisions, Permit(p) PROVE AloneInv'
  BY <1>2 DEF Permit, Granted
<1>3. ASSUME NEW p \in Provisions, Miss(p) PROVE AloneInv'
  BY <1>3 DEF Miss
<1>4. ASSUME NEW p \in Provisions, Copy(p) PROVE AloneInv'
  BY <1>4 DEF Copy
<1>5. ASSUME NEW p \in Provisions, EndLoop(p) PROVE AloneInv'
  BY <1>5 DEF EndLoop
<1>6. ASSUME NEW p \in Provisions, Remove(p) PROVE AloneInv'
  BY <1>6 DEF Remove
<1>7. ASSUME NEW p \in Provisions, Truncate(p) PROVE AloneInv'
  BY <1>7 DEF Truncate
<1>8. ASSUME NEW p \in Provisions, WriteManifest(p) PROVE AloneInv'
  BY <1>8 DEF WriteManifest, Overlaid
<1>9. ASSUME NEW p \in Provisions, Stop(p) PROVE AloneInv'
  BY <1>9 DEF Stop
<1>10. CASE Change BY <1>10 DEF Change, Toggle
<1>11. CASE UserCreates BY <1>11 DEF UserCreates
<1>12. QED BY <1>1, <1>2, <1>3, <1>4, <1>5, <1>6, <1>7, <1>8, <1>9, <1>10, <1>11
        DEF Next

(* The disk follows the one call.                                           *)
LEMMA DiskKept ==
  ASSUME IInv, Next
  PROVE  DiskInv'
<1> USE SkillAssumption DEF IInv, TypeOK, AloneInv, DiskInv, Resting, Copied, Managed, Names, Goto,
        grants, call, seen
<1>1. ASSUME NEW p \in Provisions, Begin(p) PROVE DiskInv'
  <2>1. /\ pc[p] \in {"idle", "finished"} /\ pc' = [pc EXCEPT ![p] = "loop"]
        /\ prev' = [prev EXCEPT ![p] = Managed] /\ done' = [done EXCEPT ![p] = {}]
        /\ UNCHANGED <<disk, manifest, readable>>
        /\ trouble' = (trouble \/ \E q \in Provisions \ {p} : ~Resting(q))
    BY <1>1 DEF Begin
  <2>2. ASSUME ~trouble' PROVE \A q \in Provisions : Resting(q)
    BY <2>1, <2>2
  <2>3. ASSUME ~trouble' PROVE Copied' = prev'[p] \cup done'[p]
    BY <2>1, <2>2, <2>3
  <2>4. QED BY <2>1, <2>2, <2>3
<1>2. ASSUME NEW p \in Provisions, Permit(p) PROVE DiskInv'
  BY <1>2 DEF Permit, Granted
<1>3. ASSUME NEW p \in Provisions, Miss(p) PROVE DiskInv'
  BY <1>3 DEF Miss
<1>4. ASSUME NEW p \in Provisions, Copy(p) PROVE DiskInv'
  BY <1>4 DEF Copy
<1>5. ASSUME NEW p \in Provisions, EndLoop(p) PROVE DiskInv'
  BY <1>5 DEF EndLoop
<1>6. ASSUME NEW p \in Provisions, Remove(p) PROVE DiskInv'
  <2>1. PICK s \in todo[p] :
          /\ pc[p] = "revoke" /\ pc' = pc
          /\ disk' = [disk EXCEPT ![s] = {}]
          /\ todo' = [todo EXCEPT ![p] = @ \ {s}]
          /\ UNCHANGED <<manifest, readable, prev, done, trouble>>
    BY <1>6 DEF Remove
  <2>2. Copied' = Copied \ {s}
    BY <2>1
  <2>3. ASSUME ~trouble, NEW q \in Provisions, q # p PROVE Resting(q)
    BY <2>1, <2>3
  <2>4. ~trouble => Copied' = todo'[p] \cup done[p] /\ todo'[p] \cap done[p] = {}
    BY <2>1, <2>2
  <2>5. QED BY <2>1, <2>3, <2>4
<1>7. ASSUME NEW p \in Provisions, Truncate(p) PROVE DiskInv'
  BY <1>7 DEF Truncate
<1>8. ASSUME NEW p \in Provisions, WriteManifest(p) PROVE DiskInv'
  BY <1>8 DEF WriteManifest, Overlaid
<1>9. ASSUME NEW p \in Provisions, Stop(p) PROVE DiskInv'
  BY <1>9 DEF Stop
<1>10. CASE Change BY <1>10 DEF Change, Toggle
<1>11. CASE UserCreates BY <1>11 DEF UserCreates
<1>12. QED BY <1>1, <1>2, <1>3, <1>4, <1>5, <1>6, <1>7, <1>8, <1>9, <1>10, <1>11
        DEF Next

(* The invariant and all its parts hold for ever.                           *)
LEMMA Inductive == Spec => []IInv
<1>1. IInv /\ [Next]_vars => IInv'
  <2>1. ASSUME IInv, Next PROVE IInv'
    BY <2>1, TypesKept, HistoryKept, CallKept, DoneKept, AloneKept, DiskKept DEF
            IInv
  <2>2. ASSUME IInv, UNCHANGED vars PROVE IInv'
    BY <2>2 DEF vars, IInv, TypeOK, HistoryInv, CallInv, DoneInv, AloneInv,
            DiskInv,
                Resting, Copied, Managed
  <2>3. QED BY <2>1, <2>2
<1>2. QED BY Starts, <1>1, PTL DEF Spec

-------------------------------------------------------------------------------
(* Theorems.                                                                *)

(* The skills directory, the manifest and the calls keep their types.       *)
THEOREM SkillsTyped == Spec => []TypeOK
<1>1. IInv => TypeOK
  BY DEF IInv
<1>2. QED BY <1>1, Inductive, PTL

(* The manifest provision() writes names what it has put on disk, unless    *)
(* calls stop half-way or overlap.                                          *)
THEOREM ManifestAlwaysMatches == Spec => []ManifestMatchesDisk
<1>1. IInv => ManifestMatchesDisk
  BY DEF IInv, DiskInv, ManifestMatchesDisk, Copied, Managed
<1>2. QED BY <1>1, Inductive, PTL

(* What is on disk when provision() returns is effective; so what has been  *)
(* revoked is gone, unless calls stop half-way or overlap.                  *)
THEOREM RevokedAlwaysRemoved == Spec => RevokedRemoved
<1>1. ASSUME IInv, NEW p \in Provisions, Returns(p), ~trouble
      PROVE  OnlyEffectiveLeft(p)
  <2>1. Copied = done[p]
    BY <1>1 DEF IInv, DiskInv, Returns
  <2>2. done[p] \subseteq asked[p] \cap granted[p] \cap present[p]
    BY <1>1 DEF IInv, DoneInv, Resting, Returns
  <2>3. QED BY <2>1, <2>2 DEF Copied, OnlyEffectiveLeft
<1>2. IInv => \A p \in Provisions : (Returns(p) /\ ~trouble) => OnlyEffectiveLeft(p)
  BY <1>1
<1>3. QED BY <1>2, Inductive, PTL DEF RevokedRemoved

(* provision() copies only what is allowed, granted and offered, whatever   *)
(* overlaps with it and wherever it stops.                                  *)
THEOREM OnlyEffectiveEverCopied == Spec => OnlyEffectiveCopied
<1> DEFINE Fresh(s) == "source" \in disk'[s] /\ "source" \notin disk[s]
           Due(s) == \E p \in Provisions :
                       ~Resting(p) /\ s \in asked[p] \cap granted[p] \cap present[p]
<1>1. ASSUME IInv, [Next]_vars, NEW s \in Names, Fresh(s) PROVE Due(s)
  <2>1. PICK p \in Provisions :
          pc[p] = "source" /\ cand[p] \in offered /\ s = cand[p]
    <3>1. disk' # disk
      BY <1>1
    <3>2. CASE \E p \in Provisions : Copy(p) \/ Stop(p)
      BY <1>1, <3>1, <3>2 DEF Copy, Stop, IInv, TypeOK
    <3>3. CASE \E p \in Provisions : Remove(p)
      BY <1>1, <3>3 DEF Remove, IInv, TypeOK
    <3>4. CASE UserCreates
      BY <1>1, <3>4 DEF UserCreates, IInv, TypeOK
    <3>5. QED BY <1>1, <3>1, <3>2, <3>3, <3>4
              DEF Next, Begin, Permit, Miss, EndLoop, Truncate, WriteManifest,
                  Change, vars
  <2>2. ~Resting(p) /\ s \in asked[p] \cap granted[p] \cap present[p]
    BY <1>1, <2>1 DEF IInv, HistoryInv, CallInv, Resting
  <2>3. QED BY <2>2
<1>2. IInv /\ [Next]_vars => \A s \in Names : Fresh(s) => Due(s)
  BY <1>1
<1>3. QED BY <1>2, Inductive, PTL DEF Spec, OnlyEffectiveCopied

(* provision() deletes no user's files, if users and workspaces keep to     *)
(* different names: what it deletes are skills.                             *)
THEOREM UserDirsAlwaysUntouched ==
  ASSUME Skills \cap UserNames = {}
  PROVE  Spec => UserDirsUntouched
<1> DEFINE Safe == \A s \in Names : "user" \in disk[s] => s \in UserNames
<1>1. Init => Safe
  BY DEF Init
<1>2. ASSUME IInv, Safe, [Next]_vars, NEW s \in Names
      PROVE  /\ "user" \in disk[s] => "user" \in disk'[s]
             /\ "user" \in disk'[s] => s \in UserNames
  <2>1. CASE \E p \in Provisions : Copy(p) \/ Stop(p)
    BY <1>2, <2>1 DEF Copy, Stop, IInv, TypeOK
  <2>2. CASE \E p \in Provisions : Remove(p)
    <3>1. PICK p \in Provisions : Remove(p)
      BY <2>2
    <3>2. PICK x \in Skills : disk' = [disk EXCEPT ![x] = {}]
      BY <1>2, <3>1 DEF Remove, IInv, CallInv
    <3>3. QED BY <1>2, <3>2 DEF IInv, TypeOK, Names
  <2>3. CASE UserCreates
    BY <1>2, <2>3 DEF UserCreates, IInv, TypeOK, Names
  <2>4. CASE disk' = disk
    BY <1>2, <2>4
  <2>5. QED BY <1>2, <2>1, <2>2, <2>3, <2>4
            DEF Next, Begin, Permit, Miss, EndLoop, Truncate, WriteManifest,
                Change, vars
<1>3. IInv /\ Safe /\ [Next]_vars => Safe'
  BY <1>2 DEF Names
<1>4. IInv /\ Safe /\ [Next]_vars =>
        \A s \in Names : "user" \in disk[s] => "user" \in disk'[s]
  BY <1>2
<1>5. QED BY <1>1, <1>3, <1>4, Inductive, PTL DEF Spec, UserDirsUntouched
===============================================================================

------------------------------- MODULE Policy -------------------------------
(***************************************************************************)
(* Who may use a skill or run a workflow: the questions identity providers  *)
(* answer, as functions of the rules they hold.                             *)
(*                                                                          *)
(* CasbinIdentityProvider keeps a set of rules under the model              *)
(*    e = !some(where (p.eft == deny))                                      *)
(*    m = each field of the request equals the rule's, or the rule's is "*" *)
(* and InMemoryIdentityProvider keeps per-user sets of denied names.        *)
(***************************************************************************)

Wildcard == "*"

Effects == {"allow", "deny"}

Rule(sub, ws, obj, act, eft) ==
  [sub |-> sub, ws |-> ws, obj |-> obj, act |-> act, eft |-> eft]

(* The matcher.                                                             *)
Covers(p, sub, ws, obj, act) ==
  /\ p.sub \in {sub, Wildcard}
  /\ p.ws \in {ws, Wildcard}
  /\ p.obj \in {obj, Wildcard}
  /\ p.act \in {act, Wildcard}

Denies(p, sub, ws, obj, act) == p.eft = "deny" /\ Covers(p, sub, ws, obj, act)

(* The effect: allowed unless some matching rule denies.  No rule allows.   *)
Enforce(policy, sub, ws, obj, act) ==
  \A p \in policy : ~Denies(p, sub, ws, obj, act)

CanUseSkill(policy, user, ws, skill) == Enforce(policy, user, ws, skill, "use")

CanRunWorkflow(policy, user, ws, workflow) ==
  Enforce(policy, user, ws, workflow, "run")

-------------------------------------------------------------------------------
(* The memory provider: denied is a set of <<user, name>>, one such set for *)
(* skills and one for workflows.                                            *)

MemoryAllows(denied, user, name) == <<user, name>> \notin denied

(* The same denials as Casbin rules, for every workspace.                   *)
RulesFor(denied, act) == {Rule(d[1], Wildcard, d[2], act, "deny") : d \in denied}

AsRules(deniedSkills, deniedWorkflows) ==
  RulesFor(deniedSkills, "use") \cup RulesFor(deniedWorkflows, "run")
===============================================================================

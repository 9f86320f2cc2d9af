----------------------------- MODULE Environment -----------------------------
(***************************************************************************)
(* The environment of an agent's process: layers of variables, each over    *)
(* the ones before it, and what of it may be shown.                         *)
(*                                                                          *)
(* A layer is a function from the names of the variables it sets to their   *)
(* values; a value is abstracted to the layer it comes from.                *)
(***************************************************************************)

Layers == {"global", "workspace", "user", "secret"}

Redacted == "***"

Layer(name, variables) == [v \in variables |-> name]

(* dict.update and {**a, **b}: what `upper' sets wins.                      *)
Over(upper, lower) ==
  [v \in DOMAIN upper \cup DOMAIN lower |->
     IF v \in DOMAIN upper THEN upper[v] ELSE lower[v]]

(* config.get_env: the workspace's variables over the global ones.          *)
ConfigEnv(globals, ofWorkspace) ==
  Over(Layer("workspace", ofWorkspace), Layer("global", globals))

(* resolve(): then the user's own for this workspace, the secrets on top.   *)
ResolvedEnv(globals, ofWorkspace, ofUser, secrets) ==
  Over(Layer("secret", secrets),
       Over(Layer("user", ofUser), ConfigEnv(globals, ofWorkspace)))

(* redact(): the copy for logs and traces.                                  *)
Redact(env, sensitive) ==
  [v \in DOMAIN env |-> IF v \in sensitive THEN Redacted ELSE env[v]]

-------------------------------------------------------------------------------
(* OpenBaoSecretProvider.get_secrets, by what the server does.              *)

Answers == {"ok", "missing", "denied", "broken", "timeout", "unreachable", "garbled"}

(* HTTP 404 is a workspace without secrets.  401, 403, any other status, no *)
(* answer and a malformed body all raise.                                   *)
Serves(answer) == answer \in {"ok", "missing"}

Secrets(answer, stored) == IF answer = "ok" THEN stored ELSE {}
===============================================================================

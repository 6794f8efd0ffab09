------------------------------ MODULE ReadOnlyRBAC ------------------------------
(* EnsureReadOnlyRBAC and CreateReadOnlyKubeconfig of                         *)
(* internal/capi/readonly.go: several callers, in one daemon or in several,   *)
(* bring the same three objects of a workload cluster up to date, one API     *)
(* request at a time.                                                         *)
CONSTANT Caller    \* invocations of CreateReadOnlyKubeconfig for one cluster

VARIABLES
  pc,        \* the request each caller makes next, or how it ended
  account,   \* the ServiceAccount exists
  role,      \* the ClusterRole
  binding    \* the ClusterRoleBinding

vars == <<pc, account, role, binding>>

(* "stale" can be updated in place; "foreign" has another roleRef, which is  *)
(* immutable.                                                                *)
RoleState == {"absent", "stale", "current"}
BindingState == {"absent", "stale", "foreign", "current"}

Binding == {"bind", "rebind", "unbind", "recreate"}
Ended ==
  {"malformed", "kubeconfig", "refused", "unrecognised", "faulted", "unrecreated"}
Stage == {"account", "role", "update", "token"} \cup Binding \cup Ended

(* A caller whose admin kubeconfig names no cluster ends before its first    *)
(* request.                                                                  *)
Init ==
  /\ pc \in [Caller -> {"account", "malformed"}]
  /\ account \in BOOLEAN
  /\ role \in RoleState
  /\ binding \in BindingState

Goto(c, s) == pc' = [pc EXCEPT ![c] = s]

(* The request is rejected, lost or times out for reasons of the server's    *)
(* own: the error is returned.                                               *)
Faulted(c, s) == Goto(c, s) /\ UNCHANGED <<account, role, binding>>

(* ServiceAccounts.Create; AlreadyExists is fine.                            *)
CreateAccount(c) ==
  /\ pc[c] = "account"
  /\ \/ /\ account' = TRUE
        /\ Goto(c, "role")
        /\ UNCHANGED <<role, binding>>
     \/ Faulted(c, "faulted")

CreateRole(c) ==
  /\ pc[c] = "role"
  /\ \/ /\ role = "absent"
        /\ role' = "current"
        /\ Goto(c, "bind")
        /\ UNCHANGED <<account, binding>>
     \/ /\ role # "absent"
        /\ Goto(c, "update")
        /\ UNCHANGED <<account, role, binding>>
     \/ Faulted(c, "faulted")

SkipUpdate == role
UpdatedRole == "current"

(* ClusterRoles.Update, after AlreadyExists.                                 *)
UpdateRole(c) ==
  /\ pc[c] = "update"
  /\ \/ role' = UpdatedRole /\ Goto(c, "bind") /\ UNCHANGED <<account, binding>>
     \/ Faulted(c, "faulted")

CreateBinding(c) ==
  /\ pc[c] = "bind"
  /\ \/ /\ binding = "absent"
        /\ binding' = "current"
        /\ Goto(c, "token")
        /\ UNCHANGED <<account, role>>
     \/ /\ binding # "absent"
        /\ Goto(c, "rebind")
        /\ UNCHANGED <<account, role, binding>>
     \/ Faulted(c, "faulted")

(* The refusal to change a roleRef, by what isImmutableRoleRefError looks for *)
(* in it: its reason and the words of its text are the API server's own.      *)
Refusal == SUBSET {"Invalid", "roleRef", "immutable"}
IsImmutableRoleRefError(refusal) == {"Invalid", "roleRef", "immutable"} \subseteq refusal

GivesUp == "refused"
Recovers == "unbind"

(* ClusterRoleBindings.Update.  The roleRef of a foreign binding cannot be   *)
(* changed, and the call goes on only if it recognises that it was told so;   *)
(* a binding somebody deleted since is created or NotFound.                   *)
UpdateBinding(c) ==
  /\ pc[c] = "rebind"
  /\ \/ /\ binding # "foreign"
        /\ binding' = "current"
        /\ Goto(c, "token")
        /\ UNCHANGED <<account, role>>
     \/ /\ binding = "foreign"
        /\ \E refusal \in Refusal :
             Goto(c, IF IsImmutableRoleRefError(refusal) THEN Recovers ELSE "unrecognised")
        /\ UNCHANGED <<account, role, binding>>
     \/ /\ binding = "absent"
        /\ Goto(c, "refused")
        /\ UNCHANGED <<account, role, binding>>
     \/ Faulted(c, "faulted")

(* Delete, decided on what Update said; NotFound ends the call.              *)
DeleteBinding(c) ==
  /\ pc[c] = "unbind"
  /\ \/ /\ binding' = "absent"
        /\ Goto(c, IF binding = "absent" THEN "refused" ELSE "recreate")
        /\ UNCHANGED <<account, role>>
     \/ Faulted(c, "faulted")

SkipRecreate == binding
Recreated == IF binding = "absent" THEN "current" ELSE binding

(* Create again; AlreadyExists is an error this time.                        *)
RecreateBinding(c) ==
  /\ pc[c] = "recreate"
  /\ \/ /\ binding' = Recreated
        /\ Goto(c, IF binding = "absent" THEN "token" ELSE "refused")
        /\ UNCHANGED <<account, role>>
     \/ Faulted(c, "unrecreated")

(* CreateToken for the account, and the kubeconfig around it; an empty token *)
(* is a fault of the server too.                                             *)
CreateToken(c) ==
  /\ pc[c] = "token"
  /\ \/ /\ account
        /\ Goto(c, "kubeconfig")
        /\ UNCHANGED <<account, role, binding>>
     \/ Faulted(c, "faulted")

Request(c) ==
  \/ CreateAccount(c) \/ CreateRole(c) \/ UpdateRole(c)
  \/ CreateBinding(c) \/ UpdateBinding(c)
  \/ DeleteBinding(c) \/ RecreateBinding(c)
  \/ CreateToken(c)

Next == \E c \in Caller : Request(c)

Spec == Init /\ [][Next]_vars

-----------------------------------------------------------------------------
(* Every variable keeps its type (readonly.go: EnsureReadOnlyRBAC).           *)
TypeOK ==
  /\ pc \in [Caller -> Stage]
  /\ account \in BOOLEAN
  /\ role \in RoleState
  /\ binding \in BindingState

(* A kubeconfig is handed out only with everything it needs in place.  The   *)
(* one thing it may lose later is its binding, to another caller that has     *)
(* deleted it and is about to recreate it, or has failed to; never does a     *)
(* token go with an old binding or a foreign one ("ensures the               *)
(* ServiceAccount, ClusterRole, and ClusterRoleBinding backing the read-only  *)
(* kubeconfig exist and are up to date").                                     *)
KubeconfigIsBacked ==
  \A c \in Caller : pc[c] = "kubeconfig" =>
    /\ account /\ role = "current"
    /\ \/ binding = "current"
       \/ binding = "absent" /\ \E d \in Caller : pc[d] \in {"recreate", "unrecreated"}

(* All who made a request have their answer, none of them a server's fault.  *)
AllAnswered ==
  /\ \A c \in Caller : pc[c] \in Ended \ {"faulted", "unrecreated"}
  /\ \E c \in Caller : pc[c] # "malformed"

(* No refusal to change the roleRef was recognised as one, by anybody.       *)
NoneRecognised == \A c \in Caller : pc[c] \in {"malformed", "unrecognised"}

(* If the API server answered every request, callers that stepped on each    *)
(* other's binding leave it as it should be once they have all returned,     *)
(* those included that got an error.  The exception is a foreign binding that *)
(* nobody recognised: it stays, and everybody is given an error (readonly.go: *)
(* EnsureReadOnlyRBAC, isImmutableRoleRefError).                              *)
SettledInPlace ==
  AllAnswered =>
    /\ account /\ role = "current"
    /\ binding = "current" \/ (binding = "foreign" /\ NoneRecognised)

(* However many callers want the same binding gone and back, at least one of *)
(* them comes away with a kubeconfig: they never all fail each other while   *)
(* the API server answers.  For them all to fail it takes a foreign binding   *)
(* that not one of them recognised (readonly.go: EnsureReadOnlyRBAC).         *)
SomeoneSucceeds ==
  AllAnswered => (\E c \in Caller : pc[c] = "kubeconfig") \/ NoneRecognised
=============================================================================

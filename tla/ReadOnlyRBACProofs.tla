--------------------------- MODULE ReadOnlyRBACProofs ---------------------------
(* Proofs about ReadOnlyRBAC, for any number of callers.                      *)
EXTENDS ReadOnlyRBAC, TLAPS

(* Somebody has deleted the binding and still has to recreate it, or failed. *)
Unfinished == \E d \in Caller : pc[d] \in {"recreate", "unrecreated"}

(* What each stage knows of the objects its caller has dealt with.  Only     *)
(* "recreate" finds the binding surely not foreign, so that AlreadyExists    *)
(* means there that somebody else has put the right one in place.            *)
Inv(c) ==
  /\ pc[c] \notin {"account", "malformed", "faulted"} => account
  /\ pc[c] \notin {"account", "malformed", "faulted", "role", "update"} => role = "current"
  /\ pc[c] \in {"rebind", "unbind"} => binding # "absent" \/ Unfinished
  /\ pc[c] = "unrecognised" => binding \in {"foreign", "current"} \/ Unfinished
  /\ pc[c] = "recreate" => binding \in {"absent", "current"}
  /\ pc[c] \in {"token", "kubeconfig", "refused"} =>
       binding = "current" \/ (binding = "absent" /\ Unfinished)

IInv == TypeOK /\ \A c \in Caller : Inv(c)

LEMMA InitIInv == Init => IInv
BY DEF Init, IInv, Inv, TypeOK, Stage, Ended, Binding, RoleState, BindingState

LEMMA NextIInv == IInv /\ [Next]_vars => IInv'
<1> SUFFICES ASSUME IInv, [Next]_vars PROVE IInv'
  OBVIOUS
<1> USE DEF IInv, TypeOK, RoleState, BindingState
<1>1. CASE UNCHANGED vars
  BY <1>1 DEF vars, Inv, Unfinished
<1>2. ASSUME NEW c \in Caller, Request(c) PROVE IInv'
  <2>1. CASE CreateAccount(c)
    BY <2>1
       DEF CreateAccount, Faulted, Goto, Inv, Unfinished, Stage, Ended, Binding
  <2>2. CASE CreateRole(c)
    BY <2>2
       DEF CreateRole, Faulted, Goto, Inv, Unfinished, Stage, Ended, Binding
  <2>3. CASE UpdateRole(c)
    BY <2>3
       DEF UpdateRole, UpdatedRole, Faulted, Goto, Inv, Unfinished, Stage, Ended, Binding
  <2>4. CASE CreateBinding(c)
    BY <2>4
       DEF CreateBinding, Faulted, Goto, Inv, Unfinished, Stage, Ended, Binding
  <2>5. CASE UpdateBinding(c)
    BY <2>5
       DEF UpdateBinding, Recovers, Faulted, Goto, Inv, Unfinished, Stage, Ended, Binding
  <2>6. CASE DeleteBinding(c)
    BY <2>6
       DEF DeleteBinding, Faulted, Goto, Inv, Unfinished, Stage, Ended, Binding
  <2>7. CASE RecreateBinding(c)
    BY <2>7
       DEF RecreateBinding, Recreated, Faulted, Goto, Inv, Unfinished, Stage, Ended, Binding
  <2>8. CASE CreateToken(c)
    BY <2>8
       DEF CreateToken, Faulted, Goto, Inv, Unfinished, Stage, Ended, Binding
  <2> QED BY <1>2, <2>1, <2>2, <2>3, <2>4, <2>5, <2>6, <2>7, <2>8 DEF Request
<1> QED BY <1>1, <1>2 DEF Next

LEMMA SpecIInv == Spec => []IInv
BY InitIInv, NextIInv, PTL DEF Spec

(* Every variable keeps its type.                                             *)
THEOREM TypeCorrect == Spec => []TypeOK
<1>1. IInv => TypeOK
  BY DEF IInv
<1> QED BY <1>1, SpecIInv, PTL

(* However many callers step on each other, a kubeconfig is handed out only   *)
(* with its account, role and binding in place, and loses its binding only to *)
(* a caller that has deleted it and has yet to recreate it, or failed to.     *)
THEOREM TokensAreBacked == Spec => []KubeconfigIsBacked
<1>1. IInv => KubeconfigIsBacked
  BY DEF IInv, Inv, KubeconfigIsBacked, Unfinished
<1> QED BY <1>1, SpecIInv, PTL

(* As long as the API server answers, the objects end up in place however the *)
(* callers' requests interleave; all but a foreign binding that none of them  *)
(* could recognise.                                                           *)
THEOREM EnsureSettles == Spec => []SettledInPlace
<1>1. IInv => SettledInPlace
  BY DEF IInv, Inv, TypeOK, SettledInPlace, AllAnswered, NoneRecognised, Unfinished, Ended
<1> QED BY <1>1, SpecIInv, PTL

-----------------------------------------------------------------------------
(* A caller that is refused finds the hand of another that has not been: a    *)
(* missing binding is somebody's to recreate, and a binding that has come     *)
(* back was put there by a caller that goes on to its token.  Where a refusal *)
(* goes unrecognised the binding is still foreign, and nobody is refused yet. *)
Answered == \A c \in Caller : pc[c] \notin {"faulted", "unrecreated"}
Lost == {"malformed", "refused", "unrecognised"}

Hope ==
  /\ Answered /\ (\E c \in Caller : pc[c] = "refused")
       => \E c \in Caller : pc[c] \notin Lost
  /\ Answered /\ binding = "current" /\ (\E d \in Caller : pc[d] = "recreate")
       => \E e \in Caller : pc[e] \in {"token", "kubeconfig"}

LEMMA InitHope == Init => Hope
BY DEF Init, Hope, Answered, Lost

LEMMA NextHope == IInv /\ Hope /\ [Next]_vars => Hope'
<1> SUFFICES ASSUME IInv, Hope, [Next]_vars PROVE Hope'
  OBVIOUS
<1> USE DEF IInv, TypeOK
<1>1. CASE UNCHANGED vars
  BY <1>1 DEF vars, Hope, Lost, Answered
<1>2. ASSUME NEW c \in Caller, Request(c) PROVE Hope'
  <2> USE DEF Hope, Lost, Answered, Goto, Faulted, Inv, Unfinished
  <2>1. CASE CreateAccount(c)
    BY <2>1 DEF CreateAccount
  <2>2. CASE CreateRole(c)
    BY <2>2 DEF CreateRole
  <2>3. CASE UpdateRole(c)
    BY <2>3 DEF UpdateRole
  <2>4. CASE CreateBinding(c)
    BY <2>4 DEF CreateBinding
  <2>5. CASE UpdateBinding(c)
    BY <2>5 DEF UpdateBinding, Recovers
  <2>6. CASE DeleteBinding(c)
    BY <2>6 DEF DeleteBinding
  <2>7. CASE RecreateBinding(c)
    BY <2>7 DEF RecreateBinding, Recreated
  <2>8. CASE CreateToken(c)
    BY <2>8 DEF CreateToken
  <2> QED BY <1>2, <2>1, <2>2, <2>3, <2>4, <2>5, <2>6, <2>7, <2>8 DEF Request
<1> QED BY <1>1, <1>2 DEF Next

(* Callers that step on each other never all fail: as long as the API server  *)
(* answers, one of them gets its kubeconfig, or none of them has recognised a *)
(* foreign binding.                                                           *)
THEOREM OneSucceeds == Spec => []SomeoneSucceeds
<1>1. IInv /\ Hope => SomeoneSucceeds
  BY DEF Hope, Lost, Answered, AllAnswered, NoneRecognised, SomeoneSucceeds, Ended
<1>2. IInv /\ Hope /\ [Next]_vars => Hope'
  BY NextHope
<1> QED BY <1>1, <1>2, InitHope, SpecIInv, PTL DEF Spec
=============================================================================

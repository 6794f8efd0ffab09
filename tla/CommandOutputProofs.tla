-------------------------- MODULE CommandOutputProofs --------------------------
(* Theorems about CommandOutput for every limit, chunk size and exit code.    *)
EXTENDS CommandOutput, TLAPS

Writing == {"load", "store", "check"}

(* A copier owes its buffer exactly the chunk it is writing, and a run that   *)
(* is over has waited for its copiers.                                        *)
CopyInv ==
  /\ \A s \in Stream :
       /\ copier[s] \in {"read", "eof"} => produced[s] = captured[s]
       /\ copier[s] \in Writing => produced[s] = captured[s] + chunk[s]
       /\ copier[s] \in Writing => chunk[s] > 0 /\ Limited
       /\ copier[s] = "failed" => produced[s] > 0
       /\ run = "start" => copier[s] = "read" /\ produced[s] = 0
  /\ run = "done" /\ code = 0 => \A s \in Stream : copier[s] = "eof"

(* The counter as the only stream with output sees it.                        *)
Alone(s) == Limited /\ \A r \in Stream \ {s} : produced[r] = 0

CountInv ==
  \A s \in Stream : Alone(s) =>
    /\ captured[s] <= MaxOutput
    /\ copier[s] \in {"read", "load", "store", "eof"} => written = captured[s]
    /\ copier[s] = "store" => loaded[s] = captured[s]
    /\ copier[s] = "check" =>
         loaded[s] = captured[s] /\ written = captured[s] + chunk[s]

IInv == TypeOK /\ CopyInv /\ CountInv

LEMMA InitIInv == Init => IInv
BY SizesAssumption, CodesAssumption
DEF Init, IInv, TypeOK, CopyInv, CountInv, Alone, Writing, Limited, Code, Killed

LEMMA NextIInv == IInv /\ [Next]_vars => IInv'
<1> SUFFICES ASSUME IInv, [Next]_vars PROVE IInv'
  OBVIOUS
<1> USE SizesAssumption, CodesAssumption
    DEF IInv, TypeOK, CopyInv, CountInv, Alone, Writing, Limited, Drained,
        Move, Code, Killed
<1>1. ASSUME NEW s \in Stream, Read(s) PROVE IInv'
  BY <1>1 DEF Read
<1>2. ASSUME NEW s \in Stream, Load(s) PROVE IInv'
  BY <1>2 DEF Load
<1>3. ASSUME NEW s \in Stream, Store(s) PROVE IInv'
  BY <1>3 DEF Store
<1>4. ASSUME NEW s \in Stream, Check(s) PROVE IInv'
  BY <1>4 DEF Check, Over
<1>5. ASSUME NEW s \in Stream, EndOfFile(s) PROVE IInv'
  BY <1>5 DEF EndOfFile
<1>6. CASE Start
  BY <1>6 DEF Start
<1>7. CASE ChildExit
  BY <1>7 DEF ChildExit
<1>8. CASE Finish
  BY <1>8 DEF Finish, ReportedCode
<1>9. CASE UNCHANGED vars
  BY <1>9 DEF vars
<1>. QED
  BY <1>1, <1>2, <1>3, <1>4, <1>5, <1>6, <1>7, <1>8, <1>9 DEF Next

LEMMA SpecIInv == Spec => []IInv
BY InitIInv, NextIInv, PTL DEF Spec

(* Every reachable state of ExecFile is well typed (shell.go).                *)
THEOREM TypeCorrect == Spec => []TypeOK
<1>1. IInv => TypeOK
  BY DEF IInv
<1>. QED
  BY <1>1, SpecIInv, PTL

(* Output is never cut off silently, for every limit (shell.go: ExitError).   *)
THEOREM NothingIsLostSilently == Spec => []SuccessIsComplete
<1>1. IInv => SuccessIsComplete
  BY DEF IInv, TypeOK, CopyInv, SuccessIsComplete
<1>. QED
  BY <1>1, SpecIInv, PTL

(* The counter enforces the cap on a command that uses one stream only.       *)
THEOREM CapHoldsForOneStream == Spec => []OneStreamCapped
<1>1. IInv => OneStreamCapped
  BY DEF IInv, TypeOK, CountInv, Alone, OneStreamCapped
<1>. QED
  BY <1>1, SpecIInv, PTL
=============================================================================

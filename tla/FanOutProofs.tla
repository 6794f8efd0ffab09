------------------------------ MODULE FanOutProofs ------------------------------
(* Theorems about FanOut for any number of targets.                           *)
EXTENDS FanOut, FiniteSetTheorems, TLAPS

Types ==
  /\ tool \in Tool
  /\ targets \in 0..MaxTargets
  /\ launched \in 0..targets
  /\ stage \in [Target -> Stage]
  /\ access \in [Target -> {"none", "admin", "readonly"}]
  /\ results \in [Target -> Outcome]
  /\ files \subseteq Target
  /\ answer \in {"none", "success", "isError"}
  /\ daemon \in {"up", "gone"}

(* The WaitGroup counts the goroutines that have not returned.               *)
Counted == pending = Cardinality(AtWork)

(* A goroutine waits until its turn in the loop, is only where its tool takes *)
(* it, and has a result when its command has run or it has returned.          *)
Placed(i) ==
  /\ stage[i] = "waiting" <=> launched < i
  /\ stage[i] \in {"write", "remove"} => tool \in Exec
  /\ stage[i] = "run" => tool \in Exec \cup {"embedded"}
  /\ stage[i] = "credentials" => tool \notin {"get_cluster_kubeconfig", "embedded"}
  /\ stage[i] = "remove" => results[i] \in {Good, Bad}
  /\ stage[i] = "done" => results[i] \in {Good, Bad, Refused}
  /\ stage[i] \notin {"remove", "done"} => results[i] = "none"

Filed(i) ==
  /\ tool \in Exec /\ stage[i] \in {"run", "remove"} => i \in files
  /\ i \in files => tool \in Exec
  /\ i \in files => \/ stage[i] \in {"run", "remove"}
                    \/ stage[i] = "done" /\ results[i] = Refused /\ DiskFull

Held(i) ==
  tool \in Readonly /\ (\/ stage[i] \in {"write", "run", "remove"}
                        \/ i \in files \/ results[i] = Good) =>
    access[i] = "readonly"

Answered ==
  answer # "none" =>
    /\ launched = targets
    /\ \A i \in 1..targets : stage[i] = "done"
    /\ answer = "isError" <=> \E i \in 1..targets : Failed(results[i])

GoroutineInv == \A i \in Target : Placed(i) /\ Filed(i) /\ Held(i)

IInv == Types /\ Counted /\ GoroutineInv /\ Answered

-----------------------------------------------------------------------------
(* The counter.                                                               *)

LEMMA AtWorkIsFinite == IsFiniteSet(AtWork)
<1>1. MaxTargets \in Int /\ 1 \in Int
  BY FanOutAssumption
<1>2. IsFiniteSet(Target)
  BY <1>1, FS_Interval DEF Target
<1>3. AtWork \in SUBSET Target
  BY DEF AtWork
<1> QED BY <1>2, <1>3, FS_Subset

LEMMA Enters ==
  ASSUME Types, Counted, NEW i \in Target, stage[i] = "waiting",
         NEW s \in Stage \ {"waiting", "done"},
         stage' = [stage EXCEPT ![i] = s], pending' = pending + 1
  PROVE  Counted'
<1>1. AtWork' = AtWork \cup {i} /\ i \notin AtWork
  BY DEF AtWork, Types
<1>2. Cardinality(AtWork \cup {i}) = Cardinality(AtWork) + 1
  BY <1>1, AtWorkIsFinite, FS_AddElement
<1> QED BY <1>1, <1>2 DEF Counted

LEMMA Stays ==
  ASSUME Types, Counted, NEW i \in Target, stage[i] \notin {"waiting", "done"},
         NEW s \in Stage \ {"waiting", "done"},
         stage' = [stage EXCEPT ![i] = s], UNCHANGED pending
  PROVE  Counted'
<1>1. AtWork' = AtWork
  BY DEF AtWork, Types
<1> QED BY <1>1 DEF Counted

LEMMA Leaves ==
  ASSUME Types, Counted, NEW i \in Target, stage[i] \notin {"waiting", "done"},
         stage' = [stage EXCEPT ![i] = "done"], pending' = pending - 1
  PROVE  Counted'
<1>1. AtWork' = AtWork \ {i} /\ i \in AtWork
  BY DEF AtWork, Types, Stage
<1>2. Cardinality(AtWork \ {i}) = Cardinality(AtWork) - 1
  BY <1>1, AtWorkIsFinite, FS_RemoveElement
<1> QED BY <1>1, <1>2 DEF Counted

-----------------------------------------------------------------------------
(* The invariant.                                                             *)

LEMMA InitIInv == Init => IInv
<1> SUFFICES ASSUME Init PROVE IInv
  OBVIOUS
<1>1. Types
  BY FanOutAssumption DEF Init, Types, Stage, Outcome
<1>2. AtWork = {}
  BY DEF Init, AtWork
<1>3. Counted
  BY <1>2, FS_EmptySet DEF Init, Counted
<1>4. GoroutineInv
  BY FanOutAssumption
  DEF Init, GoroutineInv, Placed, Filed, Held, Target, Good
<1> QED BY <1>1, <1>3, <1>4 DEF IInv, Answered, Init

LEMMA CallTargets == Types => 1..targets \subseteq Target /\ targets \in Nat
BY FanOutAssumption DEF Types, Target

(* Once there is an answer, no goroutine is at work.                         *)
LEMMA NobodyAtWork ==
  ASSUME IInv, NEW i \in Target, stage[i] \notin {"waiting", "done"}
  PROVE  answer = "none" /\ i <= targets
<1>1. i \in 1..targets
  BY DEF IInv, GoroutineInv, Placed, Types, Target
<1> QED BY <1>1 DEF IInv, Answered

(* A goroutine's step: it goes on, or it returns with an outcome, and it     *)
(* keeps to what its tool lets it do.                                         *)
GoesOn(i) ==
  /\ UNCHANGED pending
  /\ \E s \in {"credentials", "write", "run", "remove"} :
       stage' = [stage EXCEPT ![i] = s]

Returns(i) ==
  /\ pending' = pending - 1
  /\ stage' = [stage EXCEPT ![i] = "done"]

LEMMA GoroutineIInv ==
  ASSUME IInv, NEW i \in Target, stage[i] \notin {"waiting", "done"},
         UNCHANGED <<tool, targets, launched, answer, daemon>>,
         GoesOn(i) \/ Returns(i),
         \A q \in Target \ {i} :
           /\ access'[q] = access[q] /\ results'[q] = results[q]
           /\ q \in files' <=> q \in files,
         access' \in [Target -> {"none", "admin", "readonly"}],
         results' \in [Target -> Outcome], files' \subseteq Target,
         (Placed(i) /\ Filed(i) /\ Held(i))'
  PROVE  IInv'
<1>1. Types'
  BY DEF IInv, Types, GoesOn, Returns, Stage
<1>2. Counted'
  BY Stays, Leaves DEF IInv, GoesOn, Returns, Stage
<1>3. ASSUME NEW q \in Target \ {i} PROVE (Placed(q) /\ Filed(q) /\ Held(q))'
  <2>1. stage'[q] = stage[q]
    BY DEF IInv, Types, GoesOn, Returns
  <2> QED BY <2>1 DEF IInv, GoroutineInv, Placed, Filed, Held
<1>4. GoroutineInv'
  BY <1>3 DEF GoroutineInv
<1>5. Answered'
  BY NobodyAtWork DEF Answered
<1> QED BY <1>1, <1>2, <1>4, <1>5 DEF IInv

LEMMA NextIInv == IInv /\ [Next]_vars => IInv'
<1> SUFFICES ASSUME IInv, [Next]_vars PROVE IInv'
  OBVIOUS
<1> USE DEF Good, Bad, Refused
<1>1. CASE UNCHANGED vars
  BY <1>1 DEF vars, call, IInv, Types, Counted, AtWork, GoroutineInv, Placed,
              Filed, Held, Answered
<1>2. CASE Launch
  <2>1. /\ launched < targets /\ launched' = launched + 1
        /\ launched + 1 \in Target
        /\ stage' = [stage EXCEPT ![launched + 1] = "kubeconfig"]
        /\ pending' = pending + 1
        /\ UNCHANGED <<tool, targets, access, results, files, answer, daemon>>
    BY <1>2, FanOutAssumption DEF Launch, Added, call, IInv, Types, Target
  <2>2. stage[launched + 1] = "waiting"
    BY <2>1 DEF IInv, Types, GoroutineInv, Placed
  <2>3. Types'
    BY <2>1 DEF IInv, Types, Stage
  <2>4. Counted'
    BY <2>1, <2>2, Enters DEF IInv, Stage
  <2>5. ASSUME NEW i \in Target PROVE (Placed(i) /\ Filed(i) /\ Held(i))'
    <3>1. i \in Nat /\ launched \in Nat
      BY DEF IInv, Types, Target
    <3>2. Placed(i) /\ Filed(i) /\ Held(i)
      BY DEF IInv, GoroutineInv
    <3>3. CASE i = launched + 1
      BY <2>1, <2>2, <3>1, <3>2, <3>3 DEF IInv, Types, Placed, Filed, Held
    <3>4. CASE i # launched + 1
      BY <2>1, <3>1, <3>2, <3>4 DEF IInv, Types, Placed, Filed, Held
    <3> QED BY <3>3, <3>4
  <2>6. Answered'
    BY <2>1 DEF IInv, Types, Answered
  <2> QED BY <2>3, <2>4, <2>5, <2>6 DEF IInv, GoroutineInv
<1>3. CASE Answer
  <2>1. /\ launched = targets /\ pending = 0
        /\ answer' = IF \E i \in 1..targets : Failed(results[i])
                       THEN "isError" ELSE "success"
        /\ UNCHANGED <<tool, targets, launched, pending, stage, access, results,
                       files, daemon>>
    BY <1>3 DEF Answer, call
  <2>2. AtWork = {}
    BY <2>1, AtWorkIsFinite, FS_EmptySet DEF IInv, Counted
  <2>3. \A i \in 1..targets : stage[i] = "done"
    <3> SUFFICES ASSUME NEW i \in 1..targets PROVE stage[i] = "done"
      OBVIOUS
    <3>1. i \in Target /\ i \in Nat /\ targets \in Nat
      BY CallTargets DEF IInv
    <3>2. stage[i] # "waiting"
      BY <2>1, <3>1 DEF IInv, GoroutineInv, Placed
    <3> QED BY <2>2, <3>1, <3>2 DEF AtWork
  <2>4. Answered'
    BY <2>1, <2>3 DEF Answered
  <2>5. Types' /\ Counted' /\ GoroutineInv'
    BY <2>1 DEF IInv, Types, Counted, AtWork, GoroutineInv, Placed, Filed, Held
  <2> QED BY <2>4, <2>5 DEF IInv
<1>4. ASSUME NEW i \in Target, Goroutine(i) PROVE IInv'
  <2> USE DEF At, Goto, call
  <2>1. /\ stage[i] \in Stage \ {"waiting", "done"}
        /\ UNCHANGED <<tool, targets, launched, answer, daemon>>
        /\ Placed(i) /\ Filed(i) /\ Held(i)
    BY <1>4 DEF Goroutine, Resolve, Equip, Write, Run, Handle, Remove, Stage,
                IInv, GoroutineInv
  <2>2. CASE Resolve(i)
    BY <2>1, <2>2, GoroutineIInv
    DEF Resolve, Continue, Return, Released, GoesOn, Returns, IInv, Types,
        Placed, Filed, Held, Tool, Exec, Kubeconfig, Readonly, Outcome
  <2>3. CASE Equip(i)
    BY <2>1, <2>3, GoroutineIInv
    DEF Equip, Restricted, Return, Released, GoesOn, Returns, IInv, Types,
        Placed, Filed, Held, Tool, Exec, Kubeconfig, Readonly, Outcome
  <2>4. CASE Write(i)
    BY <2>1, <2>4, GoroutineIInv
    DEF Write, Return, Released, GoesOn, Returns, IInv, Types,
        Placed, Filed, Held, Tool, Exec, Kubeconfig, Readonly, Outcome
  <2>5. CASE Run(i)
    <3>1. /\ stage[i] = "run" /\ tool \in Exec
          /\ stage' = [stage EXCEPT ![i] = "remove"]
          /\ UNCHANGED <<pending, access, files>>
          /\ \E outcome \in {Good, Bad} :
               results' = [results EXCEPT ![i] = outcome]
      BY <2>5 DEF Run
    <3>2. GoesOn(i)
      BY <3>1 DEF GoesOn
    <3>3. results'[i] \in {Good, Bad} /\ stage'[i] = "remove"
      BY <3>1 DEF IInv, Types
    <3>4. (Placed(i) /\ Filed(i) /\ Held(i))'
      BY <2>1, <3>1, <3>3 DEF Placed, Filed, Held
    <3> QED BY <2>1, <3>1, <3>2, <3>4, GoroutineIInv DEF IInv, Types, Outcome
  <2>6. CASE Handle(i)
    <3>1. /\ tool \notin Exec \cup Readonly
          /\ UNCHANGED <<access, files>>
          /\ Returns(i)
          /\ \E outcome \in {Good, Bad, Refused} :
               results' = [results EXCEPT ![i] = outcome]
      BY <2>6 DEF Handle, Return, Released, Returns, Exec, Readonly
    <3>2. (Placed(i) /\ Filed(i) /\ Held(i))'
      BY <2>1, <3>1 DEF Returns, IInv, Types, Placed, Filed, Held
    <3> QED BY <2>1, <3>1, <3>2, GoroutineIInv DEF IInv, Types, Outcome
  <2>7. CASE Remove(i)
    BY <2>1, <2>7, GoroutineIInv
    DEF Remove, Removed, Return, Released, Returns, IInv, Types, Placed, Filed,
        Held, Exec, Readonly, Outcome
  <2> QED BY <1>4, <2>2, <2>3, <2>4, <2>5, <2>6, <2>7 DEF Goroutine
<1>5. CASE Stop
  BY <1>5 DEF Stop, call, IInv, Types, Counted, AtWork, GoroutineInv, Placed,
              Filed, Held, Answered
<1> QED BY <1>1, <1>2, <1>3, <1>4, <1>5 DEF Next

LEMMA SpecIInv == Spec => []IInv
BY InitIInv, NextIInv, PTL DEF Spec

-----------------------------------------------------------------------------
(* The properties.                                                            *)

(* Every variable keeps its type, and the WaitGroup never goes negative.     *)
THEOREM TypeCorrect == Spec => []TypeOK
<1>1. IInv => TypeOK
  BY DEF IInv, Types, Counted, TypeOK
<1> QED BY <1>1, SpecIInv, PTL

(* No caller is answered before every one of its targets has a result        *)
(* (tools.go: wg.Wait).                                                      *)
THEOREM NoTargetIsMissing == Spec => []AnswerIsComplete
<1>1. IInv => AnswerIsComplete
  BY CallTargets
  DEF IInv, Answered, AnswerIsComplete, GoroutineInv, Placed, Good, Bad, Refused
<1> QED BY <1>1, SpecIInv, PTL

(* An answer is an error if and only if a target failed, in whatever order   *)
(* the goroutines were done (tools.go: isError).                             *)
THEOREM FailureIsTold == Spec => []AnswerTellsFailure
<1>1. IInv => AnswerTellsFailure
  <2> SUFFICES ASSUME IInv, answer # "none"
               PROVE  /\ answer = "success" => \A i \in 1..targets : results[i] = Good
                      /\ answer = "isError" => \E i \in 1..targets : results[i] # Good
    BY DEF AnswerTellsFailure
  <2>1. \A i \in 1..targets : results[i] \in {Good, Bad, Refused}
    BY CallTargets DEF IInv, Answered, GoroutineInv, Placed
  <2>2. answer = "isError" <=> \E i \in 1..targets : Failed(results[i])
    BY DEF IInv, Answered
  <2> QED BY <2>1, <2>2 DEF Failed, Good, Bad, Refused
<1> QED BY <1>1, SpecIInv, PTL

(* A command has its file and only a command has one, but for what a write   *)
(* that stopped short leaves (exec.go: WithKubeconfig).                       *)
THEOREM FilesOutliveNoCommand == Spec => []FilesAreOfRunningCommands
<1>1. IInv => FilesAreOfRunningCommands
  BY DEF IInv, Types, GoroutineInv, Filed, FilesAreOfRunningCommands
<1> QED BY <1>1, SpecIInv, PTL

(* No read-only call lets an admin kubeconfig out (tools.go: roKC).          *)
THEOREM NoAdminGetsOut == Spec => []ReadonlyStaysReadonly
<1>1. IInv => ReadonlyStaysReadonly
  BY DEF IInv, GoroutineInv, Held, ReadonlyStaysReadonly
<1> QED BY <1>1, SpecIInv, PTL
=============================================================================

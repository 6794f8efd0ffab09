-------------------------------- MODULE FanOut --------------------------------
(* A tool call against several clusters at once, a goroutine for each:        *)
(* execInClusterFanOut with execOneTarget and getClusterKubeconfigFanOut of   *)
(* internal/server/tools.go, WithKubeconfig of internal/exec/exec.go, and     *)
(* runFanOut with callOneTarget of internal/embed/fanout.go.  The daemon may  *)
(* be stopped meanwhile.                                                      *)
EXTENDS Integers, FiniteSets

CONSTANTS
  MaxTargets,  \* bound on how many resolved targets a call has
  DiskFull,    \* os.WriteFile may stop short, having created the file
  Stoppable    \* the daemon may be told to exit while the call runs

ASSUME FanOutAssumption ==
  /\ MaxTargets \in Nat \ {0}
  /\ DiskFull \in BOOLEAN /\ Stoppable \in BOOLEAN

VARIABLES
  tool,       \* the tool called
  targets,    \* how many targets its patterns resolved to
  launched,   \* goroutines the loop has started so far
  pending,    \* the counter of the WaitGroup
  stage,      \* where each goroutine is
  access,     \* what the kubeconfig a goroutine holds lets its bearer do
  results,    \* results[i]
  files,      \* the temporary kubeconfigs on disk, one per target
  answer,     \* what the caller has got: nothing, success or isError
  daemon      \* the process

call == <<tool, targets>>
vars == <<call, launched, pending, stage, access, results, files, answer, daemon>>

Exec == {"exec_in_cluster", "exec_in_cluster_readonly"}
Kubeconfig == {"get_cluster_kubeconfig", "get_cluster_kubeconfig_readonly"}
Readonly == {"exec_in_cluster_readonly", "get_cluster_kubeconfig_readonly"}
Tool == Exec \cup Kubeconfig \cup {"embedded"}

Target == 1..MaxTargets
Stage == {"waiting", "kubeconfig", "credentials", "write", "run", "remove", "done"}
Good == "good"         \* exit 0, a kubeconfig, a tool result
Bad == "bad"           \* another exit code, a tool result with IsError
Refused == "error"     \* Error is set, and there is nothing else
Outcome == {"none", Good, Bad, Refused}

(* An exec call without targets is refused before this; every other tool     *)
(* runs against none.                                                        *)
Init ==
  /\ tool \in Tool
  /\ targets \in 0..MaxTargets
  /\ tool \in Exec => targets > 0
  /\ launched = 0
  /\ pending = 0
  /\ stage = [i \in Target |-> "waiting"]
  /\ access = [i \in Target |-> "none"]
  /\ results = [i \in Target |-> "none"]
  /\ files = {}
  /\ answer = "none"
  /\ daemon = "up"

-----------------------------------------------------------------------------
(* The loop over the targets, and what follows it.                            *)

AddLater == pending
Added == pending + 1

(* wg.Add and the go statement, for the next target.                         *)
Launch ==
  /\ daemon = "up"
  /\ launched < targets
  /\ launched' = launched + 1
  /\ pending' = Added
  /\ stage' = [stage EXCEPT ![launched + 1] = "kubeconfig"]
  /\ UNCHANGED <<call, access, results, files, answer, daemon>>

OnlyRefusals(outcome) == outcome = Refused
Failed(outcome) == outcome \in {Refused, Bad}

(* wg.Wait returns, and the results are looked over.                         *)
Answer ==
  /\ daemon = "up"
  /\ answer = "none"
  /\ launched = targets
  /\ pending = 0
  /\ answer' = IF \E i \in 1..targets : Failed(results[i]) THEN "isError" ELSE "success"
  /\ UNCHANGED <<call, launched, pending, stage, access, results, files, daemon>>

-----------------------------------------------------------------------------
(* The goroutine of target i.                                                 *)

At(i, s) == daemon = "up" /\ stage[i] = s
Goto(i, s) == stage' = [stage EXCEPT ![i] = s]

StuckOnError(outcome) == IF outcome = Refused THEN pending ELSE pending - 1
Released(outcome) == pending - 1

(* The goroutine's result is stored, and wg.Done runs.                       *)
Return(i, outcome) ==
  /\ Goto(i, "done")
  /\ results' = [results EXCEPT ![i] = outcome]
  /\ pending' = Released(outcome)

(* Where an admin kubeconfig is all the tool asked for, it is the result;    *)
(* an embedded tool goes straight to its handler.                            *)
Continue(i) ==
  CASE tool = "get_cluster_kubeconfig" -> Return(i, Good)
    [] tool = "embedded" -> Goto(i, "run") /\ UNCHANGED <<pending, results>>
    [] OTHER -> Goto(i, "credentials") /\ UNCHANGED <<pending, results>>

(* ParseTarget, the lookup of the kubeconfig entry, cachedKubeconfig: in     *)
(* execOneTarget itself, or by ResolveTarget for the other tools.            *)
Resolve(i) ==
  /\ At(i, "kubeconfig")
  /\ \/ /\ access' = [access EXCEPT ![i] = "admin"]
        /\ Continue(i)
     \/ Return(i, Refused) /\ UNCHANGED access
  /\ UNCHANGED <<call, launched, files, answer, daemon>>

Shadowed(i) == access
Restricted(i) ==
  IF tool \in Readonly THEN [access EXCEPT ![i] = "readonly"] ELSE access

(* readOnlyKubeconfig for a read-only tool, clientsForContext and            *)
(* FetchOpenStackEnv for exec_in_cluster.                                    *)
Equip(i) ==
  /\ At(i, "credentials")
  /\ \/ /\ access' = Restricted(i)
        /\ IF tool \in Kubeconfig
             THEN Return(i, Good)
             ELSE Goto(i, "write") /\ UNCHANGED <<pending, results>>
     \/ Return(i, Refused) /\ UNCHANGED access
  /\ UNCHANGED <<call, launched, files, answer, daemon>>

(* writeTempKubeconfig: os.WriteFile fails before it has created the file,   *)
(* or leaves a part of it behind.                                            *)
Write(i) ==
  /\ At(i, "write")
  /\ \/ /\ files' = files \cup {i}
        /\ Goto(i, "run")
        /\ UNCHANGED <<pending, results>>
     \/ /\ Return(i, Refused)
        /\ \/ UNCHANGED files
           \/ DiskFull /\ files' = files \cup {i}
  /\ UNCHANGED <<call, launched, access, answer, daemon>>

(* execer.ExecFile; a command that cannot be started, is killed or says too  *)
(* much counts as one that exited with 1.                                    *)
Run(i) ==
  /\ tool \in Exec
  /\ At(i, "run")
  /\ \E outcome \in {Good, Bad} : results' = [results EXCEPT ![i] = outcome]
  /\ Goto(i, "remove")
  /\ UNCHANGED <<call, launched, pending, access, files, answer, daemon>>

(* The handler of kubernetes-mcp-server, given the one target.               *)
Handle(i) ==
  /\ tool = "embedded"
  /\ At(i, "run")
  /\ \E outcome \in {Good, Bad, Refused} : Return(i, outcome)
  /\ UNCHANGED <<call, launched, access, files, answer, daemon>>

KeepOnFailure(i) == IF results[i] = Good THEN files \ {i} ELSE files
Removed(i) == files \ {i}

(* The deferred os.Remove.                                                   *)
Remove(i) ==
  /\ At(i, "remove")
  /\ files' = Removed(i)
  /\ Return(i, results[i])
  /\ UNCHANGED <<call, launched, access, answer, daemon>>

(* main returns: Shutdown waits ten seconds for the calls in flight, which   *)
(* may last longer, and no deferred function of theirs runs then.            *)
Stop ==
  /\ Stoppable
  /\ daemon = "up"
  /\ daemon' = "gone"
  /\ UNCHANGED <<call, launched, pending, stage, access, results, files, answer>>

Goroutine(i) ==
  Resolve(i) \/ Equip(i) \/ Write(i) \/ Run(i) \/ Handle(i) \/ Remove(i)

Next == Launch \/ Answer \/ (\E i \in Target : Goroutine(i)) \/ Stop

Spec == Init /\ [][Next]_vars

(* Go's scheduler neglects no goroutine, and every request and command ends. *)
FairSpec ==
  Spec /\ WF_vars(Launch) /\ WF_vars(Answer)
       /\ \A i \in Target : WF_vars(Goroutine(i))

-----------------------------------------------------------------------------
(* Every variable keeps its type, and the WaitGroup's counter is the number   *)
(* of goroutines that have not returned: it never panics for going negative   *)
(* (tools.go: execInClusterFanOut).                                           *)
AtWork == {i \in Target : stage[i] \notin {"waiting", "done"}}

TypeOK ==
  /\ tool \in Tool
  /\ targets \in 0..MaxTargets
  /\ launched \in 0..targets
  /\ stage \in [Target -> Stage]
  /\ pending = Cardinality(AtWork)
  /\ access \in [Target -> {"none", "admin", "readonly"}]
  /\ results \in [Target -> Outcome]
  /\ files \subseteq Target
  /\ answer \in {"none", "success", "isError"}
  /\ daemon \in {"up", "gone"}

(* The caller gets an answer for every target: none is still at work, and    *)
(* none has left its place in the results empty (tools.go: wg.Wait).         *)
AnswerIsComplete ==
  answer # "none" =>
    \A i \in 1..targets : stage[i] = "done" /\ results[i] # "none"

(* The answer is an error exactly when some target did not give what was     *)
(* asked of it, whatever the others did (tools.go and fanout.go: isError).   *)
AnswerTellsFailure ==
  /\ answer = "success" => \A i \in 1..targets : results[i] = Good
  /\ answer = "isError" => \E i \in 1..targets : results[i] # Good

(* A command has its kubeconfig as long as it runs, and the file is there no  *)
(* longer, but for what a write that stopped short has left behind (exec.go:  *)
(* WithKubeconfig, "always cleans the temp file up").                         *)
FilesAreOfRunningCommands ==
  LET running == {i \in Target : tool \in Exec /\ stage[i] \in {"run", "remove"}} IN
  /\ running \subseteq files
  /\ \A i \in files \ running : DiskFull /\ results[i] = Refused

(* A read-only call never lets an admin kubeconfig out of the daemon: not to  *)
(* its command, not to the disk (parts of a file included) and not into its   *)
(* answer, though every one of its goroutines held one (tools.go: roKC).      *)
ReadonlyStaysReadonly ==
  tool \in Readonly =>
    \A i \in Target :
      i \in files \/ stage[i] \in {"write", "run", "remove"} \/ results[i] = Good
        => access[i] = "readonly"

(* A call is answered, however its targets fail (tools.go, fanout.go:        *)
(* wg.Wait).                                                                 *)
CallIsAnswered == <>(answer # "none" \/ daemon = "gone")
=============================================================================

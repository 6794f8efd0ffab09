----------------------------- MODULE CommandOutput -----------------------------
(* OSExecer.ExecFile of internal/shell/shell.go: a child process, the two     *)
(* goroutines of os/exec that copy its stdout and stderr, and the byte limit  *)
(* the two copiers share without a lock.                                      *)
EXTENDS Integers

CONSTANTS
  Stream,        \* "stdout" and "stderr"
  MaxOutput,     \* Options.MaxOutputBytes; 0 means unlimited
  ChunkSize,     \* the sizes of what one read of a pipe may return
  MaxChunks,     \* bound: reads of one pipe
  ExitCode       \* the codes the child may exit with

ASSUME SizesAssumption ==
  /\ MaxOutput \in Nat /\ MaxChunks \in Nat
  /\ ChunkSize \subseteq Nat \ {0}
ASSUME CodesAssumption == ExitCode \subseteq Nat /\ 0 \in ExitCode

Killed == -1  \* ProcessState.ExitCode() of a child ended by a signal
Code == ExitCode \cup {1, Killed}

VARIABLES
  run,        \* where cmd.Run is
  status,     \* the code the child exited with, once it has
  copier,     \* what each copying goroutine does
  chunk,      \* the size of the p it is writing
  loaded,     \* the value of limit.written it read
  written,    \* sharedLimit.written
  produced,   \* bytes the child wrote and the copier read
  captured,   \* bytes in the stream's buffer
  reads,      \* reads of each pipe, for the bound
  code        \* the code ExecFile reports, once cmd.Run is over

vars == <<run, status, copier, chunk, loaded, written, produced, captured,
          reads, code>>

Init ==
  /\ run = "start"
  /\ status = 0
  /\ copier = [s \in Stream |-> "read"]
  /\ chunk = [s \in Stream |-> 0]
  /\ loaded = [s \in Stream |-> 0]
  /\ written = 0
  /\ produced = [s \in Stream |-> 0]
  /\ captured = [s \in Stream |-> 0]
  /\ reads = [s \in Stream |-> 0]
  /\ code = 0

Move(s, to) == copier' = [copier EXCEPT ![s] = to]

Limited == MaxOutput > 0

(* cmd.Run starts the child, or cannot and fails with code 1.                *)
Start ==
  /\ run = "start"
  /\ \/ run' = "running" /\ UNCHANGED code
     \/ run' = "done" /\ code' = 1
  /\ UNCHANGED <<status, copier, chunk, loaded, written, produced, captured,
                 reads>>

(* A read of the pipe returns bytes; what the child wrote before it exited   *)
(* is still in the pipe afterwards.  Unlimited output goes to the buffer.    *)
Read(s) ==
  /\ run \in {"running", "exited"}
  /\ copier[s] = "read"
  /\ reads[s] < MaxChunks
  /\ \E k \in ChunkSize :
       /\ chunk' = [chunk EXCEPT ![s] = k]
       /\ produced' = [produced EXCEPT ![s] = @ + k]
       /\ captured' = IF Limited THEN captured
                      ELSE [captured EXCEPT ![s] = @ + k]
  /\ reads' = [reads EXCEPT ![s] = @ + 1]
  /\ Move(s, IF Limited THEN "load" ELSE "read")
  /\ UNCHANGED <<run, status, loaded, written, code>>

(* w.limit.written += len(p): a load and a store, no lock around them.       *)
Load(s) ==
  /\ copier[s] = "load"
  /\ loaded' = [loaded EXCEPT ![s] = written]
  /\ Move(s, "store")
  /\ UNCHANGED <<run, status, chunk, written, produced, captured, reads, code>>

Store(s) ==
  /\ copier[s] = "store"
  /\ written' = loaded[s] + chunk[s]
  /\ Move(s, "check")
  /\ UNCHANGED <<run, status, chunk, loaded, produced, captured, reads, code>>

OverIfFull(w) == w >= MaxOutput + 2
Over(w) == w > MaxOutput

(* if w.limit.written > w.limit.max: the field is read again, or the value   *)
(* just stored is still in a register.                                       *)
Check(s) ==
  /\ copier[s] = "check"
  /\ \E w \in {written, loaded[s] + chunk[s]} :
       IF Over(w)
         THEN Move(s, "failed") /\ UNCHANGED captured
         ELSE /\ Move(s, "read")
              /\ captured' = [captured EXCEPT ![s] = @ + chunk[s]]
  /\ UNCHANGED <<run, status, chunk, loaded, written, produced, reads, code>>

(* The child exits by itself, by SIGPIPE once a copier has closed its end,   *)
(* or is killed because the request's context is cancelled.                  *)
ChildExit ==
  /\ run = "running"
  /\ run' = "exited"
  /\ status' \in ExitCode \cup {Killed}
  /\ UNCHANGED <<copier, chunk, loaded, written, produced, captured, reads,
                 code>>

(* The pipe is drained and every process that held it has closed it.         *)
EndOfFile(s) ==
  /\ copier[s] = "read"
  /\ run = "exited"
  /\ Move(s, "eof")
  /\ UNCHANGED <<run, status, chunk, loaded, written, produced, captured, reads,
                 code>>

Drained(s) == copier[s] \in {"eof", "failed"}

IgnoreCopyErrors(c) == c
ReportedCode(c) ==
  IF c = 0 /\ \E s \in Stream : copier[s] = "failed" THEN 1 ELSE c

(* cmd.Run returns when the child and both copiers are done.  The child's    *)
(* own failure comes before a copier's; an error that is no exit status,     *)
(* such as a copier's or a cancellation that came too late to kill, is 1.    *)
Finish ==
  /\ run = "exited"
  /\ \A s \in Stream : Drained(s)
  /\ run' = "done"
  /\ \/ code' = ReportedCode(status)
     \/ status = 0 /\ code' = 1
  /\ UNCHANGED <<status, copier, chunk, loaded, written, produced, captured,
                 reads>>

Next ==
  \/ \E s \in Stream : Read(s) \/ Load(s) \/ Store(s) \/ Check(s)
                       \/ EndOfFile(s)
  \/ Start \/ ChildExit \/ Finish

Spec == Init /\ [][Next]_vars

-----------------------------------------------------------------------------
(* Every variable keeps its type (shell.go: sharedLimit, limitedWriter).     *)
TypeOK ==
  /\ run \in {"start", "running", "exited", "done"}
  /\ status \in Code
  /\ copier \in [Stream -> {"read", "load", "store", "check", "eof", "failed"}]
  /\ chunk \in [Stream -> Nat] /\ loaded \in [Stream -> Nat]
  /\ written \in Nat
  /\ produced \in [Stream -> Nat] /\ captured \in [Stream -> Nat]
  /\ reads \in [Stream -> 0 .. MaxChunks]
  /\ code \in Code

(* Code 0 means that nothing is missing: output cut off at the limit is      *)
(* always reported as a failure, whatever the race on the counter does       *)
(* (ExitError: "or whose output exceeded MaxOutputBytes").                   *)
SuccessIsComplete == run = "done" /\ code = 0 => captured = produced

(* The cap holds as long as only one stream has output: the copiers' race is *)
(* all that breaks it (shell.go: sharedLimit).                               *)
OneStreamCapped ==
  \A s \in Stream :
    Limited /\ (\A r \in Stream \ {s} : produced[r] = 0)
      => captured[s] <= MaxOutput

(* stdout and stderr together stay within MaxOutputBytes (shell.go:20).      *)
CombinedCap ==
  Limited => \A s, r \in Stream :
    s # r => captured[s] + captured[r] <= MaxOutput
=============================================================================

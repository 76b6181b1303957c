----------------------------- MODULE CmdRunner -----------------------------
(***************************************************************************)
(* runInProcess: one command as a child process, on the POSIX build.       *)
(* The child and the runner meet in two bounded pipes.  QProcess (a Qt     *)
(* class, external) moves pipe contents to its own buffers, and learns     *)
(* that the child is gone, only inside waitForReadyRead / waitForFinished: *)
(* handler threads have no Qt event loop, so state() is as old as the last *)
(* wait.                                                                   *)
(***************************************************************************)
EXTENDS Sequences, Integers

CONSTANTS
    Programs,    \* what a child may do, see Program
    PipeSize,    \* chunks a pipe holds before its writer blocks (64 KB)
    Limits       \* shapes of timeoutMs: "positive", "zero", "negative"

Channels == {"out", "err"}
\* The child's steps, in order, and how it ends: with an exit code (the signal
\* number, when it crashes), unless it hangs.  "stdin" stands for reading
\* standard input up to its end.
Program  == [steps : Seq(Channels \cup {"stdin"}), exit : Nat, hangs : BOOLEAN]

ASSUME CmdRunnerAssumption ==
    /\ Programs \subseteq Program
    /\ PipeSize \in Nat \ {0}
    /\ Limits \subseteq {"positive", "zero", "negative"}

VARIABLES
    prog,      \* the program the command runs
    limit,     \* the shape of timeoutMs
    at,        \* steps of prog the child has done
    child,     \* "none", "running", "exited" or "killed"
    code,      \* exit status the kernel keeps for the child
    stdinEnd,  \* the child's standard input is at its end
    pipe,      \* pipe[ch]: chunks in the OS pipe
    buffer,    \* buffer[ch]: chunks in QProcess's read buffer
    state,     \* QProcess::state()
    expired,   \* QDeadlineTimer::hasExpired()
    pc,        \* "call", "started", "loop", "read", "finish", "done"
    all,       \* all[ch]: outAll and errAll
    ret        \* [rc, out, err] as returned

childVars == <<prog, limit, at, child, code, pipe>>
vars == <<prog, limit, at, child, code, stdinEnd, pipe, buffer, state, expired, pc, all, ret>>

None    == [ch \in Channels |-> <<>>]
NoRet   == [rc |-> -1, out |-> <<>>, err |-> <<>>]
Message == <<0>>   \* an err text of runInProcess itself: no chunk of a child

Init ==
    /\ prog \in Programs /\ limit \in Limits
    /\ at = 0 /\ child = "none" /\ code = 0 /\ stdinEnd = FALSE
    /\ pipe = None /\ buffer = None /\ state = "NotRunning"
    /\ expired = FALSE /\ pc = "call" /\ all = None /\ ret = NoRet

Return(rc, out, err) == pc' = "done" /\ ret' = [rc |-> rc, out |-> out, err |-> err]

-----------------------------------------------------------------------------
(* The child process.  A chunk is identified by the step that wrote it.    *)

Doing == child = "running" /\ at < Len(prog.steps)

ChildWrites ==
    /\ Doing /\ prog.steps[at + 1] \in Channels
    /\ Len(pipe[prog.steps[at + 1]]) < PipeSize
    /\ pipe' = [pipe EXCEPT ![prog.steps[at + 1]] = Append(@, at + 1)]
    /\ at' = at + 1
    /\ UNCHANGED <<prog, limit, child, code, stdinEnd, buffer, state, expired, pc, all, ret>>

ChildReadsStdin ==
    /\ Doing /\ prog.steps[at + 1] = "stdin" /\ stdinEnd
    /\ at' = at + 1
    /\ UNCHANGED <<prog, limit, child, code, stdinEnd, pipe, buffer, state, expired, pc, all, ret>>

ChildExits ==
    /\ child = "running" /\ at = Len(prog.steps) /\ ~prog.hangs
    /\ child' = "exited" /\ code' = prog.exit
    /\ UNCHANGED <<prog, limit, at, stdinEnd, pipe, buffer, state, expired, pc, all, ret>>

Child == ChildWrites \/ ChildReadsStdin \/ ChildExits

-----------------------------------------------------------------------------
(* runInProcess.                                                           *)

\* pwsh is not installed, cmdusr is unknown, or the process does not start.
RefuseToStart ==
    /\ pc = "call"
    /\ Return(1, <<>>, Message)
    /\ UNCHANGED <<childVars, stdinEnd, buffer, state, expired, all>>

\* Mutant of Start: waitForStarted() is missing.
StartUnawaited ==
    /\ pc = "call"
    /\ child' = "running" /\ state' = "Starting" /\ pc' = "started"
    /\ UNCHANGED <<prog, limit, at, code, stdinEnd, pipe, buffer, expired, all, ret>>

\* start() and waitForStarted() succeed.
Start ==
    /\ pc = "call"
    /\ child' = "running" /\ state' = "Running" /\ pc' = "started"
    /\ UNCHANGED <<prog, limit, at, code, stdinEnd, pipe, buffer, expired, all, ret>>

\* setgid or setuid fails in the forked child, which then exits with 125 before
\* exec: waitForStarted sees its start pipe close, as it does on exec.
StartWithoutPrivilege ==
    /\ pc = "call"
    /\ child' = "exited" /\ code' = 125 /\ state' = "Running" /\ pc' = "started"
    /\ UNCHANGED <<prog, limit, at, stdinEnd, pipe, buffer, expired, all, ret>>

\* closeWriteChannel() and the deadline timer: a zero timeout has expired at
\* once, a negative one never expires.
CloseWriteChannel ==
    /\ pc = "started"
    /\ stdinEnd' = TRUE
    /\ expired' = (limit = "zero") /\ pc' = "loop"
    /\ UNCHANGED <<childVars, buffer, state, all, ret>>

DeadlinePasses ==
    /\ pc \in {"loop", "read"} /\ limit = "positive" /\ ~expired
    /\ expired' = TRUE
    /\ UNCHANGED <<childVars, stdinEnd, buffer, state, pc, all, ret>>

Received == [ch \in Channels |-> buffer[ch] \o pipe[ch]]

\* Mutant of WaitForReadyRead: waitForFinished, which returns only when the
\* child is gone.
WaitForFinishedOnly ==
    /\ pc = "loop" /\ ~expired /\ child # "running"
    /\ buffer' = Received /\ pipe' = None
    /\ state' = "NotRunning" /\ pc' = "read"
    /\ UNCHANGED <<prog, limit, at, child, code, stdinEnd, expired, all, ret>>

\* waitForReadyRead(50): empties both pipes into the buffers, or after 50 ms
\* finds nothing; it notices that the child is gone only when the pipes hold no
\* more data.
WaitForReadyRead ==
    /\ pc = "loop" /\ ~expired
    /\ buffer' = Received /\ pipe' = None
    /\ state' = IF child # "running" /\ pipe = None THEN "NotRunning" ELSE state
    /\ pc' = "read"
    /\ UNCHANGED <<prog, limit, at, child, code, stdinEnd, expired, all, ret>>

\* Mutant of ReadAll: outAll = ... instead of outAll += ...
ReadLast ==
    /\ pc = "read"
    /\ all' = [ch \in Channels |-> IF buffer[ch] = <<>> THEN all[ch] ELSE buffer[ch]]
    /\ buffer' = None
    /\ pc' = IF state = "NotRunning" THEN "finish" ELSE "loop"
    /\ UNCHANGED <<childVars, stdinEnd, state, expired, ret>>

\* The rest of the loop body.
ReadAll ==
    /\ pc = "read"
    /\ all' = [ch \in Channels |-> all[ch] \o buffer[ch]] /\ buffer' = None
    /\ pc' = IF state = "NotRunning" THEN "finish" ELSE "loop"
    /\ UNCHANGED <<childVars, stdinEnd, state, expired, ret>>

\* Mutant of KillChild: the exit code is returned although the child was killed.
KillAndReturnCode ==
    /\ pc = "loop" /\ expired /\ state # "NotRunning"
    /\ child' = IF child = "running" THEN "killed" ELSE child
    /\ state' = "NotRunning"
    /\ Return(code, all["out"], all["err"])
    /\ UNCHANGED <<prog, limit, at, code, stdinEnd, pipe, buffer, expired, all>>

\* Mutant of KillChild: the timed-out child is left alone.
LeaveChild ==
    /\ pc = "loop" /\ expired /\ state # "NotRunning"
    /\ Return(1, <<>>, Message)
    /\ UNCHANGED <<childVars, stdinEnd, buffer, state, expired, all>>

\* The deadline has passed and state() is still Running, be it stale or not:
\* kill(), waitForFinished(1000) and, in ~QProcess, once more.  What was read
\* so far is dropped.
KillChild ==
    /\ pc = "loop" /\ expired /\ state # "NotRunning"
    /\ child' = IF child = "running" THEN "killed" ELSE child
    /\ state' = "NotRunning"
    /\ Return(1, <<>>, Message)
    /\ UNCHANGED <<prog, limit, at, code, stdinEnd, pipe, buffer, expired, all>>

\* The final drain and the normal return.
Finish ==
    /\ pc = "finish"
    /\ all' = [ch \in Channels |-> all[ch] \o buffer[ch]] /\ buffer' = None
    /\ Return(code, all'["out"], all'["err"])
    /\ UNCHANGED <<childVars, stdinEnd, state, expired>>

runInProcess ==
    \/ RefuseToStart \/ Start \/ StartWithoutPrivilege \/ CloseWriteChannel
    \/ WaitForReadyRead \/ ReadAll \/ KillChild \/ Finish

Returned == pc = "done" /\ UNCHANGED vars

Next == Child \/ runInProcess \/ DeadlinePasses \/ Returned

Spec == Init /\ [][Next]_vars

\* The kernel schedules the child and the handler thread, and time passes.
FairSpec == Spec /\ WF_vars(Child) /\ WF_vars(runInProcess) /\ WF_vars(DeadlinePasses)

-----------------------------------------------------------------------------
Chunks == [Channels -> Seq(Nat)]

\* Type invariant of the runner; the pipes never hold more than they can.
TypeOK ==
    /\ prog \in Programs /\ limit \in Limits
    /\ at \in Nat /\ at <= Len(prog.steps)
    /\ child \in {"none", "running", "exited", "killed"} /\ code \in Nat
    /\ stdinEnd \in BOOLEAN /\ expired \in BOOLEAN
    /\ pipe \in Chunks /\ buffer \in Chunks /\ all \in Chunks
    /\ \A ch \in Channels : Len(pipe[ch]) <= PipeSize
    /\ state \in {"NotRunning", "Running"}
    /\ pc \in {"call", "started", "loop", "read", "finish", "done"}
    /\ ret.rc \in Int

\* Every chunk the child has written to ch so far.
Written(ch) == {i \in 1 .. at : prog.steps[i] = ch}

\* s holds the numbers of S, each once and in order.
Lists(s, S) ==
    /\ \A i, j \in DOMAIN s : i < j => s[i] < s[j]
    /\ {s[i] : i \in DOMAIN s} = S

\* No chunk is lost, repeated or reordered between the child and outAll/errAll,
\* whatever the polling, the pipe size and the moment of the exit.
NothingLost == \A ch \in Channels : Lists(all[ch] \o buffer[ch] \o pipe[ch], Written(ch))

\* A return that is not one of runInProcess's own errors carries the exit code
\* of the child and all of its output, although the exit is noticed late; and 0
\* is only returned for a command that ran to its end and exited with 0.
ReturnIsHonest ==
    pc = "done" =>
        /\ ret.err # Message =>
              /\ child = "exited" /\ ret.rc = code
              /\ Lists(ret.out, Written("out")) /\ Lists(ret.err, Written("err"))
        /\ ret.rc = 0 => child = "exited" /\ code = 0 /\ at = Len(prog.steps)

\* After the return the child does not run any more, and a child that did not
\* end by itself is only killed after the time limit has passed.
NoChildLeft ==
    /\ pc = "done" => child # "running"
    /\ child = "killed" => expired

\* With a positive (or zero) limit the runner returns for every child.  Without
\* one it returns for every child that ends, however much that writes to either
\* pipe and whether or not it reads its standard input: no clock is needed to get
\* past a full pipe ("Draining both channels in a polling loop avoids this").
AlwaysReturns == (limit # "negative" \/ ~prog.hangs) ~> pc = "done"
=============================================================================

--------------------------- MODULE ServerProcess ---------------------------
(***************************************************************************)
(* The life of the server process: main (RemSvcServer.cc), the self-pipe   *)
(* of SignalHandler, and GrpcServerThread, with handlers of unary and      *)
(* streaming calls at work while a signal arrives and stop() runs.         *)
(*                                                                         *)
(* Time is discrete.  A command runs for at most T + KillWait ticks, which *)
(* is what runInProcess guarantees (module CmdRunner), and as long as it   *)
(* likes when T is negative: the INI file's limit must be positive, but    *)
(* --cmd-timeout-ms replaces it unchecked.  The grace of stop() is 2 * T.  *)
(* What a handler decides about a command is in ProcessStream: here every  *)
(* command that is read is run.                                            *)
(***************************************************************************)
EXTENDS Integers, FiniteSets

CONSTANTS
    Calls,        \* identities of calls
    T,            \* cmdTimeoutMs, in ticks; a negative value is no limit
    KillWait,     \* ticks the kill at the time limit may add
    Window,       \* requests of a stream received but not yet read
    MaxSignals    \* bound on the signals sent to the process

ASSUME ServerProcessAssumption ==
    /\ T \in Int /\ KillWait \in Nat /\ Window \in Nat \ {0} /\ MaxSignals \in Nat

VARIABLES
    main,      \* where main() is
    signals,   \* signals sent so far
    bytes,     \* bytes in the self-pipe
    server,    \* m_server: "none", "serving", "draining", "down"
    grace,     \* ticks left to the deadline of Shutdown
    since,     \* ticks since stop() was called, exact up to Longest
    call,      \* call[c]: "none", "open", "half" (no more requests), "cut" or "over"
    queue,     \* queue[c]: requests received but not yet read
    h,         \* h[c]: the handler: "none", "read", "run", "reply", "done"
    age,       \* age[c]: ticks its current command has run
    early      \* calls whose command was running when stop() was called

callVars == <<call, queue, h, age>>
mainVars == <<main, signals, bytes, server, grace, since>>
vars == <<mainVars, callVars, early>>

\* The time a command is given, and the grace: a deadline in the past is none.
Limit == IF T < 0 THEN 0 ELSE T
Grace == 2 * Limit

\* The longest a shutdown can take with a time limit: the grace, and then, for a
\* stream that was cut, the current command and those already received.
Longest == Grace + (1 + Window) * (Limit + KillWait)

Init ==
    /\ main = "setup" /\ signals = 0 /\ bytes = 0
    /\ server = "none" /\ grace = 0 /\ since = 0 /\ early = {}
    /\ call = [c \in Calls |-> "none"] /\ queue = [c \in Calls |-> 0]
    /\ h = [c \in Calls |-> "none"] /\ age = [c \in Calls |-> 0]

Busy == {c \in Calls : h[c] \in {"read", "run", "reply"}}
Ended == {"exited", "killed", "failed"}

-----------------------------------------------------------------------------
(* main() and the signal handler.                                          *)

\* Bad options, a bad configuration file, TLS without key, tokens without TLS.
RejectConfig ==
    /\ main = "setup" /\ main' = "failed"
    /\ UNCHANGED <<signals, bytes, server, grace, since, callVars, early>>

\* setupSignalHandlers, the SignalHandler object and its connection to quit().
SetupSignalHandlers ==
    /\ main = "setup" /\ main' = "ready"
    /\ UNCHANGED <<signals, bytes, server, grace, since, callVars, early>>

\* The constructor of GrpcServerThread: BuildAndStart serves at once, before
\* the thread runs.
BuildAndStart ==
    /\ main = "ready" /\ main' = "built" /\ server' = "serving"
    /\ UNCHANGED <<signals, bytes, grace, since, callVars, early>>

\* A key file cannot be read, or the port is taken and Expects throws: the
\* exception leaves main and ends the process.
BuildFails ==
    /\ main = "ready" /\ main' = "failed"
    /\ UNCHANGED <<signals, bytes, server, grace, since, callVars, early>>

\* grpcThread.start() and qt_app.exec().
Exec ==
    /\ main = "built" /\ main' = "exec"
    /\ UNCHANGED <<signals, bytes, server, grace, since, callVars, early>>

\* Mutant of Signal: the handler calls quit(), which is lost outside exec().
QuitInHandler ==
    /\ signals < MaxSignals /\ main \notin Ended
    /\ signals' = signals + 1
    /\ main' = IF main = "setup" THEN "killed" ELSE IF main = "exec" THEN "stop" ELSE main
    /\ UNCHANGED <<bytes, server, grace, since, callVars, early>>

\* SIGINT or SIGTERM, on any thread: fatal until the handler is installed, then
\* one byte in the self-pipe.
Signal ==
    /\ signals < MaxSignals /\ main \notin Ended
    /\ signals' = signals + 1
    /\ main'  = IF main = "setup" THEN "killed" ELSE main
    /\ bytes' = IF main = "setup" THEN bytes ELSE bytes + 1
    /\ UNCHANGED <<server, grace, since, callVars, early>>

\* Mutant of HandleSignal: it reads without a byte in the pipe.
HandleUnprompted ==
    /\ main = "exec"
    /\ bytes' = bytes - 1 /\ main' = "stop"
    /\ UNCHANGED <<signals, server, grace, since, callVars, early>>

\* The notifier fires in the event loop: one byte is read, quit() ends exec().
HandleSignal ==
    /\ main = "exec" /\ bytes > 0
    /\ bytes' = bytes - 1 /\ main' = "stop"
    /\ UNCHANGED <<signals, server, grace, since, callVars, early>>

\* Mutant of Stop: the grace is the time limit of one command.
StopWithShortGrace ==
    /\ main = "stop" /\ main' = "shutdown"
    /\ server' = "draining" /\ grace' = Limit /\ since' = 0
    /\ early' = {c \in Calls : h[c] = "run"}
    /\ UNCHANGED <<signals, bytes, callVars>>

\* stop(): Shutdown(now + 2 * cmdTimeoutMs) takes no more calls and blocks.
Stop ==
    /\ main = "stop" /\ main' = "shutdown"
    /\ server' = "draining" /\ grace' = Grace /\ since' = 0
    /\ early' = {c \in Calls : h[c] = "run"}
    /\ UNCHANGED <<signals, bytes, callVars>>

\* Shutdown returns when every handler has (gRPC's promise, not this code's);
\* Wait() in run() and wait() in stop() return, and main ends.
Joined ==
    /\ main = "shutdown" /\ Busy = {}
    /\ server' = "down" /\ main' = "exited"
    /\ UNCHANGED <<signals, bytes, grace, since, callVars, early>>

Main == SetupSignalHandlers \/ BuildAndStart \/ Exec \/ HandleSignal \/ Stop \/ Joined

-----------------------------------------------------------------------------
(* Calls and their handlers.                                               *)

\* A new call with its first request; a unary call is half-closed with it.
Arrive(c, kind) ==
    /\ server = "serving" /\ main \notin Ended /\ call[c] = "none"
    /\ call'  = [call EXCEPT ![c] = kind]
    /\ queue' = [queue EXCEPT ![c] = 1]
    /\ h'     = [h EXCEPT ![c] = "read"]
    /\ UNCHANGED <<age, mainVars, early>>

\* The client of a stream sends another request.
Send(c) ==
    /\ call[c] = "open" /\ queue[c] < Window /\ main \notin Ended
    /\ queue' = [queue EXCEPT ![c] = @ + 1]
    /\ UNCHANGED <<call, h, age, mainVars, early>>

\* The client half-closes its stream.
WritesDone(c) ==
    /\ call[c] = "open" /\ main \notin Ended
    /\ call' = [call EXCEPT ![c] = "half"]
    /\ UNCHANGED <<queue, h, age, mainVars, early>>

\* Read returns a request (of a call that was cut, it may still do so) and
\* m_runner is entered.
ReadAndRun(c) ==
    /\ h[c] = "read" /\ queue[c] > 0 /\ main \notin Ended
    /\ queue' = [queue EXCEPT ![c] = @ - 1]
    /\ h'   = [h EXCEPT ![c] = "run"]
    /\ age' = [age EXCEPT ![c] = 0]
    /\ UNCHANGED <<call, mainVars, early>>

\* Read returns false and the handler returns.
ReadEnds(c) ==
    /\ h[c] = "read" /\ main \notin Ended
    /\ call[c] = "cut" \/ (call[c] = "half" /\ queue[c] = 0)
    /\ h'    = [h EXCEPT ![c] = "done"]
    /\ call' = [call EXCEPT ![c] = IF @ = "half" THEN "over" ELSE @]
    /\ UNCHANGED <<queue, age, mainVars, early>>

RunnerReturns(c) ==
    /\ h[c] = "run" /\ main \notin Ended
    /\ h' = [h EXCEPT ![c] = "reply"]
    /\ early' = early \ {c}
    /\ UNCHANGED <<call, queue, age, mainVars>>

\* Write returns: at once, or late if the client is slow.
Reply(c) ==
    /\ h[c] = "reply" /\ main \notin Ended
    /\ h' = [h EXCEPT ![c] = "read"]
    /\ UNCHANGED <<call, queue, age, mainVars, early>>

Handler(c) == ReadAndRun(c) \/ ReadEnds(c) \/ RunnerReturns(c) \/ Reply(c)

\* Mutant of Overdue: Shutdown() is called without a deadline.
NeverOverdue == FALSE

\* The deadline of Shutdown has passed with calls still open.
Overdue == main = "shutdown" /\ grace = 0 /\ \E c \in Busy : call[c] # "cut"

\* gRPC then cancels them.
CutCalls ==
    /\ Overdue
    /\ call' = [c \in Calls |-> IF c \in Busy THEN "cut" ELSE call[c]]
    /\ UNCHANGED <<queue, h, age, mainVars, early>>

-----------------------------------------------------------------------------
\* A thread that can go on does so before time passes.  Only a command, a slow
\* client and an idle stream take time.
Ready(c) ==
    \/ h[c] = "read" /\ (queue[c] > 0 \/ call[c] # "open")
    \/ h[c] = "run" /\ T >= 0 /\ age[c] = T + KillWait
    \/ h[c] = "reply" /\ call[c] = "cut"

\* Time goes on for ever if nothing ends the shutdown; past Longest the clock is
\* kept finite by going back and forth between Longest + 1 and Longest + 2.
Later == IF since <= Longest THEN since + 1 ELSE (2 * Longest + 3) - since

Tick ==
    /\ main \notin Ended
    /\ \A c \in Calls : ~Ready(c)
    /\ ~Overdue
    /\ main = "shutdown" => Busy # {}
    /\ age'   = [c \in Calls |-> IF h[c] = "run" /\ T >= 0 THEN age[c] + 1 ELSE age[c]]
    /\ grace' = IF main = "shutdown" /\ grace > 0 THEN grace - 1 ELSE grace
    /\ since' = IF main = "shutdown" THEN Later ELSE since
    /\ UNCHANGED <<main, signals, bytes, server, call, queue, h, early>>

Over == main \in Ended /\ UNCHANGED vars

Next ==
    \/ Main \/ RejectConfig \/ BuildFails \/ Signal \/ CutCalls \/ Tick \/ Over
    \/ \E c \in Calls :
         \/ \E kind \in {"half", "open"} : Arrive(c, kind)
         \/ Send(c) \/ WritesDone(c) \/ Handler(c)

Spec == Init /\ [][Next]_vars

\* The scheduler runs main and the handler threads, and a command ends, by its
\* time limit at the latest if it has one.  Clients, signals and slow readers
\* are not fair.
Fairness ==
    /\ WF_vars(Main) /\ WF_vars(CutCalls)
    /\ \A c \in Calls :
         /\ WF_vars(ReadAndRun(c) \/ ReadEnds(c) \/ (T >= 0 /\ RunnerReturns(c)))
         /\ WF_vars(call[c] = "cut" /\ Reply(c))

\* A shutdown that does not end takes for ever: it is no endless exchange of
\* requests and replies in no time.  Whether it ends is left open.
TimeDiverges == <>[](main # "shutdown") \/ []<><<Tick>>_vars

FairSpec == Spec /\ Fairness /\ TimeDiverges

-----------------------------------------------------------------------------
\* Type invariant of the server process.
TypeOK ==
    /\ main \in {"setup", "ready", "built", "exec", "stop", "shutdown"} \cup Ended
    /\ signals \in 0 .. MaxSignals /\ bytes \in 0 .. signals
    /\ server \in {"none", "serving", "draining", "down"}
    /\ grace \in 0 .. Grace /\ since \in 0 .. Longest + 2 /\ early \subseteq Calls
    /\ call \in [Calls -> {"none", "open", "half", "cut", "over"}]
    /\ queue \in [Calls -> 0 .. Window]
    /\ h \in [Calls -> {"none", "read", "run", "reply", "done"}]
    /\ age \in [Calls -> 0 .. Limit + KillWait]

\* The comment in stop(): "a command already running at shutdown time has a fair
\* chance to complete".  Its call is not cut before the runner has returned,
\* however late the command had started, if killing takes less than the time
\* limit itself (if it takes as long, the command ends with the grace, and gRPC
\* may be quicker than the runner).
RunningIsSpared == KillWait < T => \A c \in early : call[c] # "cut"

\* With a time limit stop() comes back in bounded time, although streams may be
\* open, clients slow, and handlers never look at the cancellation of their call.
ShutdownIsBounded == T >= 0 => since <= Longest

\* With a time limit, a signal that arrives once the handler is installed ends the
\* process, also when it arrives before the event loop runs or between two steps
\* of main; a second one changes nothing.  Without a limit a command that hangs
\* keeps stop() waiting.
SignalEndsServer ==
    T >= 0 => ((signals > 0 /\ main # "setup") ~> main \in Ended)
=============================================================================

# Verification of RemSvc

RemSvc executes shell commands on a remote host. A C++ gRPC server runs each
command as a child process; its callers are a C++ client, a Python client and an
Apache Airflow provider, whose trigger sends the commands of a task over one
bidirectional stream. This directory holds TLA+ models of the parts that carry
the program's logic, the TLC runs that check them, and TLAPS proofs.

Paths below are relative to the repository (`src/server/...` is the C++ server,
`prv/remsvc_provider/...` the Airflow provider).

## 1. Inventory

| Component | State | Operations | Hard behaviour | What makes it correct |
|---|---|---|---|---|
| Trigger `prv/remsvc_provider/triggers/remsvc.py` | attempt, `sent_ref`, `results`, two coroutines, the event | `run`, `_run_stream`, `_write`, `_read`, `serialize` | retry against duplicate execution; `gather` with one failed coroutine; `wait_for` racing completion; triggerer death | one event, exact and final; no command twice |
| Stream handler `RemSvcServiceImpl::processStream` | position in the stream, counter | Read, check, run, count, Write | broken calls, ignored Write results, rejection half way | runs a permitted prefix, in order |
| Admission: constructor, `checkAllowed`, hash | compiled lists, `m_denyAll` | compile, match, compare | an invalid pattern must not open the server | the documented policy |
| Unary handlers `Ping`, `GetStatus`, `RemCmd` | `m_commandsExecuted` | one per call | concurrent handlers, abandoned calls | counter agrees with what callers know |
| Runner `runInProcess` | child, pipes, QProcess buffers, deadline | start, poll, drain, kill | full pipes, stdin, late notice of the exit, kill racing exit | whole output, honest result, always returns |
| Server process `RemSvcServer.cc`, `SignalHandler.cc`, `GrpcServerThread.cc` | self-pipe, event loop, gRPC server | start-up, signal, `stop` | signals before the event loop, commands in progress at shutdown | signals not lost, grace long enough, bounded when commands are |
| C++ client `RemSvcClient.cc` | one call | `doPing`, `doGetStatus`, `doRemCmd`, `doRemCmdStrm` | writes everything before it reads | result 0 means done |
| Python client `RemSvc_client.py` | one call | `doRemCmd`, `doCmdStream` | no deadline | ends |
| C++ client program `RemSvcMain.cc` | options, pings left, exit code | parse, ping, run | results of pings are dropped, the command may outlive the program | the exit code can be trusted |
| Authentication `AuthInterceptor.cc` | token map | `Process` | duplicate tokens, disabled when the map is empty, attached to TLS only | a configured token protects every call |
| Configuration `ServerConfig.cc`, options in `main` | INI values, options | load, expand, override | precedence, unvalidated options, what QSettings does to commas and backslashes | the lists and tokens in force are those written |
| Operator, hook (`operators/`, `hooks/`) | deferred task, channel pool | `execute`, `execute_complete`, `_get_pooled_channel` | JSON round trip of the event, stale channels, connections edited while triggers run | complete results, no call with another connection's parameters |
| Common library `src/common` | option globals, logger, CRC table | `ConfigureCLI`, `InitLogging`, `TermLogging`, `crc32Hex` | globals set in three places | one precedence; standard CRC-32 |

How they interact: the operator defers to the trigger; the trigger (or a client)
opens a call; gRPC authenticates it and hands it to a handler thread; the handler
admits each command and calls the runner, which returns exit code and output; the
handler replies; the trigger turns the replies into one event, and the operator
resumes with it. `main` waits in the Qt event loop for a signal and then stops
the gRPC server while handlers may be at work.

Hazards, each at its line and with the properties that cover it, are listed in
`PROJECT.json`.

## 2. Modules

| Module | Models |
|---|---|
| `CommandPolicy` | admission: constructor, `checkAllowed`, hash check |
| `GrpcStream` | the stream as gRPC provides it (external) |
| `ProcessStream` | `processStream`, one handler per call; extends both |
| `RemSvcTrigger` | `run`, `_run_stream`, `_write`, `_read` |
| `RemoteRun` | trigger and server composed, with network and triggerer faults |
| `CommandPolicyProofs`, `RemoteRunProofs`, `CmdRunnerProofs`, `ServerProcessProofs`, `CliStreamProofs`, `RemSvcProviderProofs`, `ServerMainProofs` | theorems about the module of that name; `RemoteRunProofs` also holds the refinement |
| `RemSvcServiceProofs` | theorems about `RemSvcService` and `RemSvcMain` |
| `CmdRunner` | `runInProcess` and its child |
| `ServerProcess` | `main`, signals, `GrpcServerThread`, handlers during shutdown |
| `CliStream` | the two command-line clients on the stream, against `ProcessStream` |
| `RemSvcService` | unary handlers and the C++ unary client functions |
| `ServiceCalls` | what handlers and client functions compute from whole messages, and the output limit |
| `RemSvcMain` | the client program, beside other clients, over `RemSvcService` |
| `Hash`, `Logging` | the common library: CRC-32; shared options and the logger |
| `ServerConfig` | `expandEnvVars` and `loadServerConfig` |
| `AuthInterceptor` | `BearerTokenAuthProcessor` |
| `ServerMain` | `main` of the server from the INI file to admitted calls; extends the four above and `CommandPolicy` |
| `RemSvcProvider` | operator, hook and channel pool with several tasks |
| `AbstractRun` | what a task may rely on; `RemoteRunRefinement` maps `RemoteRun` to it |
| `UnitTests` | the repository's unit tests, applied to the translated functions |
| `MC...` | instances for TLC; `MCDocuments` puts `ServerMain` and `RemSvcProvider` side by side |

### State and actions

*Trigger.* `pc`, `attempt` are the loop of `run()`; `wpc[c]` and `rpc[c]` are the
coroutines of call `c`, and `exc[c]` the exception `gather` raises. A write has two
steps, `Transmit` (the message is on the wire) and `WriteCompletes` (the `await`
returns and `sent_ref` is bumped), because the retry rule lives between them. `Retry`
and `GiveUp` are the `except` clauses; `TimeoutStreaming` is `wait_for`, which cancels
a pending `gather` but nothing once `gather` has raised; `Analyse` is the code after
`gather`. A call is named by incarnation and attempt: `TriggererRestart` is the death
of the triggerer and the reconstruction from `serialize()`. `BuildFails` is a
`pb2.RemCmdMsg(...)` that raises because a templated field has the wrong type.

*Stream.* `c2s[c]` and `s2c[c]` only grow; `taken` and `got` are read positions. A
writer waits while `Window` messages are unread. `ConnLost` closes the call silently,
`LossReported` tells the client, `DeadlineFires` ends it. After a loss, messages in
flight may or may not arrive.

*Handler.* `RunRequest` and `RejectRequest` are a Read with the checks behind it;
`RunnerReturns` is the runner with the counter; `WriteResponse` is the Write whose
result is ignored; `ReadEnds` the return of OK.

*Runner.* One iteration of the loop is `WaitForReadyRead` and `ReadAll`. QProcess sees
pipe contents and the end of the child only in a wait, so `state` may be stale, which
the model keeps. `limit` is the shape of `timeoutMs`: positive, zero (expired at once)
or negative (never), since the command-line option is not validated. The command sees
`closeWriteChannel` as the end of its standard input.

*Server process.* `main` walks from set-up to exit; a signal is fatal before the handler
is installed and a byte in the self-pipe afterwards; `HandleSignal` runs only in the
event loop. `Tick` is time: a thread that can proceed does so before time passes, and a
command takes at most `T + KillWait` ticks. `early` remembers which commands were
running when `stop()` was called. The time limit `T` is any integer: the INI file's must be
positive, but `--cmd-timeout-ms` replaces it unchecked. A negative one is no limit, so a command
then runs as long as it likes, and the deadline of `Shutdown` is in the past. That `Shutdown` and
`Wait` return only after the last handler is gRPC's promise, which `Joined` takes over; no
property repeats it.

*Clients.* `CliStream` covers both: `client` chooses one, and in a `calm` behaviour
neither faults nor timers occur. The C++ client is one thread and reads
only after its last write; the Python client has a reader task. `ReadGarbled` is a response that
cannot be parsed, because a command printed text that is not UTF-8 into a protobuf string: `Read`
then returns false before the end of the stream, and `Finish` may have the status already or wait
for it (`FinishGarbled`).

*Unary calls.* `seen[c]` remembers which commands had been answered when call `c` started.
`RemSvcMain` is one more client, whose calls are `MainCalls`: `mpc` walks through `main`,
`cur` is the call it waits for.

*Server start.* `in` holds the inputs (file, environment, options); `LoadConfig`,
`ParseOptions`, `CheckTls`, `ConfigureLogging` and `GrpcServerThread` are the five steps of
`main`, and `Call` is a call that passes the processor and `checkAllowed`. A text is a
sequence over the constant `Chars`, because `expandEnvVars` and QSettings look at single characters:
QSettings undoes escapes, drops unknown ones with the character behind the backslash, and makes a
list of a value with a comma that is neither escaped nor in quotes; a list has no text. What it
does with `;`, line ends and numeric escapes is left out: these cannot stand in the texts of the model.
The parser of options may refuse or ignore a `DBGLVL` outside its range, since the build does not
fix the version of CLI11 (`EnvValue`). Both read a text from left to right; `Scan` is
such a loop, given the text that each position contributes and the position it goes to next
(`Dollar` and `NextPos` for `expandEnvVars`). A regex is again the set of commands it matches, now as a function of its
text (`Regex`). The globals of the common library are one record (`Logging!Globals`).

*Airflow.* `status[t]` follows a task from `execute` over the trigger to
`execute_complete`. `get_async_conn` is the only `await` between a deferred trigger and its
call; `OpenCall` is the rest in one step, since nothing else runs meanwhile. `hook[t]`
holds the two caches of a hook. The outcome of a stream is nondeterministic here, within
what `RemoteRun` allows. `Yield` stores the event as JSON, whose keys are texts. `Edit`
changes connections and the CA file at any time.

*Abstract run.* `AbstractRun` has no calls, attempts or coroutines: commands begin and end
in order, none twice and none from the first forbidden one on; one report is made, and a
report with results has the exit codes of all commands. Its state is, for each command, how
often it began (`times`) and its exit code once it has ended (`codes`), and the report.
`RemoteRunRefinement` maps one incarnation of the trigger (`Watched`) with all its attempts
to that run.

*Unit tests.* `UnitTests` states the cases of `ServerConfigTest.cc`,
`AuthInterceptorTest.cc`, `CommonTest.cc`, `RemSvcServiceImplTest.cc`, `RemSvcClientTest.cc`
and `GrpcRoundTripTest.cc` about the translated functions, with their inputs and
expectations, as assumptions that the run `startup` evaluates. They check the translation:
a function that fails one does not model the code. The cases about
`Expects` and `Ensures`, the uptime, the bytes of the truncation marker and a missing file have no
counterpart there; the one about standard input is the run `runner`. One more assumption compares the table-driven CRC with a
bitwise one and shows that a change of one or two neighbouring bits of a command is noticed.

A definition called "Mutant of X" is a variant of X with a plausible bug. It is not part
of any specification; it shows that the property named with it in `PROJECT.json` fails
when the code has that bug.

## 3. Runs

| Run | Bounds | Shows |
|---|---|---|
| `retry_safety` | 2 commands, 2 attempts, window 1, five configurations (no list, deny, allow, an invalid pattern in either list), any command ill-typed | nothing runs twice; only permitted commands run and none behind a rejected one; the event is exact and final; no response is missing; success leaves nothing running; `RemoteRun` implements `AbstractRun` |
| `restart` | 1 command, 1 attempt, 1 triggerer death at any moment, lost calls that nobody reports | the handler threads of the lost life return, as those of the new one do, in a call whose client never half-closes or reads again |
| `liveness` | 4 commands, window 1, 1 attempt, faults, ill-typed commands | an event always comes and handler threads return, by the deadline at the latest; no circular wait, and no timer needed unless a connection dies silently |
| `duplicate` (violation) | 2 commands, 2 attempts, the failure may overtake the write's completion | the first command can run twice, see findings |
| `orphan_reader` (violation) | ill-typed command | `_read` survives the event, see findings |
| `runner` | every program of up to 4 steps (stdout, stderr, stdin), hanging or not, pipe of 1 chunk, all limits | no output lost; honest result; no child left; always returns, and full pipes never need the time limit |
| `shutdown` | 2 calls (unary or stream), T = 2, kill 1, window 2, 2 signals | spared commands, bounded shutdown, a signal ends the process |
| `cli_stream` | both clients, 3, 4 and 5 commands, window 1, three configurations, with and without faults and unparsable responses | 0 means that everything ran and was answered; the C++ client stalls beyond 2 * window + 1 commands; a call ends unless it stalls, a response is unparsable or the Python client's connection is lost silently |
| `unary` | 2 calls of other clients and 2 of `RemSvcMain`, right, wrong and empty hashes, 3 configurations, ten sets of options | status, admission, results, the exit code of the program |
| `startup` | paths of up to 5 characters and one with a comma, 2 tokens, lists with keys 2 and 10, every way to set the logger, numbers at their limits, 6 headers, 2 commands | a configured token protects every call; references in paths are replaced and nothing else; plain lists are in force as written; the logger follows the documented precedence unless a common option clashes with the file; no server without a valid port |
| `airflow` | 2 tasks, 2 connections of 5 versions with 2 hosts, 2 CA files, unreadable ones, 2 attempts, 1 edit, 1 fault | no call mixes connections; channels are shared; an XCom is complete, and in order below ten commands |
| `documents` (violation) | one INI file with an option beside it, two tasks | one state in which seven promises of the documents are false, see findings |

*Why the bounds are enough.* The retry rule concerns the first write, the write behind
it and the next attempt: two commands and two attempts contain every case (and the
proofs cover all others). Window 1 makes every writer block, and four commands are one more than window, handler
and window hold together, so a reader that waits for the writer would be noticed.
Further attempts repeat the same call code and are bounded by `range`, so `liveness` makes
do with one. A restart needs two lives, and one command lets the first die in each phase of its
handler.
For the runner, four steps over one-chunk pipes let the child block on one pipe while
the runner drains the other and exit between two polls. For the shutdown, two calls
let one handler finish while the other is cut; `T = 2`, `KillWait = 1` distinguishes the
grace `2 * T` from `T` and from `T + KillWait` (`RunningIsSpared` needs `KillWait < T`, see section 5). A negative time limit is left to the theorems,
which hold for every `T`. `MaxAttempts`, `MaxRestarts`,
`MaxSignals`, `MaxSteps`, `MaxSeq`, `MaxPath`, `MaxEdits`, `MaxFaults` and the lists bound
otherwise unbounded inputs. Five characters hold `${A}` with a neighbour, `$A$A` and every
malformed beginning; a value that itself looks like a reference shows that nothing is expanded
twice. The inputs of `startup` hold those of `documents` too (`${}`, commas, empty tokens, clashing
options); its properties say which inputs they are about. Keys 2 and 10 are the smallest that sort differently as texts. The inputs of `startup`
are a union of products, one for each part of the file, because the parts are read independently. One edit
changes a connection or the CA file between any two steps of two triggers, so that channels, hooks
and the pool hold different versions; the initial connections may differ already. A list of nine
commands is the longest that stays in order.
The largest runs are `airflow` (2.6 million states), `unary` (2.4 million) and `restart` (0.6 million, with liveness).

*Fairness.* Weak fairness of coroutines (the event loop runs ready ones), of handler
threads and of the child process; delivery by gRPC on an open call; deadlines where the
code sets one (`timeout=` in `_run_stream`, `set_deadline` in the C++ client) and
nowhere else. In `RemoteRun` the deadline is a hypothesis of the two properties that need
it (`Deadlines => ...`), and a broken call need never be reported, in `CliStream` either: the Python client has neither
deadline nor keepalive, and `AlwaysEnds` excepts the silent loss it waits on for ever. No response
has to be unparsable, so that no fault stands in for progress. The runner ends because of its time limit, which `runner` shows.
In `ServerProcess` a shutdown that does not end takes for ever (`TimeDiverges`): an endless
exchange of requests and replies does not happen in zero time. The clock has no end, so this does
not imply that the shutdown ends: with no time limit it need not, and the mutant that calls
`Shutdown` without a deadline violates `ShutdownIsBounded`. Clients, signals and slow readers are
never assumed to be fair. `cli_stream` does not check for deadlock because the stall
of the C++ client is real (without faults nothing but its deadline ends it); `startup` and
`airflow` do not because a server exits and tasks end.

## 4. Findings

* `duplicate`: the docstring of `_run_stream` says that zero in `sent_ref` "means no
  writes reached the server". `sent_ref` is bumped after the `await` of the write
  returns; a request can be on the wire, and executed, while it is still zero. If the
  failure of the call is raised first, the retry runs the first command again. How far
  this can go is bounded by `OnlyFirstRepeats`: later commands never repeat. Whether the
  library can order the two events that way is the constant `AckBeforeFailure`.
* `orphan_reader`: the comment above `gather` says that an exception in `_write` cancels
  `_read`. `gather` does not cancel its other awaitables; the reader and the call go on
  until the deadline of the call. `HandlersReturn` shows that the deadline cleans up.
* `documents`: seven sentences of the documents and of comments do not hold. The run puts the server
  and the operator side by side, set up as the documents describe, and its property says that at
  least one of the seven holds; TLC finds a state in which none does. Each is a definition of
  its own:
  * `DeniedAsDocumented`: the README prints `1=^rm\b` under `[denylist]` and says that a command
    matching any pattern is rejected. QSettings takes `\b` for a backspace, so the pattern
    matches nothing and `rm` is admitted. The unit test doubles the backslash and says why.
  * `AllowedAsDocumented`: the README says of `[allowlist]` that a command must match at least one
    pattern, and the code's comment that all values are collected. QSettings takes an unquoted value
    with a comma for a list, whose `toString()` is empty; the pattern is skipped, and an allowlist
    with no other pattern admits everything. `ListsAsWritten` is therefore about lists without backslash,
    quote and comma.
  * `AuthAsDocumented`: the provider's README says that the server demands tokens when its file
    contains an `[auth]` section. A token that expands to nothing, or is a list, is dropped; if none
    is left, authentication is off. `AuthIsEnforced` is about the tokens that remain.
  * `EmptyNameIsKept`: a comment says that empty variable names are left unexpanded; `${}` becomes
    `$`. `ExpansionIsByReference` is about paths without `${}`.
  * `OptionsWinForLogger`: README, `server.ini.example` and the code's comment say that options
    take precedence over the file. Its log level and debug level win over `--log-level` and `--debug`,
    and `--log-file` never has an effect. `LoggerFollowsPrecedence` states the documented
    order for all inputs without such a clash (`OptionsClash`).
  * `ResultsInOrder`: the READMEs and the operator's docstring say that results are always in the
    order of the commands. The keys have become texts in the JSON of the event, and `"10"` sorts
    before `"2"`. `OrderedBelowTen` is what remains.
  * `CallIsOfOneConnection`: the READMEs and the hook's docstring say that without `ca_cert_path` the
    system's trust store is used. The pool key of an empty CA file is that of none, so the channel
    of one may serve the other. The run `airflow` and the theorem have no empty CA file.

Smaller divergences, without a run of their own:

* The comment in `stop()` promises active calls a grace window. It is twice the time limit of a
  command, and `--cmd-timeout-ms` is not checked: with a negative value the deadline is in the past, calls
  are cut at once, and a command that hangs keeps `stop()` waiting for ever. This is why
  `ShutdownIsBounded` and `SignalEndsServer` say `T >= 0`; the model covers such values (`Limit`).
* The header says that `doRemCmdStrm` logs each result and returns 0 on success. A response that
  cannot be parsed ends its `Read` loop like the end of the stream, and the status of the call is OK:
  it returns 0 without the result. `ZeroMeansAllAnswered` states what 0 does mean then.
* `server.ini.example:11` and `:90` say that the path under `[log] file` is expanded; it is not.
* `"use_ssl": "false"` as a text switches TLS on.

## 5. Proofs

`RemoteRunProofs` proves, for all commands, configurations, windows, attempts and restarts:

* `Typing`: `Spec => []TypeOK`. `TypeOK` is inductive together with `HandlerReady` (a
  handler that holds a response has read its request and has an exit code).
* `NoDuplicateExecution`: `Spec => [](AckBeforeFailure => AtMostOnce)`.
* `DuplicationIsBounded`: `Spec => []OnlyFirstRepeats`, without the condition. No run repeats
  this one, since the proof covers every instance.
* `PolicyHolds`: `Spec => []RunsArePermittedPrefix`.

They rest on the inductive invariant `IndInv`. Its argument: the wire holds the commands
in order (`WireInOrder`) and runs ahead of `sent_ref` by at most the write that is being
awaited (`SentTracksWire`); the handler runs what it reads in order (`RunsFollowWire`); a
retryable exception comes from the transport, never from a handler (`CodesAreHonest`);
hence an attempt that was followed by another had counted nothing, so it had put at most
one request on the wire, and none if the library reports in order
(`RetriedSentNothing`). Two executions of one command within an incarnation then belong
to two calls, the earlier of which sent at most command 1. None of the parts is inductive
alone: `RetriedSentNothing` needs `SentTracksWire` at the moment of the retry and
`IdleIsEmpty` for the attempts that have not begun. `IndInv` was checked with TLC on the
instances of `retry_safety` and `duplicate`, and with a triggerer death, before it was proved.

`CommandPolicyProofs` proves `AdmissionIsThePolicy`: over all pairs of lists the handlers
admit exactly what `Permitted` and the hash rule allow, although an invalid pattern
empties its list. `PolicyHolds` and the next theorem cite its first half.

`RemSvcServiceProofs` proves, for any set of concurrent unary calls,
`OnlyAdmittedCommandsRun` (`Spec => []OnlyAdmittedRuns`) and `OutcomesAreHonest`
(`Spec => []OutcomeIsHonest`). The invariant `Inv` adds to them that a handler works only
on a call that was made and has replied when it is done (`HandlerOf`), that what is or was
in the runner had the verdict OK (`AdmittedBefore`), and that an outcome other than a
deadline is the handler's reply (`OutcomeFollows`). One lemma per kind of step (a client
function begins or ends, a handler replies, a command is admitted) covers all actions.

It also proves `StatusesAreCurrent` (`Spec => []StatusIsCurrent`) and, for `RemSvcMain`
beside other clients, `ExitCodesAreHonest` (`MainSpec => []ExitCodeIsHonest`) and
`ServiceBesideTheProgram`, which carries admission, results and status over to `MainSpec`.
`CounterInv` says that `m_commandsExecuted` is the number of calls past the increment, that
what a caller had seen is among them, and what a status reply may hold; the bound on the
reply then is the cardinality of a subset. `MainInv` follows the program: the pings made and
the pings left add up to those asked for, a program that left early made no calls, and it
waits for at most one call at a time.

`RemoteRunProofs` also proves:

* `ReportsAreExact`, `NoResponseIsMissing`: `ReportIsExact` and `NoneMissing` always hold.
* `EventsAreFinal`: `EventIsFinal`, an action property.
* `SuccessLeavesNothingRunning`: `Spec => [](AckBeforeFailure => SuccessIsQuiet)`. The
  condition is needed: without it an earlier attempt may still be running its first command
  when a later one succeeds.
* `Refinement`: under `AckBeforeFailure`, `Spec => ImplementsAbstractRun`, for every
  incarnation. A command that runs twice, as in `duplicate`, is in no abstract run.

The invariant `RepInv` follows the responses: the half-close comes behind the whole list
(`HalfMeansAll`), there is an exit code for every command but the one running
(`ExitsTrackRuns`), the k-th response answers the k-th request (`AnswersFollowRuns`), `_read`
files them under their numbers (`FiledFollowsAnswers`), a client that sees OK has been
answered in full although `processStream` returns OK for a broken call too
(`OKMeansAnswered`), and an event is about the current call (`EventFollowsResults`). A lemma for each
of handler, status, half-close and reader lists what a step can do to a call, so that the
parts need not look at the actions. For the refinement every step is shown to begin a
command, to end one, to report, or to change nothing the abstract run sees.

`CmdRunnerProofs` proves all safety properties of the runner for every program and pipe size:
`Typing`, `OutputIsPreserved` (`NothingLost`), `ReturnsAreHonest` (`ReturnIsHonest`) and
`NoChildSurvives` (`NoChildLeft`). `Phases` says what `runInProcess` knows at each point
about the child, whose end it notices late, and `ZeroIsTheEnd` that exit code 0 means that
the program was done.

`ServerProcessProofs` proves `Typing`, `RunningCommandsAreSpared` (`RunningIsSpared`) and
`ShutdownsAreBounded` (`ShutdownIsBounded`) for every time limit, negative ones included, every
window and number of calls; what each claims of a negative one is in the property. The argument is an account of time: the
grace falls as the time since `stop()` grows (`GraceIsSpent`); a command that was running then
is at least as old as that time (`EarlyRuns`) and so ends within the grace; and a call that was
cut has, since the grace, used up at most the commands missing from its queue and the current
one (`CutIsPaid`), `Window + 1` in all.

`CliStreamProofs` proves `ZeroIsEarned` (`ZeroMeansAllAnswered`) and `WriterStalls`
(`StallsBeyondCapacity`) for every window and list. The first counts requests, commands, exit
codes and responses of the call (`Counts`) and keeps their order (`InOrder`). The second is a
safety property of behaviours without faults: as long as the client has not read, the answers
fill the window and one is in hand, so at most `2 * Window + 1` commands leave the client
(`StallInv`). The bound is sharp: with `2 * Window` the proof fails.

`RemSvcProviderProofs` proves `ChannelsAreShared`, `CallsAreOfOneConnection`, `XComsAreExact` and `ResultsSortAsTexts`
(`OrderedBelowTen`), for any tasks, connections and edits. `PoolIsLatest` says that the pool
holds the newest channel of every key ever used; `CallOf` ties a call to the connection of its
own hook; that channels with one key trust the same certificates needs the assumption that no CA
file is empty, which `CallsAreOfOneConnection` names. For the order of results, comparing two numbers up to 99 as texts is shown to be
comparing a number computed from their digits, and the place of a key among the sorted ones to
be its rank.

`ServerMainProofs` proves, for every file, environment, command line and header, `Typing`,
`TokensAreDemanded` (`AuthIsEnforced`), `PathsAreExpandedOnce` (`ExpansionIsByReference`),
`PrecedenceOfLogging` (`LoggerFollowsPrecedence`) and `WrittenListsDecide` (`ListsAsWritten`).

The first half is about texts of any length. Induction over positions is obtained from the
well-foundedness of `<`, with the set of the numbers that satisfy a statement in place of the
statement (`Least`, `Induction`). It shows that a scan is the one function that solves its
equation (`ScanExists`, `ScanUnique`), and that the left-to-right loop of `expandEnvVars`
computes `Expanded`, which is stated on all references at once, with the braces of `${}` lost
(`ExpandReplacesReferences`), and which is `Referenced`, what the comment promises, on a text
without `${}` (`ReferencedIsExpanded`):
what has been emitted when the loop stands at a position is the image of the characters before
it (`ExpandStep`), and the loop never stops inside a reference. `LoadListDef` shows
that sorting the keys as texts loses no value: the place of a key is its rank in a total order,
and the ranks are the numbers from 1 to the number of keys; that QSettings hands on a text without
its special characters as it stands is `PlainIsItself`.

The second half is the inductive invariant `Inv`, checked with TLC on the instance of `startup`
before it was proved. `ConfigInv` says that past `LoadConfig` the settings are those of the file, past `ParseOptions` the locals are the
settings with the options over them, and past `CheckTls` tokens imply TLS; `LoggerInv` that
the globals are what `ConfigureCLI` left until the one `InitLogging`, which makes the logger that
the code chooses, and that is the documented one unless options clash (`ChosenIsDocumented`); `ServerInv` that the server was built from those locals.
`AuthIsEnforced` is needed in the invariant because `call` remembers an answer after its
server has stopped. Its argument: the configured tokens are exactly the entries of
`m_tokens` (`ConfiguredTokensDef`, which rests on the first half); if there is one, TLS is
on, so the processor is attached, and a header passes if and only if the text behind
the prefix is in the map (`ProcessDef`); two identities may own one token, and the reply names one of them.

*What the proofs corrected.* Four properties were wrong, or right on the instances of their runs only.
`RunningIsSpared` is false when a kill takes as long as the time limit: the command then needs
exactly the grace, and may be cut at its last tick; it is now stated for `KillWait < T`. The
code waits one second for a kill (`waitForFinished(1000)`), so time limits above one second meet it.
`ExitCodeIsHonest` overlooked `--version` together with `--log-file`, and a negative number
of pings; it was corrected and the two inputs added to the run `unary`. `ExpansionIsByReference` was false
for a path with a comma, which QSettings reads as a list, so that the path is lost; the property is
now about the text that QSettings returns, and such a path was added to the run `startup`.
`LoggerFollowsPrecedence` and `ListsAsWritten` were restated (`LoggerAsDocumented`, `Written`) so that one formula says what is
chosen for all sources, absent ones included.

*Assumptions*, all named and checked by TLC on every instance: the window is positive, `Crc` is a
function into `Hashes` (not necessarily injective), call identities are pairs of
incarnation and attempt, transport codes differ from `none` and `OK`, and the absent
result is not a result; unary calls are finite in number (otherwise a counter could not count
them); the options of the client program have the types the parser gives them; a task of the
provider has at most 99 commands, since `Text` writes numbers of two digits; the characters with
a meaning of their own are characters, and none of `$`, `{`, `}` may stand in a variable's name
(`NameAssumption`); an escape stands for a character (`EscapedAssumption`); the inputs of the server have the types
the parsers give them, list keys are numbers from 1 to 99, `DBGLVL` is set at most once,
and the program has a name (`InputsAssumption`). Whether the library
reports a broken call behind the writes it has taken is no assumption: the theorems that need it
say so.

*Only model-checked:*

* liveness (`AlwaysReports`, `HandlersReturn`, `CompletesUnaided`, `AlwaysReturns`,
  `SignalEndsServer`, `AlwaysEnds`): fairness is outside the prover's reach;
* the unit tests and the CRC-32 they include (`UnitTests`, `Hash`): these are computations on
  given inputs, which TLC evaluates; the theorems about admission hold for any `Crc`;
* the runs that expect a violation;
* the handlers of a life that a triggerer death has ended (`restart`), since that is liveness.

Every invariant and every action property of the passing runs is stated by a theorem.

## 6. Not modelled

* Windows branches: `cmd.exe` and `powershell.exe` in the runner, console events in
  `SignalHandler`. They start other programs and deliver the same quit request.
* Descendants of a child process and memory use of the runner: outside what the runner's
  code observes.
* The assertion macros of `Assert.cc`, log rotation and formatting, and the wording of
  messages: no property depends on them. Where an assertion guards a step (`Expects` after
  `BuildAndStart`), its failure is modelled as the end of the process.
* `RemSvcHook.get_channel`, which no code of the provider calls, result handlers that a DAG
  author supplies, and Airflow's own retries of a task.
* Option parsing of the Python client; its unary functions do what their C++ counterparts do.
* The load test (`ThroughputTest.cc`), installation and build scripts, generated stubs,
  samples and diagrams.

## 7. Plan

1. *(done)* `CommandPolicy`, `GrpcStream`, `ProcessStream`, `RemSvcTrigger`, `RemoteRun`,
   with proofs of types, at-most-once execution and policy.
2. *(done)* `CmdRunner`, `ServerProcess`, `CliStream`, and `RemSvcService` with its proofs.
3. *(done)* `ServerConfig`, `AuthInterceptor`, `Logging`, `ServerMain`; `Hash` and
   `ServiceCalls` with the repository's unit tests; `RemSvcMain`; `RemSvcProvider`;
   `AbstractRun` and the refinement.
4. *(done)* Proofs of the event and of the refinement, and of the safety properties of
   `CmdRunner`, `ServerProcess`, `CliStream`, `RemSvcService`, `RemSvcMain`,
   `RemSvcProvider` and `ServerMain`.
5. What is left is out of the prover's reach: liveness under fairness.

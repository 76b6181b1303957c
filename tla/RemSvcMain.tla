----------------------------- MODULE RemSvcMain -----------------------------
(***************************************************************************)
(* The command-line client RemSvcMain beside other clients of the same     *)
(* service: options, logger, credentials, then the pings one after the     *)
(* other, then the command, whose result is the exit code.                 *)
(***************************************************************************)
EXTENDS RemSvcService, Logging

CONSTANTS
    MainCalls,    \* the calls this program makes; the other calls are other clients'
    MainInputs,   \* [args, DBGLVL, appName] to start it with
    Files,        \* the CA files that can be read
    Writable      \* the log files that can be written

ASSUME MainAssumption ==
    /\ MainCalls \subseteq Calls
    /\ \A i \in MainInputs : /\ "ping" \in DOMAIN i.args => i.args["ping"] \in Int
                             /\ "cmd" \in DOMAIN i.args => i.args["cmd"] \in Cmds

VARIABLES
    in,           \* its inputs
    mpc,          \* the step main is about to make
    mrc,          \* rc of main; Aborted after an uncaught exception
    ping,         \* pings left
    cur,          \* the call it waits for; meaningless outside "pinging" and "running"
    globals       \* the globals of the common library

mainVars == <<in, mpc, mrc, ping, cur, globals>>

Aborted == 134

Option(k, default) == IF k \in DOMAIN in.args THEN in.args[k] ELSE default

MainInit ==
    /\ Init
    /\ in \in MainInputs
    /\ mpc = "options" /\ mrc = 0
    /\ ping = 0
    /\ cur \in MainCalls
    /\ globals = Globals

MainExit(code) == mpc' = "exited" /\ mrc' = code

ParseOptions ==
    /\ mpc = "options"
    /\ \E dbglvl \in EnvValue(in.DBGLVL) :
          LET cli == ConfigureCLI(globals, in.args, dbglvl)
          IN  /\ globals' = cli.g
              /\ IF cli.rc = 0 THEN mpc' = "logging" /\ UNCHANGED mrc ELSE MainExit(cli.rc)
    /\ ping' = Option("ping", 0)
    /\ UNCHANGED <<vars, in, cur>>

\* --log-file is overwritten by the default name; the level options are kept.
StartLogging ==
    LET init == InitLogging([globals EXCEPT !.CliLogFile = DefaultCLiLogFileName(in.appName)], Level.info, Writable)
    IN  /\ mpc = "logging"
        /\ globals' = init.g
        /\ IF init.ok THEN mpc' = "connect" /\ UNCHANGED mrc ELSE MainExit(Aborted)
        /\ UNCHANGED <<vars, in, ping, cur>>

\* An unreadable CA file ends the program without TermLogging.
Connect ==
    /\ mpc = "connect"
    /\ IF Option("tls", FALSE) /\ Option("ca", <<>>) \notin Files \cup {<<>>}
       THEN MainExit(1)
       ELSE mpc' = "ping" /\ UNCHANGED mrc
    /\ UNCHANGED <<vars, in, ping, cur, globals>>

\* while (ping > 0) client.doPing(ping--)
SendPing(c) ==
    /\ mpc = "ping" /\ ping > 0
    /\ doPing(c, ping)
    /\ ping' = ping - 1
    /\ cur' = c /\ mpc' = "pinging"
    /\ UNCHANGED <<in, mrc, globals>>

\* The result of a ping is only logged.
PingReturns ==
    /\ mpc = "pinging" /\ outcome[cur].code # "none"
    /\ mpc' = "ping"
    /\ UNCHANGED <<vars, in, mrc, ping, cur, globals>>

SendCommand(c) ==
    /\ mpc = "ping" /\ ping <= 0 /\ "cmd" \in DOMAIN in.args
    /\ doRemCmd(c, [tid |-> Tid, cmd |-> in.args["cmd"], hsh |-> Crc[in.args["cmd"]]])
    /\ cur' = c /\ mpc' = "running"
    /\ UNCHANGED <<in, mrc, ping, globals>>

\* Mutant of CommandReturns: the result is dropped, as that of a ping is.
CommandReturnsUnused ==
    /\ mpc = "running" /\ outcome[cur].code # "none"
    /\ mpc' = "stop"
    /\ UNCHANGED <<vars, in, mrc, ping, cur, globals>>

CommandReturns ==
    /\ mpc = "running" /\ outcome[cur].code # "none"
    /\ mrc' = outcome[cur].val
    /\ mpc' = "stop"
    /\ UNCHANGED <<vars, in, ping, cur, globals>>

\* No command was given.
NothingToRun ==
    /\ mpc = "ping" /\ ping <= 0 /\ "cmd" \notin DOMAIN in.args
    /\ mpc' = "stop"
    /\ UNCHANGED <<vars, in, mrc, ping, cur, globals>>

StopMain ==
    /\ mpc = "stop"
    /\ globals' = TermLogging(globals)
    /\ MainExit(mrc)
    /\ UNCHANGED <<vars, in, ping, cur>>

MainStep ==
    \/ ParseOptions \/ StartLogging \/ Connect
    \/ \E c \in MainCalls : SendPing(c) \/ SendCommand(c)
    \/ PingReturns \/ CommandReturns \/ NothingToRun \/ StopMain

\* The other clients start their calls when they like.
OtherClients ==
    /\ \E c \in Calls \ MainCalls :
         \/ \E req \in Requests : doRemCmd(c, req)
         \/ \E seq \in 1 .. MaxSeq : doPing(c, seq)
         \/ doGetStatus(c)
    /\ UNCHANGED mainVars

\* Everybody's calls go through the same library and the same handlers.
CallStep ==
    /\ \E c \in Calls : Receive(c) \/ GiveUp(c) \/ Handle(c)
    /\ UNCHANGED mainVars

MainOver ==
    /\ mpc = "exited"
    /\ \A c \in Calls : method[c] = "none" \/ (pc[c] = "done" /\ outcome[c].code # "none")
    /\ UNCHANGED <<vars, mainVars>>

MainNext == MainStep \/ OtherClients \/ CallStep \/ MainOver

MainSpec == MainInit /\ [][MainNext]_<<vars, mainVars>>

-----------------------------------------------------------------------------
\* The calls this program has made.
Pings    == {c \in MainCalls : method[c] = "Ping"}
Commands == {c \in MainCalls : method[c] = "RemCmd"}

\* The program got through to its end: past the options, InitLogging has set the name of
\* the log file, and TermLogging alone removes the logger again.
Completed ==
    /\ mpc = "exited" /\ mrc # Aborted
    /\ globals.LogFileName # <<>> /\ globals.registry = NoLogger

\* The program's exit code can be trusted: it is 0 only if all the pings asked for were
\* made and the command, if one was asked for, ran to the end with 0 on the server; a
\* failed ping alone never changes it; and once the program has exited, no call of its
\* own is waiting for an answer, although its command may still be running.
ExitCodeIsHonest ==
    mpc = "exited" =>
        LET asked == Option("ping", 0)
        IN  /\ \A c \in Pings \cup Commands : outcome[c].code # "none"
            /\ mrc = 0 => /\ Cardinality(Pings) = IF asked > 0 THEN asked ELSE 0
                          /\ \A c \in Commands : reply[c] = [code |-> "OK", val |-> 0]
                          /\ "cmd" \in DOMAIN in.args => Commands # {}
            /\ Completed /\ "cmd" \notin DOMAIN in.args => mrc = 0
=============================================================================

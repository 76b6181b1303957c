----------------------------- MODULE ServerMain -----------------------------
(***************************************************************************)
(* main() of the server up to and including the calls it admits: the INI   *)
(* file, the options, the two checks on TLS, the logger, the construction  *)
(* of the gRPC server, and what happens to a call before its handler runs. *)
(* ServerProcess models the threads and the shutdown.                      *)
(*                                                                         *)
(* The inputs of a process (file, environment, options) are chosen by Init *)
(* and stay; `call` is the last call that arrived.                         *)
(***************************************************************************)
EXTENDS ServerConfig, AuthInterceptor, Logging, CommandPolicy

CONSTANTS
    Inputs,       \* the inputs to start the server with
    Headers,      \* the authorization headers of calls, NoHeader included
    Files,        \* the files that can be read
    Writable,     \* the log files that can be written
    Regex(_)      \* from a text to its Pattern

\* A section of the file whose keys are open.
IsSection(f) == DOMAIN f \subseteq 1 .. 99 /\ \A k \in DOMAIN f : f[k] \in Text

\* The types of the inputs.  A debug level comes from at most one DBGLVL.
IsInput(i) ==
    LET keys == i.ini.keys
        ofType(f, names, T) == \A k \in names \cap DOMAIN f : f[k] \in T
    IN  /\ ofType(keys, {"port", "cmd_timeout_ms", "debug_level"}, [num : BOOLEAN, val : Int])
        /\ ofType(keys, {"cert", "key", "ca", "file"}, Text)
        /\ \A k \in {"allowlist", "denylist", "auth"} \cap DOMAIN keys : IsSection(keys[k])
        /\ ofType(i.args, {"port", "debug"}, Int)
        /\ ofType(i.args, {"tls"}, BOOLEAN)
        /\ ofType(i.args, {"allow", "deny"}, Seq(Text))
        /\ \A v \in DOMAIN i.env : i.env[v] \in Text
        /\ i.DBGLVL \subseteq Int /\ \A a, b \in i.DBGLVL : a = b
        /\ i.appName \in Text \ {<<>>}

ASSUME InputsAssumption ==
    /\ \A i \in Inputs : IsInput(i)
    /\ Headers \subseteq Text /\ kBearerPrefix \in Text

VARIABLES
    in,       \* [ini, env, args, DBGLVL, appName]; ini = [given, exists, keys]
    pc,       \* the step main is about to make
    rc,       \* exit code of main: Running, Aborted after an uncaught exception, 0 or 1
    cfg,      \* ServerConfig
    opt,      \* the locals that options may overwrite
    globals,  \* the globals of the common library
    server,   \* what GrpcServerThread was built with
    call      \* the last call

vars == <<in, pc, rc, cfg, opt, globals, server, call>>

Running  == -1
Aborted  == 134
NoServer == [up |-> FALSE]
NoCall   == [made |-> FALSE]

Init ==
    /\ in \in Inputs
    /\ pc = "load" /\ rc = Running
    /\ cfg = Defaults /\ opt = Defaults
    /\ globals = Globals
    /\ server = NoServer /\ call = NoCall

Exit(code) == pc' = "exited" /\ rc' = code

-----------------------------------------------------------------------------
(* Steps 1 and 2: --config is looked for first, and its file loaded.       *)

LoadConfig ==
    LET loaded == loadServerConfig(in.ini.keys, in.env)
    IN  /\ pc = "load"
        /\ \/ /\ ~in.ini.given
              /\ pc' = "parse" /\ UNCHANGED <<rc, cfg>>
           \/ /\ in.ini.given
              /\ ~in.ini.exists \/ loaded.err # "none"
              /\ Exit(1) /\ UNCHANGED cfg
           \/ /\ in.ini.given /\ in.ini.exists /\ loaded.err = "none"
              /\ cfg' = loaded.cfg /\ pc' = "parse" /\ UNCHANGED rc
        /\ UNCHANGED <<in, opt, globals, server, call>>

\* The options of this program that overwrite a setting.
Overriding == {"port", "tls", "cert", "key", "ca", "cmdTimeoutMs", "allow", "deny", "logFile", "logLevel"}

\* Step 3: an option that is given replaces the value of the file.
ParseOptions ==
    /\ pc = "parse"
    /\ \E dbglvl \in EnvValue(in.DBGLVL) :
          LET cli == ConfigureCLI(globals, in.args, dbglvl)
          IN  /\ globals' = cli.g
              /\ IF cli.rc = 0 THEN pc' = "check" /\ UNCHANGED rc ELSE Exit(cli.rc)
    /\ opt' = [k \in DOMAIN cfg |-> IF k \in DOMAIN in.args \cap Overriding THEN in.args[k] ELSE cfg[k]]
    /\ UNCHANGED <<in, cfg, server, call>>

\* Mutant of CheckTls: tokens do not ask for TLS.
CheckCertOnly ==
    /\ pc = "check"
    /\ IF opt.tls /\ (opt.cert = <<>> \/ opt.key = <<>>) THEN Exit(1)
       ELSE pc' = "logging" /\ UNCHANGED rc
    /\ UNCHANGED <<in, cfg, opt, globals, server, call>>

\* TLS needs both files, and tokens need TLS.
CheckTls ==
    /\ pc = "check"
    /\ IF \/ opt.tls /\ (opt.cert = <<>> \/ opt.key = <<>>)
          \/ ~opt.tls /\ DOMAIN cfg.auth # {}
       THEN Exit(1)
       ELSE pc' = "logging" /\ UNCHANGED rc
    /\ UNCHANGED <<in, cfg, opt, globals, server, call>>

\* Mutant of ConfigureLogging: a log level on the command line is kept.
KeepOptionLevel ==
    LET set  == [globals EXCEPT
                    !.CliLogFile  = IF opt.logFile # <<>> THEN opt.logFile ELSE DefaultCLiLogFileName(in.appName),
                    !.CliLogLevel = IF @ = "" THEN opt.logLevel ELSE @,
                    !.CliDbgLevel = IF opt.debugLevel >= 0 THEN opt.debugLevel ELSE @]
        init == InitLogging(set, Level.info, Writable)
    IN  /\ pc = "logging"
        /\ globals' = init.g
        /\ IF init.ok THEN pc' = "build" /\ UNCHANGED rc ELSE Exit(Aborted)
        /\ UNCHANGED <<in, cfg, opt, server, call>>

\* Step 4: the globals of the common options are set from the settings and
\* InitLogging reads them.  CliLogFile is set in both branches.
ConfigureLogging ==
    LET set  == [globals EXCEPT
                    !.CliLogFile  = IF opt.logFile # <<>> THEN opt.logFile ELSE DefaultCLiLogFileName(in.appName),
                    !.CliLogLevel = IF opt.logLevel # "" THEN opt.logLevel ELSE @,
                    !.CliDbgLevel = IF opt.debugLevel >= 0 THEN opt.debugLevel ELSE @]
        init == InitLogging(set, Level.info, Writable)
    IN  /\ pc = "logging"
        /\ globals' = init.g
        /\ IF init.ok THEN pc' = "build" /\ UNCHANGED rc ELSE Exit(Aborted)
        /\ UNCHANGED <<in, cfg, opt, server, call>>

-----------------------------------------------------------------------------
(* Step 5: the constructor of GrpcServerThread.                            *)

\* The credential files the constructor reads; readFile throws for another one.
CredentialFiles ==
    IF opt.tls THEN {opt.key, opt.cert} \cup ({opt.ca} \ {<<>>}) ELSE {}

Compiled(texts) == [i \in DOMAIN texts |-> Regex(texts[i])]

\* The processor is attached to TLS credentials only.
GrpcServerThread ==
    /\ pc = "build"
    /\ CredentialFiles \subseteq Files
    /\ opt.port \in Ports
    /\ server' = [up |-> TRUE, port |-> opt.port, timeout |-> opt.cmdTimeoutMs, processor |-> opt.tls,
                  m_tokens |-> BearerTokenAuthProcessor(cfg.auth),
                  service |-> RemSvcServiceImpl([allow |-> Compiled(opt.allow), deny |-> Compiled(opt.deny)])]
    /\ pc' = "serving"
    /\ UNCHANGED <<in, rc, cfg, opt, globals, call>>

\* readFile throws, or BuildAndStart finds no free port and Expects throws.
GrpcServerThreadThrows ==
    /\ pc = "build"
    /\ Exit(Aborted)
    /\ UNCHANGED <<in, cfg, opt, globals, server, call>>

\* A call: gRPC asks the processor, then the handler asks checkAllowed.
Call(header, cmd) ==
    LET auth == IF server.processor THEN Process(server.m_tokens, header)
                ELSE [status |-> "OK", identity |-> 0, consumed |-> FALSE]
    IN  /\ pc = "serving"
        /\ call' = [made |-> TRUE, header |-> header, cmd |-> cmd, identity |-> auth.identity,
                    status |-> IF auth.status # "OK" THEN auth.status
                               ELSE IF checkAllowed(server.service, cmd) THEN "OK" ELSE "PERMISSION_DENIED"]
        /\ UNCHANGED <<in, pc, rc, cfg, opt, globals, server>>

\* The event loop has ended: stop the server, close the logger, return.
Stop ==
    /\ pc = "serving"
    /\ server' = NoServer
    /\ globals' = TermLogging(globals)
    /\ Exit(0)
    /\ UNCHANGED <<in, cfg, opt, call>>

Next ==
    \/ LoadConfig
    \/ ParseOptions
    \/ CheckTls
    \/ ConfigureLogging
    \/ GrpcServerThread
    \/ GrpcServerThreadThrows
    \/ \E h \in Headers, cmd \in Cmds : Call(h, cmd)
    \/ Stop

Spec == Init /\ [][Next]_vars

-----------------------------------------------------------------------------
(* Properties.                                                             *)

\* The state has its types: past loadServerConfig the settings are in the ranges the
\* file is checked against, and a running server has a port that exists.
TypeOK ==
    /\ pc \in {"load", "parse", "check", "logging", "build", "serving", "exited"}
    /\ rc \in {Running, Aborted, 0, 1} /\ (rc # Running <=> pc = "exited")
    /\ cfg.port \in Ports \ {0} /\ cfg.cmdTimeoutMs > 0
    /\ globals.registry = globals.MainLogger
    /\ server.up <=> pc = "serving"
    /\ server.up => server.port \in Ports

\* The tokens that the [auth] section amounts to: those whose value is not empty.
ConfiguredTokens ==
    IF in.ini.given /\ "auth" \in DOMAIN in.ini.keys
    THEN LET section == in.ini.keys["auth"]
             value(id) == IF IsList(section[id]) THEN <<>>
                          ELSE Expanded(in.env, Unescaped(section[id]))
         IN  {<<id, value(id)>> : id \in {i \in DOMAIN section : value(i) # <<>>}}
    ELSE {}

\* If the file configures a token at all, every call that a running server accepts
\* carries a configured token and is attributed to an identity that owns it, with no
\* exception for TLS or for options; otherwise no call is refused as unauthenticated.
\* (main's checks, GrpcServerThread's choice of credentials, Process.)
AuthIsEnforced ==
    call.made =>
        IF ConfiguredTokens = {} THEN call.status # "UNAUTHENTICATED" /\ call.identity = 0
        ELSE call.status # "UNAUTHENTICATED" <=>
                \E t \in ConfiguredTokens : /\ call.header = kBearerPrefix \o t[2]
                                            /\ call.identity = t[1]

\* An [auth] section with an identity in it switches authentication on: no call is
\* admitted without one (prv/README.md:51, ServerConfig.cc:153).  It is false: a token
\* that expands to nothing, or is a list, is dropped.
AuthAsDocumented ==
    (call.made /\ in.ini.given /\ "auth" \in DOMAIN in.ini.keys /\ DOMAIN in.ini.keys["auth"] # {}) =>
        (call.status = "OK" => call.identity # 0)

Paths == {"cert", "key", "ca"} \cap DOMAIN in.ini.keys

\* A path of the file has its references to known variables replaced, none of them twice,
\* and everything else kept, malformed and unknown references included, as
\* ServerConfig.cc:12-14 says. (expandEnvVars.)
ExpansionIsByReference ==
    cfg # Defaults =>
        \A k \in Paths :
            LET path == toString(in.ini.keys[k])
            IN  (\A i \in DOMAIN path : ~Hollow(path, i)) => cfg[k] = Referenced(in.env, path)

\* The same of every path.  It is false: "${}" loses its braces, although "empty variable
\* names are left unexpanded". (ServerConfig.cc:14 and :57.)
EmptyNameIsKept ==
    cfg # Defaults => \A k \in Paths : cfg[k] = Referenced(in.env, toString(in.ini.keys[k]))

\* The value of an option, if it is given, and of a key of the file.
Option(k) == IF k \in DOMAIN in.args THEN {in.args[k]} ELSE {}
InIni(k)  == IF in.ini.given /\ k \in DOMAIN in.ini.keys THEN {in.ini.keys[k]} ELSE {}

\* The file and the level for the log as the INI file has them, which an override replaces
\* even by nothing.
IniFile  == IF "logFile" \in DOMAIN in.args THEN {} ELSE {toString(f) : f \in InIni("file")} \ {<<>>}
IniLevel == IF "logLevel" \in DOMAIN in.args THEN {} ELSE InIni("level") \ {""}
IniDebug == {toInt(d) : d \in InIni("debug_level")} \cap Nat

\* Who wins: the options over the INI file and the file over the defaults, with the
\* "override" options first (README.md:252-253, server.ini.example:9, RemSvcServer.cc:63).
\* A level given by name beats what a debug level implies, and the debug level of the
\* file beats DBGLVL, which is no option.
LoggerAsDocumented ==
    LET over(S, T) == IF S # {} THEN S ELSE T
        file  == over(over(Option("logFile") \ {<<>>}, Option("log-file") \ {<<>>}),
                      over(IniFile, {DefaultCLiLogFileName(in.appName)}))
        debug == over(over(Option("debug"), IniDebug), over(in.DBGLVL \cap 0 .. 9, {-1}))
        level(d) == over(over(Option("logLevel") \ {""}, Option("log-level") \ {""}),
                         over(IniLevel, {IF d > 0 THEN "debug" ELSE "info"}))
    IN  \E f \in file, d \in debug : \E l \in level(d) :
            /\ globals.LogSinks = <<"console", f>>
            /\ globals.MainLogger = StrToLogLevel(l)
            /\ globals.AllowedDebugLevel = IF d >= 0 THEN d ELSE debugmax

\* A common option meets a setting of the server for the same thing, or names a log file.
OptionsClash ==
    \/ "log-file" \in DOMAIN in.args
    \/ "log-level" \in DOMAIN in.args /\ IniLevel # {}
    \/ "debug" \in DOMAIN in.args /\ IniDebug # {}

\* The logger of a running server is the documented one, whichever of the file, the
\* overrides, the common options and DBGLVL name its file, level and debug level, as long
\* as no common option clashes with the file. (main's step 4, ConfigureCLI, InitLogging.)
LoggerFollowsPrecedence == server.up /\ ~OptionsClash => LoggerAsDocumented

\* The same where they clash.  It is false: step 4 of main overwrites what the common
\* options have set.
OptionsWinForLogger == server.up => LoggerAsDocumented

\* The patterns in force: those of the options, or else all values of the section that
\* are not empty, as they stand in the file and whatever their keys.
Written(option, section) ==
    IF option \in DOMAIN in.args THEN ToSet(in.args[option])
    ELSE (UNION {{s[k] : k \in DOMAIN s} : s \in InIni(section)}) \ {<<>>}

\* No value of a list has a character that QSettings takes for its own syntax.
PlainLists ==
    \A s \in InIni("allowlist") \cup InIni("denylist") : \A k \in DOMAIN s :
        ToSet(s[k]) \cap {Backslash, Quote, Comma} = {}

\* The patterns admit the command: all of them compile, no deny pattern matches, and an
\* allow pattern does unless there is none.
AdmittedBy(allow, deny, cmd) ==
    /\ \A p \in allow \cup deny : p.valid
    /\ \A p \in deny : cmd \notin p.hits
    /\ allow # {} => \E p \in allow : cmd \in p.hits

\* A call that gets past authentication is admitted exactly if the written patterns admit
\* its command, all values of the two sections being collected (ServerConfig.cc:117) and
\* the values plain. (loadServerConfig's lists, the options, the constructor, checkAllowed.)
ListsAsWritten ==
    (call.made /\ call.status # "UNAUTHENTICATED" /\ PlainLists) =>
        (call.status = "OK" <=>
            AdmittedBy({Regex(t) : t \in Written("allow", "allowlist")},
                       {Regex(t) : t \in Written("deny", "denylist")}, call.cmd))

\* What the README promises of [allowlist], "a command must match at least one", with the
\* patterns that stand in the file.  It is false: a value with a comma is a list, has no
\* text and is dropped, and an empty allowlist admits everything. (loadServerConfig's list.)
AllowedAsDocumented ==
    (call.made /\ call.status = "OK" /\ "allow" \notin DOMAIN in.args) =>
        \A s \in InIni("allowlist") :
            DOMAIN s # {} => \E k \in DOMAIN s : call.cmd \in Regex(s[k]).hits

\* What the README promises of [denylist], "a command matching ANY deny pattern is
\* rejected", with the patterns that stand in the file. (loadServerConfig's list.)
DeniedAsDocumented ==
    (call.made /\ in.ini.given /\ "denylist" \in DOMAIN in.ini.keys) =>
        LET s == in.ini.keys["denylist"]
        IN  (\E k \in DOMAIN s : call.cmd \in Regex(s[k]).hits) => call.status # "OK"
=============================================================================

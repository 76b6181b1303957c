------------------------------ MODULE Logging ------------------------------
(***************************************************************************)
(* The common library: log levels, the options every program shares        *)
(* (ConfigureCLI) and the set-up of the application's logger.  The         *)
(* globals of CLI.cc and Log.cc are the fields of one record; a program    *)
(* keeps that record in a variable.  Options are a function from the names *)
(* of those given to their values, each given once.                        *)
(***************************************************************************)
EXTENDS Integers, Sequences, SequencesExt

\* log_level_enum, whose values are those of spdlog.
Level == [trace |-> 0, debug |-> 1, info |-> 2, warn |-> 3, error |-> 4, critical |-> 5, off |-> 6]

\* DebugLevels::debugmax, which is one above the highest level an option can ask for.
debugmax == 10

NoLogger == -1   \* MainLogger is null, or no logger has the name

\* The globals as the program starts.  MainLogger is the level of the logger it
\* points to, registry the level of the logger that spdlog knows under its name.
Globals ==
    [CliLogFile |-> <<>>, CliLogLevel |-> "", CliDbgLevel |-> -1,
     LogFileName |-> <<>>, AllowedDebugLevel |-> debugmax,
     LogSinks |-> <<>>, MainLogger |-> NoLogger, registry |-> NoLogger]

StrToLogLevel(lvlstr) ==
    IF lvlstr \in {"trace", "debug", "info", "warn", "error"} THEN Level[lvlstr] ELSE Level.info

\* fs::path::replace_extension: an extension is the last element of the text.
DefaultCLiLogFileName(appName) ==
    (IF Last(appName) \in {".exe", ".log"} THEN Front(appName) ELSE appName) \o <<".log">>

\* What the parser may make of DBGLVL: CLI11, whose version is not fixed, refuses or
\* ignores a value that fails the check of the option.
EnvValue(DBGLVL) == {DBGLVL, DBGLVL \cap 0 .. 9}

\* The parser refuses an unknown option and a debug level outside 0 .. 9; --version
\* asks the program to exit.
ConfigureCLI(g, args, DBGLVL) ==
    LET given(k, default) == IF k \in DOMAIN args THEN args[k] ELSE default
        debug  == IF "debug" \in DOMAIN args THEN {args["debug"]} ELSE DBGLVL
        failed == "unknown" \in DOMAIN args \/ \E d \in debug : d \notin 0 .. 9
    IN  [rc |-> IF failed \/ "version" \in DOMAIN args THEN 1 ELSE 0,
         g  |-> IF failed THEN g
                ELSE [g EXCEPT !.CliLogFile  = given("log-file", @),
                               !.CliLogLevel = given("log-level", @),
                               !.CliDbgLevel = IF debug = {} THEN @ ELSE CHOOSE d \in debug : TRUE]]

\* The level the logger gets: a log level given by name, or else what the debug level
\* implies, or else the argument of InitLogging.
ChosenLevel(g, lvl) ==
    IF g.CliLogLevel # "" THEN StrToLogLevel(g.CliLogLevel)
    ELSE IF g.CliDbgLevel < 0 THEN lvl
    ELSE IF g.CliDbgLevel > 0 THEN Level.debug ELSE Level.info

\* InitLogging throws when the file cannot be opened (not in writable) or when a
\* logger of that name is still registered; what it assigned before stays.
InitLogging(g, lvl, writable) ==
    LET file  == IF g.CliLogFile # <<>> THEN g.CliLogFile ELSE g.LogFileName
        named == [g EXCEPT !.LogFileName       = file,
                           !.AllowedDebugLevel = IF g.CliDbgLevel >= 0 THEN g.CliDbgLevel ELSE @]
        sinks == g.LogSinks \o <<"console">>
    IN  IF file # <<>> /\ file \notin writable
        THEN [ok |-> FALSE, g |-> [named EXCEPT !.LogSinks = sinks]]
        ELSE LET made == [named EXCEPT !.LogSinks   = IF file = <<>> THEN sinks ELSE Append(sinks, file),
                                       !.MainLogger = ChosenLevel(g, lvl)]
             IN  IF g.registry # NoLogger THEN [ok |-> FALSE, g |-> made]
                 ELSE [ok |-> TRUE, g |-> [made EXCEPT !.registry = made.MainLogger]]

\* TermLogging dereferences MainLogger: only after InitLogging.
TermLogging(g) == [g EXCEPT !.LogSinks = <<>>, !.MainLogger = NoLogger, !.registry = NoLogger]

\* GetLogger throws unless a logger is registered.
GetLoggerThrows(g) == g.registry = NoLogger

SetLogLevel(g, lvl) == [g EXCEPT !.registry = IF @ = NoLogger THEN @ ELSE lvl,
                                 !.MainLogger = IF @ = NoLogger THEN @ ELSE lvl]

\* Log and LogF with a debug level write at level debug, if the level is allowed.
Logged(g, dbglvl) == dbglvl <= g.AllowedDebugLevel /\ g.MainLogger \in 0 .. Level.debug
=============================================================================

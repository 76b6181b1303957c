---------------------------- MODULE MCServerMain ----------------------------
(***************************************************************************)
(* Instances of ServerMain.  The inputs are a union of small products, one *)
(* for each part of the file that is looked at.                            *)
(***************************************************************************)
EXTENDS ServerMain, UnitTests

CONSTANT MaxPath   \* longest text that is expanded

MCChars     == {"$", "{", "}", "\\", ",", "\"", "b", "BACKSPACE", "A", "B", "/", "c", "k", "t", "gone", "w", "1",
                "^rm", "^ls", "(", "0", "true", "srv", ".exe", ".log", "ini.log", "opt.log", "no.log",
                "absent", "Bearer ", "Basic "}
MCNameChars == {"A", "B"}
MCHashes    == {"crc"}
MCNoHash    == "none"
MCCmds      == {"rm", "ls"}
MCCrc       == [c \in MCCmds |-> "crc"]

\* A is set to a text that looks like a reference to itself, B to the empty text.
Env == <<"A">> :> <<"$", "A">> @@ <<"B">> :> <<>>

Cert == <<"c">>
Key  == <<"k">>
MCFiles    == {Cert, Key}
MCWritable == {<<"srv", ".log">>, <<"ini.log">>, <<"opt.log">>}

\* "^rm\b" with the backslash kept matches rm; once \b has become a backspace it
\* matches nothing.  "^ls,1" stands for a pattern like ^ls{0,1}.
MCRegex(t) ==
    [valid |-> t # <<"(">>,
     hits  |-> IF t \in {<<"^rm">>, <<"^rm", "\\", "b">>} THEN {"rm"}
               ELSE IF t \in {<<"^ls">>, <<"^ls", ",", "1">>} THEN {"ls"} ELSE {}]

MCHeaders == {NoHeader, kBearerPrefix, <<"Basic ", "t">>, kBearerPrefix \o <<"t">>,
              kBearerPrefix \o <<"$", "A">>, kBearerPrefix \o <<"t", ",", "t">>}

-----------------------------------------------------------------------------
NoKeys == [k \in {} |-> 0]
NoFile == [given |-> FALSE, exists |-> FALSE, keys |-> NoKeys]
File(keys) == [given |-> TRUE, exists |-> TRUE, keys |-> keys]
Started(ini, args, DBGLVL) ==
    [ini |-> ini, env |-> Env, args |-> args, DBGLVL |-> DBGLVL, appName |-> <<"srv", ".exe">>]

\* Every function from a subset of the keys to the values.
Partial(keys, values) == UNION {[K -> values] : K \in SUBSET keys}

Tls == "enabled" :> <<"true">> @@ "cert" :> Cert @@ "key" :> Key

\* Every text up to MaxPath characters as a path, and one that QSettings takes for a list.
PathInputs ==
    LET texts == UNION {[1 .. n -> {"$", "{", "}", "A", "/"}] : n \in 0 .. MaxPath}
    IN  {Started(File([Tls EXCEPT !["cert"] = t]), NoKeys, {}) : t \in texts \cup {<<"A", ",", "A">>}}

\* Tokens that are plain, shared, from the environment, empty, a list, or in quotes.
AuthInputs ==
    LET sections == Partial({1, 2}, {<<"t">>, <<"$", "A">>, <<"$", "B">>, <<"t", ",", "t">>,
                                     <<"\"", "t", ",", "t", "\"">>})
        options  == {NoKeys, "tls" :> TRUE, "tls" :> FALSE, "ca" :> <<"gone">>, "key" :> <<>>}
    IN  {Started(File("auth" :> s @@ keys), o, {}) :
            s \in sections, keys \in {Tls, [Tls EXCEPT !["enabled"] = <<"0">>]}, o \in options}

\* Keys 2 and 10, which are sorted as texts, with values that match, that are empty and
\* that are no regex.
ListInputs ==
    LET values == {<<"^rm">>, <<"^ls">>, <<>>, <<"(">>}
    IN  {Started(File("allowlist" :> a @@ "denylist" :> d), NoKeys, {}) :
            a \in Partial({2, 10}, values), d \in Partial({2, 10}, values)}
        \cup {Started(File("allowlist" :> a), o, {}) :
            a \in Partial({1}, values), o \in {"allow" :> << <<"^ls">> >>, "deny" :> << <<"^ls">> >>}}

Number(n) == [num |-> TRUE, val |-> n]
Garbage   == [num |-> FALSE, val |-> 0]

\* Logging set in the file, by options and by DBGLVL.
LogInputs ==
    LET debug   == {[k \in {"debug_level"} |-> Number(n)] : n \in {-1, 0, 3}} \cup {NoKeys}
        options == {NoKeys, "log-file" :> <<"no.log">>, "log-level" :> "trace", "debug" :> 5, "debug" :> 10,
                    "logFile" :> <<"opt.log">>, "logLevel" :> "error", "logLevel" :> "",
                    "log-level" :> "trace" @@ "debug" :> 0, "log-level" :> "trace" @@ "logLevel" :> "error", "version" :> TRUE, "unknown" :> TRUE}
    IN  {Started(File(f @@ l @@ d), o, e) :
            f \in Partial({"file"}, {<<"ini.log">>, <<"$", "A">>}), l \in Partial({"level"}, {"warn", "loud"}),
            d \in debug, o \in options, e \in {{}, {7}, {12}}}

\* No file, a missing one, and numbers at their limits.
NumberInputs ==
    {Started(NoFile, NoKeys, {}), Started([NoFile EXCEPT !.given = TRUE], NoKeys, {})}
    \cup {Started(File("port" :> p @@ "cmd_timeout_ms" :> t), o, {}) :
            p \in {Number(n) : n \in {-1, 0, 1, 65535, 65536}} \cup {Garbage},
            t \in {Number(0), Number(1)}, o \in {NoKeys, "port" :> 0, "port" :> 65536, "cmdTimeoutMs" :> 0}}

MCInputs == PathInputs \cup AuthInputs \cup ListInputs \cup LogInputs \cup NumberInputs
=============================================================================

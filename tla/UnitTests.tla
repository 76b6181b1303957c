----------------------------- MODULE UnitTests -----------------------------
(***************************************************************************)
(* The repository's own tests of the code that ServerConfig,               *)
(* AuthInterceptor, Logging, Hash and ServiceCalls translate, applied to   *)
(* the translation: one definition for each group of test cases, with the  *)
(* inputs and the expectations of the test.  TLC evaluates them as         *)
(* assumptions, so a translation that fails a test of the program fails    *)
(* the run.  Texts no test looks into are one character.                   *)
(***************************************************************************)
EXTENDS ServerConfig, AuthInterceptor, Logging, Hash

TestEnv == <<"A">> :> <<"secret">>
Load(keys) == loadServerConfig(keys, TestEnv)
Accepts(keys, k, v) == Load(keys).err = "none" /\ Load(keys).cfg[k] = v
Num(n) == [num |-> TRUE, val |-> n]
EmptySection == [k \in {} |-> <<>>]

-----------------------------------------------------------------------------
(* ServerConfigTest.cc                                                     *)

DefaultsPreserved == Load(EmptySection) = [err |-> "none", cfg |-> Defaults]

ServerSection ==
    /\ Accepts("port" :> Num(9090), "port", 9090)
    /\ Accepts("cmd_timeout_ms" :> Num(5000), "cmdTimeoutMs", 5000)
    /\ Accepts("port" :> Num(1234), "cmdTimeoutMs", 30000)

TlsSection ==
    LET keys == "enabled" :> <<"true">> @@ "cert" :> <<"crt">> @@ "key" :> <<"key">>
    IN  /\ Accepts("enabled" :> <<"true">>, "tls", TRUE)
        /\ Accepts(keys, "cert", <<"crt">>) /\ Accepts(keys, "key", <<"key">>)
        /\ Accepts("ca" :> <<"ca">>, "ca", <<"ca">>)

AuthSection ==
    /\ Accepts("auth" :> (1 :> <<"prod">> @@ 2 :> <<"staging">>), "auth", 1 :> <<"prod">> @@ 2 :> <<"staging">>)
    /\ Accepts("auth" :> EmptySection, "auth", EmptySection)
    /\ Accepts("auth" :> (1 :> <<"real">> @@ 2 :> <<>>), "auth", 1 :> <<"real">>)
    /\ Accepts("auth" :> (1 :> <<"$", "A">>), "auth", 1 :> <<"secret">>)
    /\ Accepts("auth" :> (1 :> <<"$", "{", "A", "}">>), "auth", 1 :> <<"secret">>)

ListSections ==
    LET written == 1 :> <<"^echo", "\\", "\\", "b">> @@ 2 :> <<"^dir", "\\", "\\", "b">>
        read    == << <<"^echo", "\\", "b">>, <<"^dir", "\\", "b">> >>
    IN  /\ Accepts("allowlist" :> written, "allow", read)
        /\ Accepts("allowlist" :> EmptySection, "allow", <<>>)
        /\ Accepts("denylist" :> written, "deny", read)
        /\ Accepts("denylist" :> EmptySection, "deny", <<>>)

Validation ==
    /\ Load("port" :> Num(99999)).err = "port"
    /\ Load("cmd_timeout_ms" :> Num(0)).err = "cmd_timeout_ms"

LogSection ==
    LET keys == "file" :> <<"mylog">> @@ "level" :> "warn" @@ "debug_level" :> Num(3)
    IN  Accepts(keys, "logFile", <<"mylog">>) /\ Accepts(keys, "logLevel", "warn") /\ Accepts(keys, "debugLevel", 3)

FullConfigRoundTrip ==
    LET keys == "port" :> Num(9999) @@ "cmd_timeout_ms" :> Num(10000) @@ "enabled" :> <<"true">>
                @@ "cert" :> <<"crt">> @@ "key" :> <<"key">> @@ "auth" :> (1 :> <<"prod">>)
                @@ "allowlist" :> (1 :> <<"^echo">>) @@ "level" :> "debug"
    IN  Load(keys) = [err |-> "none",
                      cfg |-> [Defaults EXCEPT !.port = 9999, !.cmdTimeoutMs = 10000, !.tls = TRUE,
                                               !.cert = <<"crt">>, !.key = <<"key">>, !.auth = 1 :> <<"prod">>,
                                               !.allow = << <<"^echo">> >>, !.logLevel = "debug"]]

-----------------------------------------------------------------------------
(* AuthInterceptorTest.cc                                                  *)

Answer(tokens, header) == Process(BearerTokenAuthProcessor(tokens), header)
Bearer(token) == kBearerPrefix \o token
Tok == <<"t", "o", "k">>

AuthDisabled ==
    /\ ~IsEnabled(BearerTokenAuthProcessor(<<>>))
    /\ \A h \in {NoHeader, Bearer(Tok)} : Answer(<<>>, h).status = "OK"

AuthRejects ==
    /\ IsEnabled(BearerTokenAuthProcessor(<<Tok>>))
    /\ \A h \in {NoHeader, <<"Basic ", "d">>, Bearer(<<"wrong">>), Bearer(<<>>)} :
           Answer(<<Tok>>, h).status = "UNAUTHENTICATED"

AuthAccepts == Answer(<<Tok>>, Bearer(Tok)) = [status |-> "OK", identity |-> 1, consumed |-> TRUE]

MultipleTokens ==
    LET tokens == <<<<"prod">>, <<"staging">>, <<"dev">> >>
    IN  /\ \A i \in DOMAIN tokens : Answer(tokens, Bearer(tokens[i])).identity = i
        /\ Answer(tokens, Bearer(Tok)).status = "UNAUTHENTICATED"

EmptyTokens ==
    /\ ~IsEnabled(BearerTokenAuthProcessor(<< <<>> >>))
    /\ Answer(<<Tok, <<>> >>, Bearer(Tok)).status = "OK"

-----------------------------------------------------------------------------
(* CommonTest.cc                                                           *)

LogLevelNames ==
    /\ \A s \in {"trace", "debug", "info", "warn", "error"} : StrToLogLevel(s) = Level[s]
    /\ \A s \in {"bogus", "", "TRACE"} : StrToLogLevel(s) = Level.info

LogFileNames ==
    \A ext \in {<<>>, <<".exe">>} : DefaultCLiLogFileName(<<"myapp">> \o ext) = <<"myapp", ".log">>

CommandLine ==
    LET cli(args) == ConfigureCLI(Globals, args, {})
    IN  /\ cli(EmptySection) = [rc |-> 0, g |-> Globals]
        /\ cli("log-file" :> <<"out">>) = [rc |-> 0, g |-> [Globals EXCEPT !.CliLogFile = <<"out">>]]
        /\ cli("log-level" :> "warn") = [rc |-> 0, g |-> [Globals EXCEPT !.CliLogLevel = "warn"]]
        /\ \A d \in {0, 5} : cli("debug" :> d) = [rc |-> 0, g |-> [Globals EXCEPT !.CliDbgLevel = d]]
        /\ \A args \in {"debug" :> 10, "unknown" :> TRUE, "version" :> TRUE} : cli(args).rc = 1

LoggerLifeCycle ==
    LET init == InitLogging(Globals, Level.info, {})
    IN  /\ init.ok
        /\ GetLoggerThrows(Globals) /\ ~GetLoggerThrows(init.g) /\ GetLoggerThrows(TermLogging(init.g))
        /\ ~GetLoggerThrows(SetLogLevel(init.g, Level.warn))

\* The bytes of "123456789" and of the other texts that are hashed.
Digits19 == [i \in 1 .. 9 |-> 48 + i]
Hello == <<104, 101, 108, 108, 111>>
World == <<119, 111, 114, 108, 100>>

HashVectors ==
    /\ crc32Hex(<<>>) = <<0, 0, 0, 0, 0, 0, 0, 0>>
    /\ crc32Hex(Digits19) = <<12, 11, 15, 4, 3, 9, 2, 6>>
    /\ crc32Hex(Hello) # crc32Hex(World)
    /\ \A d \in 1 .. 8 : crc32Hex(Hello)[d] \in 0 .. 15

-----------------------------------------------------------------------------
(* RemSvcServiceImplTest.cc                                                *)

Echo == <<101, 99, 104, 111>>
Rm   == <<114, 109>>
Dir  == <<100, 105, 114>>
TestCmds == {Echo, Rm, Dir}
Wrong == [d \in 1 .. 8 |-> 0]

RS == INSTANCE ServiceCalls WITH
          Cmds <- TestCmds, NoHash <- <<>>, Crc <- [c \in TestCmds |-> crc32Hex(c)],
          Hashes <- {crc32Hex(c) : c \in TestCmds} \cup {Wrong}

Pat(hits) == [valid |-> TRUE, hits |-> hits]
BadPat    == [valid |-> FALSE, hits |-> {}]
Svc(allow, deny) == [allow |-> allow, deny |-> deny]
AnyCmd    == Svc(<<>>, <<>>)

\* What makeFakeRunner's runners return; the output of the second kind tells which
\* request it belongs to and its exit code how many ran before.
Fake(rc, len) == [rc |-> rc, out |-> RS!Output("out", len), err |-> RS!Output("err", len)]
Fakes(n, req) == [rc |-> n, out |-> RS!Output(req, 5), err |-> RS!Output("", 0)]
Plain(cmd)    == RS!RemCmdMsg(cmd, 0, 0, <<>>, "")
Reply(config, req)  == RS!RemCmd(config, req, Fakes(0, req))
Status(config, req) == Reply(config, req).status

OutputAndReturnCode ==
    \A rc \in {0, 1} :
        LET got == RS!RemCmd(AnyCmd, Plain(Echo), Fake(rc, 5))
        IN  got.status = "OK" /\ got.res[1].rc = rc /\ got.res[1].out = RS!Output("out", 5)

RunnerSeesRequest ==
    \A typ \in {0, 1}, usr \in {"", "deploy"} :
        LET req == RS!RemCmdMsg(Dir, typ, 0, <<>>, usr)
        IN  Reply(AnyCmd, req).runs = <<req>>

EchoesTidAndHash ==
    \A tid \in {0, 9876}, hsh \in {<<>>, crc32Hex(Echo)} :
        LET res == Reply(AnyCmd, RS!RemCmdMsg(Echo, 0, tid, hsh, "")).res[1]
        IN  res.tid = tid /\ res.hsh = hsh

PingEchoes == LET ping == [seq |-> 42, time |-> 1234567890, data |-> "hello"] IN RS!Ping(ping) = ping

StatusMessage == LET status == RS!GetStatus(2) IN status.rc = 0 /\ status.state = "OK" /\ status.commands = 2

Allowlist ==
    /\ Status(AnyCmd, Plain(Rm)) = "OK"
    /\ Status(Svc(<<Pat({Echo}), Pat({Dir})>>, <<>>), Plain(Echo)) = "OK"
    /\ Status(Svc(<<Pat({Echo})>>, <<>>), Plain(Rm)) = "PERMISSION_DENIED"
    /\ Status(Svc(<<BadPat>>, <<>>), Plain(Echo)) = "PERMISSION_DENIED"

Truncation ==
    LET reply(len) == RS!RemCmd(AnyCmd, Plain(Echo), Fake(1, len)).res[1]
        big == RS!kMaxOutputBytes + 100
    IN  /\ \A s \in {reply(big).out, reply(big).err} :
               s.marked /\ RS!Size(s) = RS!kMaxOutputBytes + RS!kTruncationMarkerSize
        /\ reply(100).out = RS!Output("out", 100)

HashCheck ==
    LET hashed(h) == Reply(AnyCmd, RS!RemCmdMsg(Dir, 0, 0, h, ""))
    IN  /\ hashed(Wrong).status = "INVALID_ARGUMENT" /\ hashed(Wrong).runs = <<>>
        /\ hashed(crc32Hex(Dir)).status = "OK" /\ hashed(<<>>).status = "OK"

Stream(config, reqs) == RS!processStream(config, reqs, [i \in DOMAIN reqs |-> Fakes(i - 1, reqs[i])])

StreamTests ==
    LET reqs == <<RS!RemCmdMsg(Echo, 0, 10, <<>>, "alice"), RS!RemCmdMsg(Dir, 0, 20, crc32Hex(Dir), ""), Plain(Rm)>>
        got  == Stream(AnyCmd, reqs)
        bad  == Stream(AnyCmd, <<RS!RemCmdMsg(Dir, 0, 0, Wrong, ""), Plain(Echo)>>)
    IN  /\ Stream(Svc(<<BadPat>>, <<>>), <<Plain(Echo)>>) = [status |-> "PERMISSION_DENIED", runs |-> <<>>, res |-> <<>>]
        /\ Status(Svc(<<Pat({Echo}), BadPat>>, <<>>), Plain(Echo)) = "PERMISSION_DENIED"
        /\ Stream(Svc(<<Pat({Echo})>>, <<>>), <<Plain(Rm)>>).res = <<>>
        /\ Stream(AnyCmd, <<>>) = [status |-> "OK", runs |-> <<>>, res |-> <<>>]
        /\ got.status = "OK" /\ got.runs = reqs
        /\ \A i \in 1 .. 3 : /\ got.res[i].rc = i - 1 /\ got.res[i].out.text = reqs[i]
                             /\ got.res[i].tid = reqs[i].tid /\ got.res[i].hsh = reqs[i].hsh
        /\ bad = [status |-> "INVALID_ARGUMENT", runs |-> <<>>, res |-> <<>>]

Denylist ==
    LET denyRm == <<Pat({Rm})>>
    IN  /\ Status(Svc(<<>>, denyRm), Plain(Rm)) = "PERMISSION_DENIED"
        /\ Status(Svc(<<>>, denyRm), Plain(Echo)) = "OK"
        /\ Status(Svc(<<Pat({Echo})>>, <<Pat({Echo})>>), Plain(Echo)) = "PERMISSION_DENIED"
        /\ Status(Svc(<<Pat({Echo})>>, denyRm), Plain(Echo)) = "OK"
        /\ Status(Svc(<<>>, <<BadPat>>), Plain(Echo)) = "PERMISSION_DENIED"
        /\ Stream(Svc(<<>>, denyRm), <<Plain(Rm)>>).status = "PERMISSION_DENIED"

-----------------------------------------------------------------------------
(* RemSvcClientTest.cc and GrpcRoundTripTest.cc                            *)

ClientPing ==
    /\ RS!doPingResult("OK", [seq |-> 7]) = [ok |-> TRUE, seqEcho |-> 7]
    /\ ~RS!doPingResult("UNAVAILABLE", [seq |-> 0]).ok

ClientGetStatus ==
    /\ RS!doGetStatusResult("OK", RS!GetStatus(0)) = [ok |-> TRUE, rc |-> 0]
    /\ ~RS!doGetStatusResult("UNAVAILABLE", RS!GetStatus(0)).ok

ClientRemCmd ==
    /\ RS!doRemCmdRequest(Dir, 1, 42, "deploy") =
           [cmd |-> Dir, cmdtyp |-> 1, tid |-> 42, hsh |-> crc32Hex(Dir), cmdusr |-> "deploy"]
    /\ RS!doRemCmdRequest(Echo, 0, 0, "").cmdusr = ""
    /\ RS!doRemCmdResult("OK", 5) = 5 /\ RS!doRemCmdResult("UNAVAILABLE", 0) = 1

ClientStream ==
    LET sent == RS!doRemCmdStrmRequests(<<Echo, Dir, Rm>>, 0, "alice")
    IN  /\ [i \in 1 .. 3 |-> sent[i].cmd] = <<Echo, Dir, Rm>>
        /\ \A i \in 1 .. 3 : sent[i].tid = i /\ sent[i].hsh = crc32Hex(sent[i].cmd) /\ sent[i].cmdusr = "alice"
        /\ RS!doRemCmdStrmRequests(<<>>, 0, "") = <<>>
        /\ RS!doRemCmdStrmResult("OK") = 0 /\ RS!doRemCmdStrmResult("UNAVAILABLE") = 1

\* A client function against the handler, over a call that does not break.
RoundTrip ==
    LET req == RS!doRemCmdRequest(Echo, 0, 99, "")
        got == Reply(AnyCmd, req)
        bad == RS!RemCmd(AnyCmd, req, Fake(127, 5))
    IN  /\ RS!doPingResult("OK", RS!Ping([seq |-> 1, time |-> 0, data |-> ""])) = [ok |-> TRUE, seqEcho |-> 1]
        /\ RS!doGetStatusResult("OK", RS!GetStatus(0)) = [ok |-> TRUE, rc |-> 0]
        /\ RS!doRemCmdResult(got.status, got.res[1].rc) = 0
        /\ RS!doRemCmdResult(bad.status, bad.res[1].rc) # 0
        /\ got.res[1].tid = 99 /\ got.res[1].hsh = req.hsh
        /\ Status(AnyCmd, [req EXCEPT !.hsh = Wrong]) = "INVALID_ARGUMENT"

RoundTripStream ==
    LET reqs == [i \in 1 .. 3 |-> RS!RemCmdMsg(Echo, 0, 10 * i, crc32Hex(Echo), "")]
        got  == Stream(AnyCmd, reqs)
    IN  /\ [i \in DOMAIN got.res |-> got.res[i].tid] = <<10, 20, 30>>
        /\ RS!doRemCmdStrmResult(Stream(AnyCmd, RS!doRemCmdStrmRequests(<<Echo, Echo>>, 0, "")).status) = 0

-----------------------------------------------------------------------------
ASSUME ServerConfigTest ==
    DefaultsPreserved /\ ServerSection /\ TlsSection /\ AuthSection /\ ListSections
    /\ Validation /\ LogSection /\ FullConfigRoundTrip

ASSUME AuthInterceptorTest == AuthDisabled /\ AuthRejects /\ AuthAccepts /\ MultipleTokens /\ EmptyTokens

ASSUME CommonTest == LogLevelNames /\ LogFileNames /\ CommandLine /\ LoggerLifeCycle /\ HashVectors

ASSUME RemSvcServiceImplTest ==
    OutputAndReturnCode /\ RunnerSeesRequest /\ EchoesTidAndHash /\ PingEchoes /\ StatusMessage /\ Allowlist
    /\ Truncation /\ HashCheck /\ StreamTests /\ Denylist

ASSUME RemSvcClientTest == ClientPing /\ ClientGetStatus /\ ClientRemCmd /\ ClientStream

ASSUME GrpcRoundTripTest == RoundTrip /\ RoundTripStream

\* The table computes what feeding the bits one by one does, and a command that was
\* changed in one or two neighbouring bits never has the hash of the original.
ASSUME HashReference ==
    /\ \A data \in {<<>>, Hello, Digits19, <<0>>, <<255, 0, 128>>} : Register(data) = BitwiseRegister(data)
    /\ \A i \in 1 .. 3, b \in 0 .. 7 : \A w \in {1, 3} :
           LET flip == (w * 2^b) % 256
               xor(x, y) == LowByte(Xor(Word(x), Word(y)))
           IN  crc32Hex([Dir EXCEPT ![i] = xor(@, flip)]) # crc32Hex(Dir)
=============================================================================

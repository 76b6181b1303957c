---------------------------- MODULE MCDocuments ----------------------------
(***************************************************************************)
(* A server and an Airflow beside it, set up in ways that the documents    *)
(* describe and the code does not follow.                                  *)
(***************************************************************************)
EXTENDS MCServerMain

\* The server is started with one INI file that holds: the first deny pattern of the
\* README; an allow pattern with a comma; a token whose variable is empty; a path with
\* a reference that has no name; and a log level that an option is to replace.
DocumentInputs ==
    {Started(File("denylist" :> (1 :> <<"^rm", "\\", "b">>) @@ "allowlist" :> (1 :> <<"^ls", ",", "1">>)
                  @@ "auth" :> (1 :> <<"$", "B">>) @@ "file" :> <<"ini.log">> @@ "level" :> "warn"
                  @@ [Tls EXCEPT !["cert"] = <<"$", "{", "}", "/", "c">>]),
             "log-level" :> "trace", {})}

\* The certificate stands where the code, which loses the braces, looks for it.
DocumentFiles == {Key, <<"$", "/", "c">>}

VARIABLES input, proto, status, attempt, hook, stream, event, xcom, channels, pool,
          conns, caFile, edits, faults

\* Two tasks: ten commands over connection c, whose CA file is empty, and two commands
\* over d, which names no CA file.
CommandsOver(id) == [length |-> IF id = "c" THEN 10 ELSE 2, blank |-> {}, connId |-> id, metadata |-> {}]
Connection(id)   == [host |-> "h", port |-> 0, ssl |-> "true", caPath |-> id = "c", token |-> ""]

Airflow == INSTANCE RemSvcProvider WITH
    Tasks <- {"s", "t"}, ConnIds <- {"c", "d"},
    Inputs <- {CommandsOver(id) : id \in {"c", "d"}}, Versions <- {Connection(id) : id \in {"c", "d"}},
    CaContents <- {"empty"}, EmptyFile <- "empty", NoCa <- "system", Unread <- "unread", NoConn <- [host |-> "none"],
    MaxAttempts <- 1, MaxEdits <- 0, MaxFaults <- 0, call <- stream

serverVars  == vars
airflowVars == <<input, proto, status, attempt, hook, stream, event, xcom, channels, pool,
                 conns, caFile, edits, faults>>

DocumentsSpec ==
    /\ Init /\ Airflow!Init /\ conns = [id \in {"c", "d"} |-> Connection(id)]
    /\ [][\/ Next /\ UNCHANGED airflowVars
          \/ Airflow!Next /\ UNCHANGED serverVars]_<<serverVars, airflowVars>>

-----------------------------------------------------------------------------
\* Seven things that README.md, prv/README.md, server.ini.example and comments of the
\* code promise, each explained at its definition.  One of them at least holds of every
\* call that the server answers.  It is false, so every one of them is: the last state
\* of the counterexample breaks all seven at once.
OnePromiseIsKept ==
    call.made =>
        \/ DeniedAsDocumented
        \/ AllowedAsDocumented
        \/ AuthAsDocumented
        \/ EmptyNameIsKept
        \/ OptionsWinForLogger
        \/ Airflow!ResultsInOrder
        \/ Airflow!CallIsOfOneConnection
=============================================================================

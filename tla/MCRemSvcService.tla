-------------------------- MODULE MCRemSvcService --------------------------
(* Instances of RemSvcMain, and with it RemSvcService, for TLC. *)
EXTENDS RemSvcMain, TLC

Hits(S) == [valid |-> TRUE,  hits |-> S]
Bad     == [valid |-> FALSE, hits |-> {}]
Open    == [allow |-> <<>>, deny |-> <<>>]

MCHashes   == {"h1", "h2"}
MCCrc      == [c \in Cmds |-> IF c = "b" THEN "h2" ELSE "h1"]
MCRequests == Request({Tid})

MCConfigs ==
    {Open,
     [allow |-> <<Hits({"a", "b"})>>, deny |-> <<Hits({"b"})>>],
     [allow |-> <<>>, deny |-> <<Bad>>]}

\* A ping and a command, each alone, none, a number of pings below zero, and the
\* options that end the program.
Client(args) == [args |-> args, DBGLVL |-> {}, appName |-> <<"client">>]
MCInputs ==
    {Client(a) : a \in {"ping" :> 1 @@ "cmd" :> "a", "ping" :> 1 @@ "cmd" :> "b", "cmd" :> "a", "ping" :> 2,
                        "ping" :> -1, "log-file" :> <<"no.log">>, "version" :> TRUE @@ "log-file" :> <<"a.log">>,
                        "tls" :> TRUE @@ "ca" :> <<"gone">>, "tls" :> TRUE @@ "cmd" :> "b"}}
    \cup {[Client("log-level" :> "warn") EXCEPT !.appName = <<"locked">>]}
MCFiles    == {<<"ca">>}
MCWritable == {<<"client", ".log">>}

CallSymmetry == Permutations(MainCalls) \cup Permutations(Calls \ MainCalls)
=============================================================================

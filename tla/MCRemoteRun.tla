---------------------------- MODULE MCRemoteRun ----------------------------
(* Instances of RemoteRun for TLC. *)
EXTENDS RemoteRunRefinement

Hits(S) == [valid |-> TRUE,  hits |-> S]
Bad     == [valid |-> FALSE, hits |-> {}]

MCCalls  == (0 .. MaxRestarts) \X (1 .. MaxAttempts)
MCHashes == {"h1", "h2"}
MCCrc    == [c \in Cmds |-> IF c = "c" THEN "h2" ELSE "h1"]

Open == [allow |-> <<>>, deny |-> <<>>]

\* No list; a denied first command; an allowlist that lacks the second command;
\* an invalid pattern in each list, with the other list permissive.
MCConfigs ==
    {Open,
     [allow |-> <<>>, deny |-> <<Hits({"c"}), Hits({"a"})>>],
     [allow |-> <<Hits({"a"})>>, deny |-> <<>>],
     [allow |-> <<Hits(Cmds), Bad>>, deny |-> <<>>],
     [allow |-> <<Hits(Cmds)>>, deny |-> <<Bad>>]}

OpenOnly == {Open}

Word(n) == CASE n = 1 -> "a" [] n = 2 -> "b" [] OTHER -> "c"

Good == [t \in Tids |-> [cmd |-> Word(t), wellTyped |-> TRUE]]

\* Every command well typed, or the template of one of them rendered to a value
\* protobuf refuses.
MCCommandLists == {Good} \cup {[Good EXCEPT ![t].wellTyped = FALSE] : t \in Tids}
GoodList       == {Good}
=============================================================================

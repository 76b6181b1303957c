---------------------------- MODULE MCCliStream ----------------------------
(* Instances of CliStream for TLC. *)
EXTENDS CliStream

Hits(S) == [valid |-> TRUE, hits |-> S]
Open    == [allow |-> <<>>, deny |-> <<>>]

MCCalls  == {Call}
MCHashes == {"h1", "h2"}
MCCrc    == [c \in Cmds |-> IF c = "b" THEN "h2" ELSE "h1"]

\* Open; the second command denied; only the first allowed.
MCConfigs == {Open, [allow |-> <<>>, deny |-> <<Hits({"b"})>>],
                    [allow |-> <<Hits({"a"})>>, deny |-> <<>>]}

\* With windows of one message three commands fit, and the others do not.
MCCommandLists == {<<"a", "b", "a">>, <<"a", "b", "a", "b">>, <<"a", "a", "a", "a", "b">>}
=============================================================================

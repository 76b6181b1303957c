-------------------------- MODULE MCRemSvcProvider --------------------------
(* Instances of RemSvcProvider for TLC. *)
EXTENDS RemSvcProvider

Version(host, port, ssl, caPath, token) ==
    [host |-> host, port |-> port, ssl |-> ssl, caPath |-> caPath, token |-> token]

\* A server reached without TLS, with TLS and a CA file (its port given), with
\* TLS and the system's certificates (use_ssl a text); another server; and a
\* record without a host.
MCVersions ==
    {Version("h", 0, "absent", TRUE, "x"), Version("h", 50051, "true", TRUE, ""),
     Version("h", 0, "text", FALSE, "y"), Version("g", 0, "true", TRUE, "x"),
     Version("", 0, "false", FALSE, "")}

Input(n, blank, id, metadata) ==
    [length |-> n, blank |-> blank, connId |-> id, metadata |-> metadata]

\* Nothing to run; a blank command; few commands on another connection; an
\* operator that brings authorization headers of its own, in either spelling.
MCInputs ==
    {Input(0, {}, "c", {}), Input(2, {2}, "c", {}), Input(9, {}, "d", {}),
     Input(2, {}, "c", {<<"Authorization", "z">>, <<"other", "o">>, <<"authorization", "z">>})}

MCSymmetry == Permutations(Tasks)
=============================================================================

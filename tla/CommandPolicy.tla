--------------------------- MODULE CommandPolicy ---------------------------
(***************************************************************************)
(* The admission control of RemSvcServiceImpl: the constructor, which      *)
(* compiles the regex lists, checkAllowed, and the two tests every command *)
(* passes before it reaches the runner (allowlist / denylist, then the     *)
(* optional CRC32 hash).                                                   *)
(*                                                                         *)
(* A regex is abstracted to whether std::regex accepts it and to the set   *)
(* of commands in which regex_search finds a match.                        *)
(***************************************************************************)
EXTENDS Sequences, Integers

CONSTANTS
    Cmds,     \* command strings
    Hashes,   \* CRC32 hex strings
    NoHash,   \* the empty hsh field
    Crc       \* crc32Hex: a function from Cmds to Hashes, not injective in general

ASSUME CrcAssumption == Crc \in [Cmds -> Hashes] /\ NoHash \notin Hashes

Pattern == [valid : BOOLEAN, hits : SUBSET Cmds]
Config  == [allow : Seq(Pattern), deny : Seq(Pattern)]

\* A request as the handlers read it.  cmdtyp, cmdusr and src only reach the
\* runner and the log.
Request(Tids) == [tid : Tids, cmd : Cmds, hsh : Hashes \cup {NoHash}]

-----------------------------------------------------------------------------
(* The constructor.  The first pattern that does not compile clears its    *)
(* list and sets m_denyAll; the other list is still compiled.              *)

Compiles(pats) == \A i \in DOMAIN pats : pats[i].valid

CompileList(pats) == IF Compiles(pats) THEN pats ELSE <<>>

\* Mutant of RemSvcServiceImpl: an invalid denylist does not set m_denyAll.
DenylistFailsOpen(config) ==
    [m_allowlist |-> CompileList(config.allow),
     m_denylist  |-> CompileList(config.deny),
     m_denyAll   |-> ~Compiles(config.allow)]

RemSvcServiceImpl(config) ==
    [m_allowlist |-> CompileList(config.allow),
     m_denylist  |-> CompileList(config.deny),
     m_denyAll   |-> ~Compiles(config.allow) \/ ~Compiles(config.deny)]

\* regex_search succeeds for some pattern of the compiled list.
Matches(list, cmd) == \E i \in DOMAIN list : cmd \in list[i].hits

checkAllowed(svc, cmd) ==
    /\ ~svc.m_denyAll
    /\ ~Matches(svc.m_denylist, cmd)
    /\ svc.m_allowlist = <<>> \/ Matches(svc.m_allowlist, cmd)

hashMatches(req) == req.hsh = NoHash \/ req.hsh = Crc[req.cmd]

\* What RemCmd and processStream decide about a request, in the code's order.
Verdict(config, req) ==
    IF ~checkAllowed(RemSvcServiceImpl(config), req.cmd) THEN "PERMISSION_DENIED"
    ELSE IF ~hashMatches(req) THEN "INVALID_ARGUMENT"
    ELSE "OK"

-----------------------------------------------------------------------------
(* The documented policy, stated over the configuration itself: no list    *)
(* has an invalid pattern, no deny pattern matches, and some allow pattern *)
(* matches unless none is configured.  Used by the properties only.        *)

Permitted(config, cmd) ==
    /\ \A p \in {config.allow[i] : i \in DOMAIN config.allow}
              \cup {config.deny[i] : i \in DOMAIN config.deny} : p.valid
    /\ \A i \in DOMAIN config.deny : cmd \notin config.deny[i].hits
    /\ Len(config.allow) > 0 =>
           \E i \in DOMAIN config.allow : cmd \in config.allow[i].hits
=============================================================================

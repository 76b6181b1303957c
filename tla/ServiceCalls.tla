---------------------------- MODULE ServiceCalls ----------------------------
(***************************************************************************)
(* What the handlers and the client functions compute from whole messages, *)
(* as operators: the sequential meaning of the code whose interleavings    *)
(* RemSvcService, ProcessStream and CliStream explore.  What the runner   *)
(* returns for a request is a parameter: ran = [rc, out, err].             *)
(* Output is [text, len, marked]: what was printed, how many bytes are     *)
(* kept of it, and whether the marker follows.                             *)
(***************************************************************************)
EXTENDS CommandPolicy

kMaxOutputBytes == 256 * 1024
kTruncationMarkerSize == 46

Output(text, len) == [text |-> text, len |-> len, marked |-> FALSE]

truncateOutput(s) ==
    IF s.len > kMaxOutputBytes THEN [s EXCEPT !.len = kMaxOutputBytes, !.marked = TRUE] ELSE s

Size(s) == s.len + (IF s.marked THEN kTruncationMarkerSize ELSE 0)

\* A request and the reply to it.
RemCmdMsg(cmd, cmdtyp, tid, hsh, cmdusr) ==
    [cmd |-> cmd, cmdtyp |-> cmdtyp, tid |-> tid, hsh |-> hsh, cmdusr |-> cmdusr]

RemResMsg(req, ran) ==
    [rc |-> ran.rc, tid |-> req.tid, out |-> truncateOutput(ran.out), err |-> truncateOutput(ran.err),
     hsh |-> req.hsh]

-----------------------------------------------------------------------------
(* The server.  `runs` lists the requests that reached the runner.         *)

Ping(ping) == [seq |-> ping.seq, time |-> ping.time, data |-> ping.data]

GetStatus(executed) == [rc |-> 0, state |-> "OK", commands |-> executed]

RemCmd(config, req, ran) ==
    LET verdict == Verdict(config, req)
    IN  [status |-> verdict,
         runs   |-> IF verdict = "OK" THEN <<req>> ELSE <<>>,
         res    |-> IF verdict = "OK" THEN <<RemResMsg(req, ran)>> ELSE <<>>]

\* The requests up to the first one that is refused, in order; its verdict is the
\* status of the call.  ran[i] is the result of the i-th request, if it is run.
processStream(config, requests, ran) ==
    LET refused == {i \in DOMAIN requests : Verdict(config, requests[i]) # "OK"}
        first   == CHOOSE i \in refused : \A j \in refused : i <= j
        runs    == IF refused = {} THEN requests ELSE SubSeq(requests, 1, first - 1)
    IN  [status |-> IF refused = {} THEN "OK" ELSE Verdict(config, requests[first]),
         runs   |-> runs,
         res    |-> [i \in DOMAIN runs |-> RemResMsg(runs[i], ran[i])]]

-----------------------------------------------------------------------------
(* The client: the messages it sends, and what it makes of the answer.     *)

doPingResult(status, pong) ==
    IF status = "OK" THEN [ok |-> TRUE, seqEcho |-> pong.seq] ELSE [ok |-> FALSE, seqEcho |-> 0]

doGetStatusResult(status, res) ==
    IF status = "OK" THEN [ok |-> TRUE, rc |-> res.rc] ELSE [ok |-> FALSE, rc |-> -1]

doRemCmdRequest(cmd, cmdtyp, tid, cmdusr) == RemCmdMsg(cmd, cmdtyp, tid, Crc[cmd], cmdusr)

doRemCmdResult(status, rc) == IF status = "OK" THEN rc ELSE 1

doRemCmdStrmRequests(cmds, cmdtyp, cmdusr) ==
    [i \in DOMAIN cmds |-> RemCmdMsg(cmds[i], cmdtyp, i, Crc[cmds[i]], cmdusr)]

doRemCmdStrmResult(status) == IF status = "OK" THEN 0 ELSE 1
=============================================================================

--------------------------- MODULE RemSvcProvider ---------------------------
(***************************************************************************)
(* The Airflow side of RemSvc with several tasks at once: RemSvcOperator,  *)
(* whose execute() defers to a trigger and whose execute_complete() makes  *)
(* an XCom of its event, and RemSvcHook, through which the triggers of one *)
(* triggerer process share the channels of a module-level pool.            *)
(*                                                                         *)
(* What happens on a stream is the subject of RemoteRun; here a call ends  *)
(* with one of the events that RemoteRun allows.  Airflow's connections    *)
(* may be edited and CA files replaced while triggers run.                 *)
(***************************************************************************)
EXTENDS Integers, Sequences, SequencesExt, FiniteSets

CONSTANTS
    Tasks,
    Inputs,        \* what a task may be given: [length, blank, connId, metadata]
    ConnIds,
    Versions,      \* the records a connection may consist of, see Connections
    CaContents,    \* what a CA file may contain
    EmptyFile,     \* the content of an empty file, which CaContents may hold or not
    NoCa,          \* _ca_cert() returned None
    Unread,        \* _ca_cert_cache is False
    NoConn,        \* there is no such connection, or none was read yet
    MaxAttempts,   \* _MAX_ATTEMPTS
    MaxEdits,      \* bound on edits of connections and CA files
    MaxFaults      \* bound on channels shut down and on triggerer deaths

DefaultPort == 50051

\* A host of "" and a port of 0 stand for None as well; so does a token of "".
\* ssl is what the extra field holds: absent, a JSON boolean or a text.
Connections ==
    [host : STRING, port : Nat, ssl : {"absent", "false", "true", "text"},
     caPath : BOOLEAN, token : STRING]

ASSUME ProviderAssumption ==
    /\ Versions \subseteq Connections /\ NoConn \notin Versions
    /\ {NoCa, Unread, ""} \cap (CaContents \cup {EmptyFile}) = {} /\ NoCa # Unread
    /\ \A i \in Inputs : /\ i.length \in 0 .. 99 /\ i.blank \subseteq 1 .. i.length
                         /\ i.connId \in ConnIds
                         /\ i.metadata \subseteq STRING \X STRING
    /\ MaxAttempts \in Nat \ {0} /\ MaxEdits \in Nat /\ MaxFaults \in Nat

VARIABLES
    input,      \* input[t]: the operator's arguments, as rendered
    proto,      \* _PROTO_AVAILABLE on the worker and in the triggerer
    status,     \* status[t]: where the task is
    attempt,    \* attempt[t]: loop variable of run()
    hook,       \* hook[t]: _conn and _ca_cert_cache of the trigger's hook
    call,       \* call[t]: channel and metadata of the call that is open
    event,      \* event[t]: the event, while it is stored between triggerer and worker
    xcom,       \* xcom[t]: the results of a task that succeeded
    channels,   \* every channel created: its parameters and its state
    pool,       \* _async_channel_pool: key -> index in channels
    conns,      \* the connections in Airflow's database
    caFile,     \* content of the CA file, or "unreadable"
    edits, faults

taskVars    == <<input, proto, status, event, xcom>>
triggerVars == <<attempt, hook, call>>
poolVars    == <<channels, pool>>
envVars     == <<conns, caFile, edits, faults>>
vars        == <<taskVars, triggerVars, poolVars, envVars>>

NewHook == [conn |-> NoConn, ca |-> Unread]
NoCall  == [channel |-> 0, metadata |-> {}]
NoEvent == [state |-> "none", results |-> <<>>]

Init ==
    /\ input \in [Tasks -> Inputs]
    /\ proto \in [worker : BOOLEAN, triggerer : BOOLEAN]
    /\ status  = [t \in Tasks |-> "scheduled"]
    /\ attempt = [t \in Tasks |-> 1]
    /\ hook    = [t \in Tasks |-> NewHook]
    /\ call    = [t \in Tasks |-> NoCall]
    /\ event   = [t \in Tasks |-> NoEvent]
    /\ xcom    = [t \in Tasks |-> <<>>]
    /\ channels = <<>> /\ pool = <<>>
    /\ conns \in [ConnIds -> Versions \cup {NoConn}]
    /\ caFile \in CaContents \cup {"unreadable"}
    /\ edits = 0 /\ faults = 0

-----------------------------------------------------------------------------
(* RemSvcOperator on a worker.                                             *)

\* execute(): validate, then defer.
execute(t) ==
    /\ status[t] = "scheduled"
    /\ status' = [status EXCEPT ![t] =
          IF proto.worker /\ input[t].length > 0 /\ input[t].blank = {}
          THEN "deferred" ELSE "failed"]
    /\ UNCHANGED <<input, proto, event, xcom, triggerVars, poolVars, envVars>>

\* The text of a number, and the order Python gives to texts.
Text(n) == IF n < 10 THEN <<n>> ELSE <<n \div 10, n % 10>>

TextLess(a, b) ==
    \/ \E k \in DOMAIN a \cap DOMAIN b : a[k] < b[k] /\ \A j \in 1 .. k - 1 : a[j] = b[j]
    \/ IsStrictPrefix(a, b)

\* Mutant of DefaultResultHandler: the order is reversed.
HandleDescending(results) ==
    LET rank(key) == 1 + Cardinality({k \in DOMAIN results : TextLess(key, k)})
    IN  [i \in 1 .. Cardinality(DOMAIN results) |->
            results[CHOOSE key \in DOMAIN results : rank(key) = i]]

\* _default_result_handler: the values in the order of their keys.
DefaultResultHandler(results) ==
    LET rank(key) == 1 + Cardinality({k \in DOMAIN results : TextLess(k, key)})
    IN  [i \in 1 .. Cardinality(DOMAIN results) |->
            results[CHOOSE key \in DOMAIN results : rank(key) = i]]

\* Mutant of execute_complete: the state of the event is not looked at.
CompleteAnyway(t) ==
    /\ status[t] = "fired"
    /\ status' = [status EXCEPT ![t] = "success"]
    /\ xcom'   = [xcom EXCEPT ![t] = DefaultResultHandler(event[t].results)]
    /\ event'  = [event EXCEPT ![t] = NoEvent]
    /\ UNCHANGED <<input, proto, triggerVars, poolVars, envVars>>

\* execute_complete(): any state but SUCCESS raises; otherwise the handled
\* results become the XCom.
execute_complete(t) ==
    /\ status[t] = "fired"
    /\ LET ok == event[t].state = "SUCCESS" IN
       /\ status' = [status EXCEPT ![t] = IF ok THEN "success" ELSE "failed"]
       /\ xcom'   = IF ok THEN [xcom EXCEPT ![t] = DefaultResultHandler(event[t].results)] ELSE xcom
    /\ event'  = [event EXCEPT ![t] = NoEvent]
    /\ UNCHANGED <<input, proto, triggerVars, poolVars, envVars>>

-----------------------------------------------------------------------------
(* RemSvcTrigger.run(), as far as it concerns the hook.                    *)

\* yield TriggerEvent: Airflow stores the event as JSON, where the keys of a
\* mapping are texts, and resumes the task on a worker; the trigger is dropped.
Yield(t, state, tids) ==
    /\ event'  = [event EXCEPT ![t] = [state   |-> state,
                      results |-> [k \in {Text(i) : i \in tids} |-> CHOOSE i \in tids : Text(i) = k]]]
    /\ status' = [status EXCEPT ![t] = "fired"]
    /\ call'   = [call EXCEPT ![t] = NoCall]
    /\ hook'   = [hook EXCEPT ![t] = NewHook]
    /\ attempt' = [attempt EXCEPT ![t] = 1]
    /\ UNCHANGED <<input, proto, xcom>>

NoStubs(t) ==
    /\ status[t] = "deferred" /\ ~proto.triggerer
    /\ Yield(t, "FAILED", {})
    /\ UNCHANGED <<poolVars, envVars>>

\* get_async_conn: the only await before the call is opened, and only when the
\* hook holds no connection yet.  An unknown connection raises.
get_async_conn(t) ==
    /\ status[t] = "deferred" /\ proto.triggerer /\ hook[t].conn = NoConn
    /\ LET conn == conns[input[t].connId] IN
       \/ /\ conn # NoConn
          /\ hook' = [hook EXCEPT ![t].conn = conn]
          /\ status' = [status EXCEPT ![t] = "open"]
          /\ UNCHANGED <<input, proto, event, xcom, call, attempt>>
       \/ conn = NoConn /\ Yield(t, "FAILED", {})
    /\ UNCHANGED <<poolVars, envVars>>

target(conn) == <<conn.host, IF conn.port = 0 THEN DefaultPort ELSE conn.port>>

\* bool(extra.get("use_ssl", False)): a text is true, "false" included.
use_ssl(conn) == conn.ssl \in {"true", "text"}

\* The CA file is looked at when TLS is on, once per hook.
ca_cert(t) ==
    IF ~use_ssl(hook[t].conn) \/ ~hook[t].conn.caPath THEN NoCa
    ELSE IF hook[t].ca = Unread THEN caFile ELSE hook[t].ca

\* Mutant of channel_pool_key: the CA certificate is left out.
KeyWithoutCa(tgt, ssl, ca) == <<tgt, ssl, "">>

\* The digest of the certificate, "" for none and for an empty one.
channel_pool_key(tgt, ssl, ca) ==
    <<tgt, ssl, IF ca \in {NoCa, EmptyFile} THEN "" ELSE ca>>

\* A cached channel is given out unless it reached SHUTDOWN or get_state() raises.
Reusable(key) == key \in DOMAIN pool /\ channels[pool[key]].state = "USABLE"

\* Mutant of CreateChannel: the new channel is not put into the pool.
CreateUnpooled(key, tgt, ssl, ca) ==
    /\ channels' = Append(channels, [target |-> tgt, ssl |-> ssl, ca |-> ca, state |-> "USABLE"])
    /\ UNCHANGED pool

CreateChannel(key, tgt, ssl, ca) ==
    /\ channels' = Append(channels, [target |-> tgt, ssl |-> ssl, ca |-> ca, state |-> "USABLE"])
    /\ pool' = [k \in DOMAIN pool \cup {key} |-> IF k = key THEN Len(channels) + 1 ELSE pool[k]]

\* Mutant of call_metadata: keys are compared as they are written.
MetadataCaseSensitive(conn, metadata) ==
    IF conn.token = "" THEN metadata
    ELSE {<<"authorization", conn.token>>} \cup {m \in metadata : m[1] # "authorization"}

lower(k) == IF k = "Authorization" THEN "authorization" ELSE k

\* The connection's token, if it has one, replaces the operator's.  Metadata is
\* a set of entries: gRPC gives no meaning to the order of different keys.
call_metadata(conn, metadata) ==
    IF conn.token = "" THEN metadata
    ELSE {<<"authorization", conn.token>>} \cup {m \in metadata : lower(m[1]) # "authorization"}

\* From the resolved connection to the open call there is no await: what the
\* pool says is still true when the call is started.
OpenCall(t) ==
    /\ status[t] = "open" /\ hook[t].conn.host # "" /\ ca_cert(t) # "unreadable"
    /\ LET tgt == target(hook[t].conn)
           ssl == use_ssl(hook[t].conn)
           ca  == ca_cert(t)
           key == channel_pool_key(tgt, ssl, ca)
           md  == call_metadata(hook[t].conn, input[t].metadata)
       IN  \/ /\ Reusable(key)
              /\ call' = [call EXCEPT ![t] = [channel |-> pool[key], metadata |-> md]]
              /\ UNCHANGED poolVars
           \/ /\ ~Reusable(key)
              /\ CreateChannel(key, tgt, ssl, ca)
              /\ call' = [call EXCEPT ![t] = [channel |-> Len(channels) + 1, metadata |-> md]]
    /\ hook'   = [hook EXCEPT ![t].ca = IF use_ssl(hook[t].conn) THEN ca_cert(t) ELSE @]
    /\ status' = [status EXCEPT ![t] = "streaming"]
    /\ UNCHANGED <<input, proto, event, xcom, attempt, envVars>>

\* No host, or the CA file cannot be read: AirflowException.
OpenFails(t) ==
    /\ status[t] = "open"
    /\ hook[t].conn.host = "" \/ ca_cert(t) = "unreadable"
    /\ Yield(t, "FAILED", {})
    /\ UNCHANGED <<poolVars, envVars>>

\* The attempt ended: with all results, or failed with none, some or all.
StreamAnalysed(t) ==
    /\ status[t] = "streaming"
    /\ LET n == input[t].length IN
       \/ Yield(t, "SUCCESS", 1 .. n)
       \/ \E k \in {0, 1, n} : Yield(t, "FAILED", 1 .. k)
    /\ UNCHANGED <<poolVars, envVars>>

\* A transient error before any write, with attempts left: back off and open
\* another call with the same hook.
RetryCall(t) ==
    /\ status[t] = "streaming" /\ attempt[t] < MaxAttempts
    /\ attempt' = [attempt EXCEPT ![t] = @ + 1]
    /\ call'    = [call EXCEPT ![t] = NoCall]
    /\ status'  = [status EXCEPT ![t] = "open"]
    /\ UNCHANGED <<input, proto, event, xcom, hook, poolVars, envVars>>

\* stream_timeout runs out, before or after the call was opened.
TimesOut(t) ==
    /\ \/ status[t] = "deferred" /\ proto.triggerer
       \/ status[t] \in {"open", "streaming"}
    /\ Yield(t, "CANCELLED", {})
    /\ UNCHANGED <<poolVars, envVars>>

-----------------------------------------------------------------------------
(* The surroundings.                                                       *)

\* Somebody edits or deletes a connection, or replaces the CA file.
Edit ==
    /\ edits < MaxEdits /\ edits' = edits + 1
    /\ \/ /\ \E id \in ConnIds, v \in Versions \cup {NoConn} : v # conns[id] /\ conns' = [conns EXCEPT ![id] = v]
          /\ UNCHANGED caFile
       \/ /\ \E c \in CaContents \cup {"unreadable"} : c # caFile /\ caFile' = c
          /\ UNCHANGED conns
    /\ UNCHANGED <<taskVars, triggerVars, poolVars, faults>>

\* A channel reaches SHUTDOWN, or its state can no longer be read.  Calls on it
\* end as any others do, see StreamAnalysed and RetryCall.
ChannelBreaks(i) ==
    /\ faults < MaxFaults /\ faults' = faults + 1
    /\ channels[i].state = "USABLE"
    /\ \E s \in {"SHUTDOWN", "UNREADABLE"} : channels' = [channels EXCEPT ![i].state = s]
    /\ UNCHANGED <<taskVars, triggerVars, pool, conns, caFile, edits>>

\* The triggerer dies with its pool, its channels and its hooks; the triggers
\* that have not fired are rebuilt from serialize().
TriggererRestarts ==
    /\ faults < MaxFaults /\ faults' = faults + 1
    /\ \E t \in Tasks : status[t] \in {"deferred", "open", "streaming"}
    /\ status'   = [t \in Tasks |-> IF status[t] \in {"open", "streaming"} THEN "deferred" ELSE status[t]]
    /\ attempt'  = [t \in Tasks |-> 1]
    /\ hook'     = [t \in Tasks |-> NewHook]
    /\ call'     = [t \in Tasks |-> NoCall]
    /\ channels' = <<>> /\ pool' = <<>>
    /\ UNCHANGED <<input, proto, event, xcom, conns, caFile, edits>>

TaskStep(t) ==
    \/ execute(t) \/ execute_complete(t)
    \/ NoStubs(t) \/ get_async_conn(t) \/ OpenCall(t) \/ OpenFails(t)
    \/ StreamAnalysed(t) \/ RetryCall(t) \/ TimesOut(t)

Next ==
    \/ \E t \in Tasks : TaskStep(t)
    \/ Edit \/ TriggererRestarts
    \/ \E i \in DOMAIN channels : ChannelBreaks(i)

Spec == Init /\ [][Next]_vars

-----------------------------------------------------------------------------
(* Properties.                                                             *)

InTriggerer == {t \in Tasks : status[t] = "streaming"}

\* What the pool tells apart of a CA file: an empty one is none.
Trust(ca) == IF ca = EmptyFile THEN NoCa ELSE ca

AuthHeaders(metadata) == {m \in metadata : lower(m[1]) = "authorization"}

\* A call goes to the server, over the transport and with the one bearer token
\* of the connection its own trigger has read, and trusts the CA file which that
\* trigger has read or, without a ca_cert_path, the system's store and nothing
\* else: whatever was edited meanwhile, whichever trigger of whichever connection
\* opened the channel.  (_channel_pool_key, _call_metadata and the two caches of
\* the hook; src/README.md:376 and hooks/remsvc.py:15-17 promise the store.)
CallIsOfOneConnection ==
    \A t \in InTriggerer :
        LET conn == hook[t].conn
            ch   == channels[call[t].channel]
        IN  /\ ch.target = target(conn) /\ ch.ssl = use_ssl(conn)
            /\ ch.ssl => ch.ca = IF conn.caPath THEN hook[t].ca ELSE NoCa
            /\ AuthHeaders(call[t].metadata) =
                   IF conn.token # "" THEN {<<"authorization", conn.token>>}
                   ELSE AuthHeaders(input[t].metadata)

\* Triggers with the same target, transport and trust share one channel: a
\* second one is created only when the first was shut down or stopped
\* answering (get_async_channel and _get_pooled_channel).
ChannelIsShared ==
    \A i, j \in DOMAIN channels :
        /\ i < j
        /\ channels[i].target = channels[j].target /\ channels[i].ssl = channels[j].ssl
        /\ Trust(channels[i].ca) = Trust(channels[j].ca)
        => channels[i].state # "USABLE"

\* A task succeeds only with one result for each of its commands, and no other
\* task leaves an XCom (execute_complete).
XComIsExact ==
    \A t \in Tasks :
        IF status[t] = "success"
        THEN /\ Len(xcom[t]) = input[t].length
             /\ ToSet(xcom[t]) = 1 .. input[t].length
        ELSE xcom[t] = <<>>

InOrder(results) == \A i, j \in DOMAIN results : i < j => results[i] < results[j]

\* Fewer than ten results are in the order of the commands, although they are
\* sorted by the texts that their numbers became (_default_result_handler).
OrderedBelowTen ==
    \A t \in Tasks : status[t] = "success" /\ input[t].length < 10 => InOrder(xcom[t])

\* Results are always in the order of the commands, as src/README.md:416 has it.
\* The stored keys are texts, and "10" sorts before "2".
ResultsInOrder ==
    \A t \in Tasks : status[t] = "success" => InOrder(xcom[t])
=============================================================================

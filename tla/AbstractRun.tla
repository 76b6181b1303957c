---------------------------- MODULE AbstractRun ----------------------------
(***************************************************************************)
(* What a task may rely on when it hands a list of commands to RemSvc,     *)
(* without calls, attempts, coroutines or handlers: the commands start in  *)
(* order, one at a time, each at most once, and none from the first one    *)
(* that the policy forbids; one report is made, and a report with results  *)
(* is made after all of them have ended and gives their exit codes.  A     *)
(* report without results promises nothing: commands may still start.      *)
(***************************************************************************)
EXTENDS Integers

VARIABLES
    task,     \* [size, permitted]: commands in the list, the numbers of the permitted ones
    times,    \* times[t]: how often command t was started
    codes,    \* codes[t]: the exit codes it ended with, {} before that
    report    \* [state, codes]; no codes in a report without results

vars == <<task, times, codes, report>>

Numbers == 1 .. task.size

NoCodes == [t \in Numbers |-> {}]

NoReport == [state |-> "none", codes |-> NoCodes]

Init ==
    /\ task.size \in Nat /\ task.permitted \subseteq Numbers
    /\ times = [t \in Numbers |-> 0]
    /\ codes = NoCodes
    /\ report = NoReport

Begin(t) ==
    /\ times[t] = 0 /\ 1 .. t \subseteq task.permitted
    /\ \A s \in 1 .. t - 1 : times[s] = 1 /\ codes[s] # {}
    /\ times' = [times EXCEPT ![t] = 1]
    /\ UNCHANGED <<task, codes, report>>

End(t, rc) ==
    /\ times[t] = 1 /\ codes[t] = {}
    /\ codes' = [codes EXCEPT ![t] = {rc}]
    /\ UNCHANGED <<task, times, report>>

ReportResults ==
    /\ report = NoReport /\ \A t \in Numbers : times[t] = 1 /\ codes[t] # {}
    /\ report' = [state |-> IF \A t \in Numbers : codes[t] = {0} THEN "SUCCESS" ELSE "FAILED",
                  codes |-> codes]
    /\ UNCHANGED <<task, times, codes>>

ReportFailure ==
    /\ report = NoReport
    /\ \E state \in {"FAILED", "CANCELLED"} : report' = [state |-> state, codes |-> NoCodes]
    /\ UNCHANGED <<task, times, codes>>

Next ==
    \/ \E t \in Numbers : Begin(t) \/ \E rc \in {0, 1} : End(t, rc)
    \/ ReportResults \/ ReportFailure

Spec == Init /\ [][Next]_vars
=============================================================================

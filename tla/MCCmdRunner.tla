---------------------------- MODULE MCCmdRunner ----------------------------
(* Instances of CmdRunner for TLC. *)
EXTENDS CmdRunner, SequencesExt

CONSTANT MaxSteps   \* longest program

\* Every program of up to MaxSteps steps, ending well, badly or never.
MCPrograms ==
    [steps : BoundedSeq(Channels \cup {"stdin"}, MaxSteps), exit : {0, 3}, hangs : BOOLEAN]
=============================================================================

----------------------------- MODULE MCProcTree -----------------------------
(***************************************************************************)
(* ProcTree with a history variable that tells orderly behaviours, in      *)
(* which the family lists are exact, from the others.  Orderly: no process *)
(* has ended while its parent lived and was not in wait, and none has been *)
(* killed for an unknown system call, after which it runs on.              *)
(***************************************************************************)
EXTENDS ProcTree

CONSTANTS
  WildPid,      \* bound: the last pid of behaviours that are not orderly,
  WildSlots     \* and the number of slots that they use

VARIABLE orderly

mcvars == <<procs, curproc, g_pid, halted, reaped, orderly>>

Early == LET par == procs[curproc].parent IN par # NULL /\ ~procs[par].waiting

Bounded ==
  orderly' \/ (g_pid' <= WildPid /\ \A s \in Slots : s >= WildSlots => procs'[s].state = "CLOSE")

(* The running process ends, early or not.                                 *)
Ends(A) == A /\ orderly' = (orderly /\ ~Early) /\ Bounded

MCInit == Init /\ orderly = TRUE

MCNext ==
  \/ Timer /\ UNCHANGED orderly
  \/ Fork /\ UNCHANGED orderly /\ Bounded
  \/ ForkTableFull /\ UNCHANGED orderly
  \/ \E v \in ExitVals : Ends(Exit(v))
  \/ Ends(Fault)
  \/ Ends(ExitHangs)
  \/ UnknownSyscall /\ orderly' = FALSE /\ Bounded
  \/ WaitReap /\ UNCHANGED orderly
  \/ WaitPanics /\ UNCHANGED orderly
  \/ WaitNoChild /\ UNCHANGED orderly
  \/ WaitSleep /\ UNCHANGED orderly

MCSpec == MCInit /\ [][MCNext]_mcvars /\ WF_mcvars(Timer /\ UNCHANGED orderly)

(***************************************************************************)
(* In orderly behaviours the living lists are exact: see LivingListExact   *)
(* (sys_fork, exit_as_child).                                              *)
(***************************************************************************)
OrderlyLists == orderly => LivingListExact

(***************************************************************************)
(* In orderly behaviours nobody sleeps in wait without a living child: see *)
(* WaiterHasLivingChild (sys_wait).                                        *)
(***************************************************************************)
OrderlyWaits == orderly => WaiterHasLivingChild

(***************************************************************************)
(* In orderly behaviours wait reports the end of a child of the caller:    *)
(* see WaitReportsOwnChild (sys_wait, exit_as_child).                      *)
(***************************************************************************)
OrderlyReports == orderly => WaitReportsOwnChild
=============================================================================

------------------------------ MODULE Schedulers ------------------------------
(* The three schedulers side by side.  One of them is chosen when the       *)
(* kernel is built: sched says which, and the state of the others stays as  *)
(* it is at the start.                                                      *)
EXTENDS KernelThreads

CONSTANTS
    Scheds,             \* the schedulers considered
    MaxDeadline,        \* of EdfScheduler
    ControlThreads,     \* the threads of ControlScheduler
    ControlPriority     \* and its PRIORITY_MAX - 1

VARIABLES
    sched,
    list, deadline, edfFlags, edfCur, edfPaused, edfSkew, edfDeleted, edfAt, overlooked,
    threadList, SP_Tr, alfa, curInRound, priority, ctlFlags, ctlCur, ctlPaused,
    ctlSkew, ctlDeleted, ctlAt

edfVars == <<list, deadline, edfFlags, edfCur, edfPaused, edfSkew, edfDeleted,
             edfAt, overlooked>>
ctlVars == <<threadList, SP_Tr, alfa, curInRound, priority, ctlFlags, ctlCur,
             ctlPaused, ctlSkew, ctlDeleted, ctlAt>>

EDF == INSTANCE EdfScheduler WITH
    Thread <- Slot, flags <- edfFlags, cur <- edfCur, kernel_running <- edfPaused,
    tick_skew <- edfSkew, exist_deleted <- edfDeleted, at <- edfAt

Control == INSTANCE ControlScheduler WITH
    Thread <- ControlThreads, None <- NoThread, MaxPriority <- ControlPriority,
    flags <- ctlFlags, cur <- ctlCur, kernel_running <- ctlPaused,
    tick_skew <- ctlSkew, exist_deleted <- ctlDeleted, at <- ctlAt

ASSUME SchedulerAssumptions == EDF!SchedulerAssumption /\ Control!SchedulerAssumption

SchedulersInit == sched \in Scheds /\ Init /\ EDF!Init /\ Control!Init

SchedulersNext ==
    \/ sched = "PRIORITY" /\ Next /\ UNCHANGED <<sched, edfVars, ctlVars>>
    \/ sched = "EDF" /\ EDF!Next /\ UNCHANGED <<sched, vars, ctlVars>>
    \/ sched = "CONTROL" /\ Control!Next /\ UNCHANGED <<sched, vars, edfVars>>

SchedulersSpec == SchedulersInit /\ [][SchedulersNext]_<<sched, vars, edfVars, ctlVars>>
SchedulersFairSpec ==
    /\ SchedulersSpec
    /\ (sched = "PRIORITY" /\ Fairness) \/ (sched = "CONTROL" /\ Control!Fairness)

-----------------------------------------------------------------------------
(* See the modules of the schedulers for what these say.                    *)
EarliestRuns == EDF!EarliestRuns
PlaceInRound == Control!PlaceInRound
RegulatorsAgree == Control!RegulatorsAgree
EveryRound == sched = "CONTROL" => Control!EveryRound

(* RoundRobin of KernelThreads, in a kernel with that scheduler.            *)
PriorityRoundRobin == sched = "PRIORITY" => RoundRobin

=============================================================================

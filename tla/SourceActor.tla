---------------------------- MODULE SourceActor ----------------------------
(***************************************************************************)
(* The SourceActor of quickwit-indexing/src/source/mod.rs: an AsyncActor   *)
(* wrapping a Source, driven by `Loop` messages it sends to itself.        *)
(* `initialize` initializes the source and runs one iteration inline; each *)
(* iteration emits batches and sends the next `Loop`; an exit status from  *)
(* any call ends the actor, whose `finalize` finalizes the source.  A     *)
(* `Loop` can only be built by this module (PrivateToken), so the self     *)
(* messages are the only `Loop`s in the mailbox.  The actor runtime (one   *)
(* message at a time, finalize after exit, kill between messages) follows  *)
(* the contract written in the Source trait's documentation.               *)
(***************************************************************************)
EXTENDS Naturals

CONSTANTS
    MaxIterations, \* bound: the runtime handles at most this many Loops
    ExitStatuses,  \* the ActorExitStatus values a call may return
    Killed,        \* ActorExitStatus::Killed, set by the runtime's kill switch
    NoStatus       \* no exit status yet

ASSUME /\ MaxIterations \in Nat \ {0}
       /\ Killed \notin ExitStatuses
       /\ NoStatus \notin ExitStatuses \cup {Killed}

VARIABLES
    phase,       \* "init", "loop" (between messages), "exited", "finalized"
    pending,     \* number of Loop messages in the actor's mailbox
    iterations,  \* emit_batches calls so far
    exitStatus,  \* the status the actor exited with
    finalized    \* number of source.finalize calls

vars == <<phase, pending, iterations, exitStatus, finalized>>

Exit(status) ==
    /\ phase' = "exited"
    /\ exitStatus' = status

\* One process_message body (lines 151-152) with p Loop messages left in
\* the mailbox: emit_batches, then the self Loop; an exit status from
\* either call, returned by `?`, ends the actor.
Iterate(p) ==
    /\ iterations' = iterations + 1
    /\ \/ \E st \in ExitStatuses : Exit(st) /\ pending' = p
       \/ /\ phase' = "loop" /\ pending' = p + 1
          /\ UNCHANGED exitStatus

Init ==
    /\ phase = "init"
    /\ pending = 0
    /\ iterations = 0
    /\ exitStatus = NoStatus
    /\ finalized = 0

\* Fault variant: initialize also queues a first Loop besides running one.
InitializeAlsoSends ==
    /\ phase = "init"
    /\ \/ /\ \E st \in ExitStatuses : Exit(st)
          /\ UNCHANGED <<pending, iterations>>
       \/ Iterate(pending + 1)
    /\ UNCHANGED finalized
\* Lines 140-144: source.initialize, then one iteration run inline.
Initialize ==
    /\ phase = "init"
    /\ \/ /\ \E st \in ExitStatuses : Exit(st)
          /\ UNCHANGED <<pending, iterations>>
       \/ Iterate(pending)
    /\ UNCHANGED finalized

\* Lines 146-154: the runtime takes the Loop message and handles it.  The
\* model stops scheduling emits at MaxIterations; a source still looping
\* then can only be killed.
ProcessMessage ==
    /\ phase = "loop"
    /\ pending > 0
    /\ iterations < MaxIterations
    /\ Iterate(pending - 1)
    /\ UNCHANGED finalized

\* The actor is killed between two messages (the runtime's kill switch).
Kill ==
    /\ phase = "loop"
    /\ Exit(Killed)
    /\ UNCHANGED <<pending, iterations, finalized>>

\* Fault variant: finalize runs but the actor is not marked finalized.
FinalizeRepeated ==
    /\ phase = "exited"
    /\ finalized' = finalized + 1
    /\ UNCHANGED <<phase, pending, iterations, exitStatus>>
\* Lines 156-163: after the actor exits, source.finalize with its status.
Finalize ==
    /\ phase = "exited"
    /\ phase' = "finalized"
    /\ finalized' = finalized + 1
    /\ UNCHANGED <<pending, iterations, exitStatus>>

Next == Initialize \/ ProcessMessage \/ Kill \/ Finalize

\* The runtime handles every queued message and finalizes every exited
\* actor; nobody is obliged to kill it.
Spec == Init /\ [][Next]_vars
             /\ WF_vars(Initialize) /\ WF_vars(ProcessMessage) /\ WF_vars(Finalize)

-----------------------------------------------------------------------------
TypeOK ==
    /\ phase \in {"init", "loop", "exited", "finalized"}
    /\ pending \in Nat
    /\ iterations \in 0..MaxIterations
    /\ exitStatus \in ExitStatuses \cup {Killed, NoStatus}
    /\ finalized \in {0, 1}

\* The self-message protocol: while the actor loops, exactly one Loop is in
\* its mailbox.  None would stall the source for ever; two would make it
\* emit twice per turn and leave a Loop behind after every exit.
OneLoopInFlight ==
    /\ phase = "loop" => pending = 1
    /\ phase \in {"init", "exited", "finalized"} => pending <= 1

=============================================================================

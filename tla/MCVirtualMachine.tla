-------------------------- MODULE MCVirtualMachine --------------------------
(***************************************************************************)
(* VirtualMachine.tla for TLC.  The disciplines of the application are     *)
(* given in the configurations, as values of Calls.                        *)
(***************************************************************************)
EXTENDS VMCorrectness

\* The application of the run on waiters releases what it acquires; it has no
\* files.
ReleasingSpec == Spec /\ TimerFairness /\ ReleasingApplication

\* For the run on replies that are held: the child answers every request, its
\* signal is delivered whenever the mask opens often enough, and each handler
\* that runs again and again, with the processor to itself, gets to its callback.
FinishingSpec ==
  /\ FairSpec
  /\ \A t \in User : SF_vars(MachineReplySignalHandler(t))
  /\ \A u \in Thread : SF_vars(cur = u /\ MachineFileIOCallback)

=============================================================================

---- MODULE LaunchWaitsProofs ----
(***************************************************************************)
(* Theorems about LaunchWaits, for any number of host keys the VM goes     *)
(* through, with and without a full disk.  None of them needs fairness:    *)
(* they say what an interrupt, a deadline or another VM can never lead to. *)
(***************************************************************************)
EXTENDS LaunchWaits, TLAPS

\* The actions by what they are about.
Drawing == Begin \/ Frame \/ CloseDone \/ SpinnerStops

Running ==
    \/ StartChild \/ StartFails \/ Reap \/ Signal \/ GraceEnds \/ ReapSignalled
    \/ ChildDies \/ \E ok \in BOOLEAN : ChildExits(ok)

Dials ==
    \/ Connect \/ VerifyHostKey \/ PinFails \/ HandshakeFails \/ AttemptBreaks
    \/ GiveUp \/ Rest \/ Again
    \/ \E ok \in BOOLEAN : Configure(ok) \/ Authenticate(ok)

Commands ==
    \/ OpenSession \/ CloseSession \/ ConnectionBreaks \/ CommandReturns
    \/ \E ok \in BOOLEAN : CommandEnds(ok)

World == Interrupt \/ Expire \/ PeerChanges

\* Every step is of one of these kinds, or ends a step or the launch.
LEMMA Kinds ==
    ASSUME [Next]_vars
    PROVE  Drawing \/ Finish \/ FailLaunch \/ MarkReady \/ Running \/ Dials
           \/ Commands \/ World \/ UNCHANGED vars
BY DEF Next, Process, Drawing, Running, Dials, Commands, World

\* A child is waited for, a remote command too, each by a step of its kind;
\* between the steps nothing is.
ChildInv ==
    /\ child # "none" => step \in Terraform /\ at \in {"waiting", "grace", "killed"}
    /\ remote # "none" => step \in Remote /\ at = "waiting"
    /\ step \notin Waits => at = "start"

\* A child started after the interrupt is the last one: its step fails.
LateInv ==
    late = 0 \/
        /\ late = 1 /\ cancelled
        /\ step \in Terraform \cup {"fail", "over"}
        /\ step \in Terraform => at \in {"grace", "killed", "failed"}

\* What has ended well when a step is under way.
Before ==
    [s \in Waits \cup {"summary"} |->
       CASE s = "terraform-init"  -> {}
         [] s = "terraform-apply" -> {"terraform-init"}
         [] s = "outputs"         -> {"terraform-init", "terraform-apply"}
         [] s = "wait-ssh"        -> Terraform
         [] s = "cloud-init"      -> Terraform \cup {"wait-ssh"}
         [] s = "redial"          -> Terraform \cup {"wait-ssh", "cloud-init"}
         [] s = "stack"           -> Terraform \cup Dialling \cup {"cloud-init"}
         [] OTHER                 -> Waits]

FinishedInv ==
    /\ step \in Waits \cup {"summary"} => Before[step] \subseteq finished
    /\ step \in Waits /\ (at = "succeeded" \/ child = "ok" \/ remote = "ok")
         => step \in finished
    /\ NothingCutShort

\* A connection that a dial has verified leads to the pinned host key.
HostInv ==
    /\ OneHost
    /\ step \in Dialling /\ at \in {"verified", "succeeded"} => conn = pin

\* Between two steps there is no spinner, and the last row stands.
RowInv == at = "start" => spinner = "off" /\ screen = "row"

----
(* Type correctness. *)

\* No step breaks a type.
LEMMA TypeStep == TypeOK /\ ChildInv /\ [Next]_vars => TypeOK'
<1> SUFFICES ASSUME TypeOK, ChildInv, [Next]_vars
             PROVE  TypeOK'
  OBVIOUS
<1> USE DEF TypeOK, net, view, past, In
<1>1. CASE Drawing
  <2>1. CASE Begin
    <3>1. expired' \in BOOLEAN /\ cancelled' \in BOOLEAN
      BY <2>1 DEF Begin
    <3>2. at' \in {"ready"} /\ spinner' \in {"on", "off"}
      BY <2>1 DEF Begin
    <3>3. UNCHANGED <<step, child, remote, net, pin, conn, screen, status, past>>
      BY <2>1 DEF Begin
    <3> QED
      BY <3>1, <3>2, <3>3
  <2>2. CASE Frame
    BY <2>2 DEF Frame
  <2>3. CASE CloseDone
    BY <2>3 DEF CloseDone
  <2>4. CASE SpinnerStops
    BY <2>4 DEF SpinnerStops
  <2> QED
    BY <1>1, <2>1, <2>2, <2>3, <2>4 DEF Drawing
<1>2. CASE Finish
  BY <1>2 DEF Finish, After, Rescue, Waits, Terraform, Dialling, Remote, Ended
<1>3. CASE FailLaunch \/ MarkReady
  BY <1>3 DEF FailLaunch, MarkReady, Ended
<1>4. CASE Running
  BY <1>4 DEF Running, StartChild, StartFails, Reap, Signal, GraceEnds,
              ReapSignalled, ChildDies, ChildExits, Result, ChildInv, Waits
<1>5. CASE Dials
  BY <1>5 DEF Dials, Connect, VerifyHostKey, PinFails, HandshakeFails,
              AttemptBreaks, GiveUp, Rest, Again, Configure, Authenticate,
              Result, Waits
<1>6. CASE Commands
  BY <1>6 DEF Commands, OpenSession, CloseSession, ConnectionBreaks,
              CommandReturns, CommandEnds, Result, ChildInv, Waits
<1>7. CASE World
  <2>1. CASE Interrupt
    BY <2>1 DEF Interrupt
  <2>2. CASE Expire
    BY <2>2 DEF Expire
  <2>3. CASE PeerChanges
    BY <2>3, RekeysAssumption DEF PeerChanges, HostKeys
  <2> QED
    BY <1>7, <2>1, <2>2, <2>3 DEF World
<1>8. CASE UNCHANGED vars
  BY <1>8 DEF vars
<1> QED
  BY <1>1, <1>2, <1>3, <1>4, <1>5, <1>6, <1>7, <1>8, Kinds

----
(* The invariants. *)

\* A child is started and reaped by its own step.
LEMMA ChildStep == TypeOK /\ ChildInv /\ [Next]_vars => ChildInv'
<1> SUFFICES ASSUME TypeOK, ChildInv, [Next]_vars
             PROVE  ChildInv'
  OBVIOUS
<1> USE DEF ChildInv, net, view, past, In, Terraform, Dialling, Remote, Waits
<1>1. CASE Drawing
  BY <1>1 DEF Drawing, Begin, Frame, CloseDone, SpinnerStops
<1>2. CASE Finish
  BY <1>2 DEF Finish, Rescue, After
<1>3. CASE FailLaunch \/ MarkReady
  BY <1>3 DEF FailLaunch, MarkReady
<1>4. CASE Running
  BY <1>4 DEF Running, StartChild, StartFails, Reap, Signal, GraceEnds,
              ReapSignalled, ChildDies, ChildExits, Result
<1>5. CASE Dials
  BY <1>5 DEF Dials, Connect, VerifyHostKey, PinFails, HandshakeFails,
              AttemptBreaks, GiveUp, Rest, Again, Configure, Authenticate,
              Result
<1>6. CASE Commands
  BY <1>6 DEF Commands, OpenSession, CloseSession, ConnectionBreaks,
              CommandReturns, CommandEnds, Result
<1>7. CASE World
  BY <1>7 DEF World, Interrupt, Expire, PeerChanges
<1>8. CASE UNCHANGED vars
  BY <1>8 DEF vars
<1> QED
  BY <1>1, <1>2, <1>3, <1>4, <1>5, <1>6, <1>7, <1>8, Kinds

\* run looks at the context only after it has started the child, and then fails.
LEMMA LateStep == TypeOK /\ ChildInv /\ LateInv /\ [Next]_vars => LateInv'
<1> SUFFICES ASSUME TypeOK, ChildInv, LateInv, [Next]_vars
             PROVE  LateInv'
  OBVIOUS
<1> USE DEF LateInv, ChildInv, net, view, past, In, Terraform, Dialling, Remote, Waits
<1>1. CASE Drawing
  BY <1>1 DEF Drawing, Begin, Frame, CloseDone, SpinnerStops
<1>2. CASE Finish
  BY <1>2 DEF Finish, Rescue, After
<1>3. CASE FailLaunch \/ MarkReady
  BY <1>3 DEF FailLaunch, MarkReady
<1>4. CASE Running
  BY <1>4 DEF Running, StartChild, StartFails, Reap, Signal, GraceEnds,
              ReapSignalled, ChildDies, ChildExits, Result
<1>5. CASE Dials
  BY <1>5 DEF Dials, Connect, VerifyHostKey, PinFails, HandshakeFails,
              AttemptBreaks, GiveUp, Rest, Again, Configure, Authenticate,
              Result
<1>6. CASE Commands
  BY <1>6 DEF Commands, OpenSession, CloseSession, ConnectionBreaks,
              CommandReturns, CommandEnds, Result
<1>7. CASE World
  BY <1>7 DEF World, Interrupt, Expire, PeerChanges
<1>8. CASE UNCHANGED vars
  BY <1>8 DEF vars
<1> QED
  BY <1>1, <1>2, <1>3, <1>4, <1>5, <1>6, <1>7, <1>8, Kinds

\* Step waits for its goroutine before it draws the row.
LEMMA RowStep == RowInv /\ [Next]_vars => RowInv'
<1> SUFFICES ASSUME RowInv, [Next]_vars
             PROVE  RowInv'
  OBVIOUS
<1> USE DEF RowInv, net, view, past, In
<1>1. CASE Drawing
  BY <1>1 DEF Drawing, Begin, Frame, CloseDone, SpinnerStops
<1>2. CASE Finish
  BY <1>2 DEF Finish, Rescue, After
<1>3. CASE FailLaunch \/ MarkReady
  BY <1>3 DEF FailLaunch, MarkReady
<1>4. CASE Running
  BY <1>4 DEF Running, StartChild, StartFails, Reap, Signal, GraceEnds,
              ReapSignalled, ChildDies, ChildExits, Result
<1>5. CASE Dials
  BY <1>5 DEF Dials, Connect, VerifyHostKey, PinFails, HandshakeFails,
              AttemptBreaks, GiveUp, Rest, Again, Configure, Authenticate,
              Result
<1>6. CASE Commands
  BY <1>6 DEF Commands, OpenSession, CloseSession, ConnectionBreaks,
              CommandReturns, CommandEnds, Result
<1>7. CASE World
  BY <1>7 DEF World, Interrupt, Expire, PeerChanges
<1>8. CASE UNCHANGED vars
  BY <1>8 DEF vars
<1> QED
  BY <1>1, <1>2, <1>3, <1>4, <1>5, <1>6, <1>7, <1>8, Kinds

\* Only a dial makes connections, and it verifies them.
LEMMA HostStep == TypeOK /\ ChildInv /\ HostInv /\ [Next]_vars => HostInv'
<1> SUFFICES ASSUME TypeOK, ChildInv, HostInv, [Next]_vars
             PROVE  HostInv'
  OBVIOUS
<1> USE DEF HostInv, OneHost, ChildInv, net, view, past, In,
            Terraform, Dialling, Remote, Waits
<1>1. CASE Drawing
  BY <1>1 DEF Drawing, Begin, Frame, CloseDone, SpinnerStops
<1>2. CASE Finish
  BY <1>2 DEF Finish, Rescue, After
<1>3. CASE FailLaunch \/ MarkReady
  BY <1>3 DEF FailLaunch, MarkReady
<1>4. CASE Running
  BY <1>4 DEF Running, StartChild, StartFails, Reap, Signal, GraceEnds,
              ReapSignalled, ChildDies, ChildExits, Result
<1>5. CASE Dials
  BY <1>5 DEF Dials, Connect, VerifyHostKey, PinFails, HandshakeFails,
              AttemptBreaks, GiveUp, Rest, Again, Configure, Authenticate,
              Result, Alive
<1>6. CASE Commands
  BY <1>6 DEF Commands, OpenSession, CloseSession, ConnectionBreaks,
              CommandReturns, CommandEnds, Result
<1>7. CASE World
  BY <1>7 DEF World, Interrupt, Expire, PeerChanges
<1>8. CASE UNCHANGED vars
  BY <1>8 DEF vars
<1> QED
  BY <1>1, <1>2, <1>3, <1>4, <1>5, <1>6, <1>7, <1>8, Kinds

\* A step succeeds when its outside work has ended well.
LEMMA FinishedStep == TypeOK /\ ChildInv /\ FinishedInv /\ [Next]_vars => FinishedInv'
<1> SUFFICES ASSUME TypeOK, ChildInv, FinishedInv, [Next]_vars
             PROVE  FinishedInv'
  OBVIOUS
<1> USE DEF FinishedInv, NothingCutShort, ChildInv, Before, TypeOK,
            net, view, past, In, Terraform, Dialling, Remote, Waits
<1>1. CASE Drawing
  BY <1>1 DEF Drawing, Begin, Frame, CloseDone, SpinnerStops
<1>2. CASE Finish
  BY ZenonT(60), <1>2 DEF Finish, Rescue, After
<1>3. CASE FailLaunch \/ MarkReady
  BY <1>3 DEF FailLaunch, MarkReady
<1>4. CASE Running
  BY <1>4 DEF Running, StartChild, StartFails, Reap, Signal, GraceEnds,
              ReapSignalled, ChildDies, ChildExits, Result
<1>5. CASE Dials
  BY <1>5 DEF Dials, Connect, VerifyHostKey, PinFails, HandshakeFails,
              AttemptBreaks, GiveUp, Rest, Again, Configure, Authenticate,
              Result
<1>6. CASE Commands
  BY <1>6 DEF Commands, OpenSession, CloseSession, ConnectionBreaks,
              CommandReturns, CommandEnds, Result
<1>7. CASE World
  BY <1>7 DEF World, Interrupt, Expire, PeerChanges
<1>8. CASE UNCHANGED vars
  BY <1>8 DEF vars
<1> QED
  BY <1>1, <1>2, <1>3, <1>4, <1>5, <1>6, <1>7, <1>8, Kinds

----
(* The theorems. *)

\* The invariants hold together.
IInv == TypeOK /\ ChildInv /\ LateInv /\ FinishedInv /\ HostInv /\ RowInv

\* The invariant holds throughout every launch.
LEMMA Invariant == Spec => []IInv
<1>1. Init => TypeOK
  <2> SUFFICES ASSUME Init PROVE TypeOK
    OBVIOUS
  <2>1. hostkey \in HostKeys
    BY RekeysAssumption DEF Init, HostKeys
  <2>2. cancelled \in BOOLEAN /\ expired \in BOOLEAN
    BY DEF Init
  <2> QED
    BY <2>1, <2>2 DEF Init, TypeOK, Waits, Terraform
<1>2. Init => ChildInv /\ LateInv /\ FinishedInv /\ HostInv /\ RowInv
  BY DEF Init, Waits, Terraform, Dialling, Remote, ChildInv, LateInv, FinishedInv,
         Before, NothingCutShort, HostInv, OneHost, RowInv
<1>3. IInv /\ [Next]_vars => IInv'
  BY TypeStep, ChildStep, LateStep, FinishedStep, HostStep, RowStep DEF IInv
<1> QED
  BY <1>1, <1>2, <1>3, PTL DEF Spec, IInv

\* Every variable of a launch and its surroundings keeps its type.
THEOREM TypeCorrect == Spec => []TypeOK
<1>1. IInv => TypeOK
  BY DEF IInv
<1> QED
  BY <1>1, Invariant, PTL

\* Runner.run returns only when its terraform child has ended, whatever falls
\* together with the interrupt: a launch that is over has none left.
THEOREM ChildrenAreReaped == Spec => []NoChildLeft
<1>1. IInv => NoChildLeft
  BY DEF IInv, ChildInv, NoChildLeft
<1> QED
  BY <1>1, Invariant, PTL

\* After an interrupt at most one more terraform child is started.
THEOREM InterruptIsHeard == Spec => []InterruptIsObeyed
<1>1. IInv => InterruptIsObeyed
  BY DEF IInv, LateInv, InterruptIsObeyed
<1> QED
  BY <1>1, Invariant, PTL

\* A launch that was cut short anywhere never says ready.
THEOREM ReadyIsWhole == Spec => []NothingCutShort
<1>1. IInv => NothingCutShort
  BY DEF IInv, FinishedInv
<1> QED
  BY <1>1, Invariant, PTL

\* Remote commands run on the VM whose host key was pinned first, however
\* often the address changes hands.
THEOREM CommandsStayOnHost == Spec => []OneHost
<1>1. IInv => OneHost
  BY DEF IInv, HostInv
<1> QED
  BY <1>1, Invariant, PTL

\* The row of a finished step is never followed by a frame of its spinner.
THEOREM RowIsLast == Spec => []RowsStay
<1>1. IInv => RowsStay
  BY DEF IInv, RowInv, RowsStay
<1> QED
  BY <1>1, Invariant, PTL

\* hostKeyCallback writes known_hosts only when there is none: what is pinned
\* stays pinned.
THEOREM PinIsKept == Spec => PinStays
<1>1. [Next]_vars => [(pin \in HostKeys) => pin' = pin]_vars
  <2> SUFFICES ASSUME [Next]_vars, pin \in HostKeys
               PROVE  pin' = pin
    OBVIOUS
  <2>1. pin # None
    BY PinAssumption
  <2>2. CASE Drawing
    BY <2>2 DEF Drawing, Begin, Frame, CloseDone, SpinnerStops
  <2>3. CASE Finish \/ FailLaunch \/ MarkReady
    BY <2>3 DEF Finish, FailLaunch, MarkReady
  <2>4. CASE Running
    BY <2>4 DEF Running, StartChild, StartFails, Reap, Signal, GraceEnds,
                ReapSignalled, ChildDies, ChildExits
  <2>5. CASE Dials
    BY <2>1, <2>5 DEF Dials, Connect, VerifyHostKey, PinFails, HandshakeFails,
                      AttemptBreaks, GiveUp, Rest, Again, Configure, Authenticate
  <2>6. CASE Commands
    BY <2>6 DEF Commands, OpenSession, CloseSession, ConnectionBreaks,
                CommandReturns, CommandEnds
  <2>7. CASE World
    BY <2>7 DEF World, Interrupt, Expire, PeerChanges
  <2>8. CASE UNCHANGED vars
    BY <2>8 DEF vars
  <2> QED
    BY <2>2, <2>3, <2>4, <2>5, <2>6, <2>7, <2>8, Kinds
<1> QED
  BY <1>1, PTL DEF Spec, PinStays
====

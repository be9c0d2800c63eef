---- MODULE LaunchWaits ----
(***************************************************************************)
(* What a cloud launch waits for, and what becomes of the waiting when the *)
(* operator interrupts it or a budget runs out: terraform children, ssh    *)
(* dials and remote commands, the pinned host key, the spinner goroutine.  *)
(*                                                                         *)
(* The steps are those of runLaunch that wait; CloudSession has all of     *)
(* them and what they leave on disk.  One remote step stands for each kind *)
(* of wait: "cloud-init" has a budget of its own, "stack" has none.        *)
(***************************************************************************)
EXTENDS Naturals

CONSTANTS
    Rekeys,   \* bound: how often the VM changes its host key
    Full,     \* TRUE: the disk may be full when known_hosts is written
    None,     \* there is no known_hosts
    Empty     \* known_hosts is there and holds no key

HostKeys == 1..(Rekeys + 1)

ASSUME RekeysAssumption == Rekeys \in Nat
ASSUME FullAssumption == Full \in BOOLEAN
ASSUME PinAssumption == None # Empty /\ None \notin HostKeys /\ Empty \notin HostKeys

VARIABLES
    step,       \* the step under way, or how the launch ended
    at,         \* where in its wait the step is
    cancelled,  \* the context of the launch: SIGINT has arrived
    expired,    \* the deadline of the step's own context has passed
    child,      \* terraform: "none", "runs" or how it exited, "ok" or "bad"
    remote,     \* the remote command, in the same way
    peer,       \* the VM: "down", "up", or "silent": it accepts and says nothing
    hostkey,    \* the host key of the VM
    pin,        \* content of the session's known_hosts
    conn,       \* the ssh connection: host key of the VM at its other end, or None
    spinner,    \* the goroutine that draws frames: "off", "on", "stopping"
    screen,     \* what was drawn last: a spinner's "frame" or a status "row"
    status,     \* of the session
    finished,   \* history: the steps whose outside work ended well
    late        \* history: terraform children started after the interrupt

vars == <<step, at, cancelled, expired, child, remote, peer, hostkey, pin, conn,
          spinner, screen, status, finished, late>>

Terraform == {"terraform-init", "terraform-apply", "outputs"}
Dialling == {"wait-ssh", "redial"}
Remote == {"cloud-init", "stack"}
Waits == Terraform \cup Dialling \cup Remote
Ended == {"over", "panicked"}

After(s) ==
    CASE s = "terraform-init"  -> "terraform-apply"
      [] s = "terraform-apply" -> "outputs"
      [] s = "outputs"         -> "wait-ssh"
      [] s = "wait-ssh"        -> "cloud-init"
      [] s = "cloud-init"      -> "redial"
      [] s = "redial"          -> "stack"
      [] OTHER                 -> "summary"

Init ==
    /\ step = "terraform-init" /\ at = "start"
    /\ cancelled = FALSE /\ expired = FALSE
    /\ child = "none" /\ remote = "none"
    /\ peer = "down" /\ hostkey = 1 /\ pin = None /\ conn = None
    /\ spinner = "off" /\ screen = "row" /\ status = "launching"
    /\ finished = {} /\ late = 0

net == <<peer, hostkey>>
view == <<spinner, screen>>
past == <<finished, late>>

\* The context of the step is done.
Done == cancelled \/ expired

\* The connection leads to a VM that is there and has not started anew since.
Alive == peer = "up" /\ conn = hostkey
Broken == peer = "down" \/ conn # hostkey

In(S, where) == step \in S /\ at = where

----
(* ui.Step around a wait, and the end of a launch. *)

\* The step has its result: Step closes done and waits for stopped.
Result(ok) == at' = IF ok THEN "succeeded" ELSE "failed"

\* Step starts the goroutine; without a terminal, and for redialSSH, there is
\* none.  A step's own deadline starts to run.
Begin ==
    /\ In(Waits, "start")
    /\ at' = "ready"
    /\ spinner' \in {"on", "off"} /\ (step = "redial" => spinner' = "off")
    /\ expired' = FALSE
    /\ UNCHANGED <<step, cancelled, child, remote, net, pin, conn, screen, status, past>>

\* The ticker fires; when done is closed as well, select may take either.
Frame ==
    /\ spinner \in {"on", "stopping"}
    /\ screen' = "frame"
    /\ UNCHANGED <<step, at, cancelled, expired, child, remote, net, pin, conn,
                   spinner, status, past>>

CloseDone ==
    /\ at \in {"succeeded", "failed"} /\ spinner = "on"
    /\ spinner' = "stopping"
    /\ UNCHANGED <<step, at, cancelled, expired, child, remote, net, pin, conn,
                   screen, status, past>>

SpinnerStops ==
    /\ spinner = "stopping"
    /\ spinner' = "off"
    /\ UNCHANGED <<step, at, cancelled, expired, child, remote, net, pin, conn,
                   screen, status, past>>

\* What follows a step that failed: failLaunch, or, when the second dial
\* fails, a nil client in the deferred Close.
Rescue(s) == IF s = "redial" THEN "panicked" ELSE "fail"

\* Seeded fault: finishStep does not wait for the goroutine.
HastyFinish ==
    /\ at \in {"succeeded", "failed"}
    /\ screen' = "row"
    /\ step' = IF at = "succeeded" THEN After(step) ELSE Rescue(step)
    /\ at' = "start"
    /\ conn' = IF step = "cloud-init" THEN None ELSE conn
    /\ UNCHANGED <<cancelled, expired, child, remote, net, pin, spinner, status, past>>

\* finishStep draws the row; after cloud-init the client is closed.
Finish ==
    /\ at \in {"succeeded", "failed"}
    /\ spinner = "off"
    /\ screen' = "row"
    /\ step' = IF at = "succeeded" THEN After(step) ELSE Rescue(step)
    /\ at' = "start"
    /\ conn' = IF step = "cloud-init" THEN None ELSE conn
    /\ UNCHANGED <<cancelled, expired, child, remote, net, pin, spinner, status, past>>

FailLaunch ==
    /\ step = "fail"
    /\ status' = "failed" /\ step' = "over"
    /\ UNCHANGED <<at, cancelled, expired, child, remote, net, pin, conn, view, past>>

MarkReady ==
    /\ step = "summary"
    /\ status' = "ready" /\ step' = "over"
    /\ UNCHANGED <<at, cancelled, expired, child, remote, net, pin, conn, view, past>>

----
(* Runner.run and Outputs: one terraform child in its own process group. *)

\* run starts the child without a look at the context, and if that is done by
\* then, its select takes ctx.Done: no terraform ends before it is reached.
\* exec.CommandContext, which Outputs uses, looks first.
StartChild ==
    /\ In(Terraform, "ready")
    /\ IF step = "outputs" /\ cancelled
       THEN Result(FALSE) /\ UNCHANGED <<child, late>>
       ELSE /\ at' = IF cancelled THEN "grace" ELSE "waiting"
            /\ child' = "runs"
            /\ late' = IF cancelled THEN late + 1 ELSE late
    /\ UNCHANGED <<step, cancelled, expired, remote, net, pin, conn, view, status, finished>>

\* The log or the binary cannot be opened.
StartFails ==
    /\ In(Terraform, "ready")
    /\ Result(FALSE)
    /\ UNCHANGED <<step, cancelled, expired, child, remote, net, pin, conn, view,
                   status, past>>

\* Terraform, outside the code: it ends when it likes, SIGINT or not.
ChildExits(ok) ==
    /\ child = "runs" /\ at # "killed"
    /\ child' = IF ok THEN "ok" ELSE "bad"
    /\ finished' = IF ok THEN finished \cup {step} ELSE finished
    /\ UNCHANGED <<step, at, cancelled, expired, remote, net, pin, conn, view, status, late>>

\* SIGKILL leaves it no choice.
ChildDies ==
    /\ child = "runs" /\ at = "killed"
    /\ child' = "bad"
    /\ UNCHANGED <<step, at, cancelled, expired, remote, net, pin, conn, view, status, past>>

\* <-done without an interrupt, or ahead of it.
Reap ==
    /\ In(Terraform, "waiting") /\ child \in {"ok", "bad"}
    /\ child' = "none"
    /\ Result(child = "ok")
    /\ UNCHANGED <<step, cancelled, expired, remote, net, pin, conn, view, status, past>>

\* Seeded fault: run looks at the context when the child has ended.
DeafSignal ==
    /\ In(Terraform, "waiting") /\ cancelled /\ child # "runs"
    /\ at' = IF step = "outputs" THEN "killed" ELSE "grace"
    /\ UNCHANGED <<step, cancelled, expired, child, remote, net, pin, conn, view,
                   status, past>>

\* ctx.Done: SIGINT to the group, or SIGKILL at once when Outputs waits.
\* select may take this branch although the child has exited.
Signal ==
    /\ In(Terraform, "waiting") /\ cancelled
    /\ at' = IF step = "outputs" THEN "killed" ELSE "grace"
    /\ UNCHANGED <<step, cancelled, expired, child, remote, net, pin, conn, view,
                   status, past>>

GraceEnds ==
    /\ In(Terraform, "grace")
    /\ at' = "killed"
    /\ UNCHANGED <<step, cancelled, expired, child, remote, net, pin, conn, view,
                   status, past>>

\* Seeded fault: run does not wait for the child it has killed.
AbandonsChild ==
    /\ step \in Terraform /\ at \in {"grace", "killed"}
    /\ child \in {"ok", "bad"} \/ at = "killed"
    /\ child' = IF child = "runs" THEN "runs" ELSE "none"
    /\ Result(FALSE)
    /\ UNCHANGED <<step, cancelled, expired, remote, net, pin, conn, view, status, past>>

\* Seeded fault: a child that ended well under SIGINT counts as a success.
ReapsSuccess ==
    /\ step \in Terraform /\ at \in {"grace", "killed"}
    /\ child \in {"ok", "bad"}
    /\ child' = "none"
    /\ Result(child = "ok")
    /\ UNCHANGED <<step, cancelled, expired, remote, net, pin, conn, view, status, past>>

\* The child has ended after a signal: run returns the context's error.
ReapSignalled ==
    /\ step \in Terraform /\ at \in {"grace", "killed"}
    /\ child \in {"ok", "bad"}
    /\ child' = "none"
    /\ Result(FALSE)
    /\ UNCHANGED <<step, cancelled, expired, remote, net, pin, conn, view, status, past>>

----
(* ssh.Dial: attempts until one succeeds or the context is done. *)

\* clientConfig, which can fail on the key file.
Configure(ok) ==
    /\ In(Dialling, "ready")
    /\ at' = IF ok THEN "attempt" ELSE "failed"
    /\ UNCHANGED <<step, cancelled, expired, child, remote, net, pin, conn, view,
                   status, past>>

\* The TCP connect, which has ten seconds.
Connect ==
    /\ In(Dialling, "attempt")
    /\ at' = IF peer = "down" THEN "missed" ELSE "handshake"
    /\ conn' = IF peer = "down" THEN None ELSE hostkey
    /\ UNCHANGED <<step, cancelled, expired, child, remote, net, pin, view, status, past>>

\* The handshake, which has no deadline, is dropped by the VM.
HandshakeFails ==
    /\ In(Dialling, "handshake")
    /\ peer # "silent"
    /\ at' = "missed"
    /\ UNCHANGED <<step, cancelled, expired, child, remote, net, pin, conn, view,
                   status, past>>

\* Seeded fault: a key that is not the pinned one is pinned instead.
RepinHostKey ==
    /\ In(Dialling, "handshake") /\ Alive
    /\ pin' = hostkey /\ at' = "verified"
    /\ UNCHANGED <<step, cancelled, expired, child, remote, net, conn, view, status, past>>

\* Seeded fault: pinned on first contact, never looked at again.
TrustHostKey ==
    /\ In(Dialling, "handshake") /\ Alive
    /\ pin' = IF pin = None THEN hostkey ELSE pin
    /\ at' = "verified"
    /\ UNCHANGED <<step, cancelled, expired, child, remote, net, conn, view, status, past>>

\* hostKeyCallback: pin on first contact, verify strictly afterwards.  An
\* empty file wants no key at all, which is not a mismatch; a mismatch ends
\* the dial.
VerifyHostKey ==
    /\ In(Dialling, "handshake") /\ Alive
    /\ IF pin = None
       THEN pin' = hostkey /\ at' = "verified"
       ELSE /\ UNCHANGED pin
            /\ at' = IF pin = hostkey THEN "verified"
                     ELSE IF pin = Empty THEN "missed" ELSE "failed"
    /\ UNCHANGED <<step, cancelled, expired, child, remote, net, conn, view, status, past>>

\* Seeded fault: half a line of known_hosts is written and kept.
HalfPin ==
    /\ Full
    /\ In(Dialling, "handshake") /\ Alive /\ pin = None
    /\ pin' = 0 /\ at' = "verified"
    /\ UNCHANGED <<step, cancelled, expired, child, remote, net, conn, view, status, past>>

\* os.WriteFile creates known_hosts and fails to fill it.
PinFails ==
    /\ Full
    /\ In(Dialling, "handshake") /\ Alive /\ pin = None
    /\ pin' = Empty /\ at' = "missed"
    /\ UNCHANGED <<step, cancelled, expired, child, remote, net, conn, view, status, past>>

\* Authentication, before and after cloud-init has installed the key.
Authenticate(ok) ==
    /\ In(Dialling, "verified") /\ Alive
    /\ at' = IF ok THEN "succeeded" ELSE "missed"
    /\ finished' = IF ok THEN finished \cup {step} ELSE finished
    /\ UNCHANGED <<step, cancelled, expired, child, remote, net, pin, conn, view,
                   status, late>>

\* The VM goes away in the middle of an attempt.
AttemptBreaks ==
    /\ step \in Dialling /\ at \in {"handshake", "verified"}
    /\ Broken
    /\ at' = "missed"
    /\ UNCHANGED <<step, cancelled, expired, child, remote, net, pin, conn, view,
                   status, past>>

\* Seeded fault: the dial watches the launch's context, not its own.
PatientGiveUp ==
    /\ step \in Dialling /\ at \in {"missed", "rested"} /\ cancelled
    /\ Result(FALSE)
    /\ UNCHANGED <<step, cancelled, expired, child, remote, net, pin, conn, view,
                   status, past>>

\* After a missed attempt: ctx.Done ends the dial, also when both are ready ...
GiveUp ==
    /\ step \in Dialling /\ at \in {"missed", "rested"} /\ Done
    /\ Result(FALSE)
    /\ UNCHANGED <<step, cancelled, expired, child, remote, net, pin, conn, view,
                   status, past>>

\* ... the timer fires after three seconds ...
Rest ==
    /\ In(Dialling, "missed") /\ ~Done
    /\ at' = "rested"
    /\ UNCHANGED <<step, cancelled, expired, child, remote, net, pin, conn, view,
                   status, past>>

\* ... and starts the next one.
Again ==
    /\ In(Dialling, "rested")
    /\ at' = "attempt"
    /\ UNCHANGED <<step, cancelled, expired, child, remote, net, pin, conn, view,
                   status, past>>

----
(* Client.RunIn, Run and RunStream: a remote command under watchCtx. *)

\* NewSession, which does not know the context, and the command.
OpenSession ==
    /\ In(Remote, "ready") /\ Alive
    /\ at' = "waiting" /\ remote' = "runs"
    /\ UNCHANGED <<step, cancelled, expired, child, net, pin, conn, view, status, past>>

\* The remote command ends by itself; its output arrives.
CommandEnds(ok) ==
    /\ remote = "runs" /\ Alive
    /\ remote' = IF ok THEN "ok" ELSE "bad"
    /\ finished' = IF ok THEN finished \cup {step} ELSE finished
    /\ UNCHANGED <<step, at, cancelled, expired, child, net, pin, conn, view, status, late>>

\* The watchCtx goroutine closes the session, the VM confirms.
CloseSession ==
    /\ remote = "runs" /\ Done /\ Alive
    /\ remote' = "bad"
    /\ UNCHANGED <<step, at, cancelled, expired, child, net, pin, conn, view, status, past>>

\* The connection breaks.
ConnectionBreaks ==
    /\ step \in Remote /\ Broken
    /\ at = "ready" \/ (at = "waiting" /\ remote = "runs")
    /\ at' = "waiting"
    /\ remote' = "bad"
    /\ UNCHANGED <<step, cancelled, expired, child, net, pin, conn, view, status, past>>

\* Seeded fault: the error of a command is not looked at once the context is
\* done.
IgnoresCut ==
    /\ In(Remote, "waiting") /\ remote \in {"ok", "bad"}
    /\ remote' = "none"
    /\ Result(remote = "ok" \/ Done)
    /\ UNCHANGED <<step, cancelled, expired, child, net, pin, conn, view, status, past>>

\* CombinedOutput returns; a result that was there before the close counts.
CommandReturns ==
    /\ In(Remote, "waiting") /\ remote \in {"ok", "bad"}
    /\ remote' = "none"
    /\ Result(remote = "ok")
    /\ UNCHANGED <<step, cancelled, expired, child, net, pin, conn, view, status, past>>

----
(* The operator, the clock and the VM. *)

\* SIGINT; signal.NotifyContext swallows every further one.
Interrupt ==
    /\ ~cancelled /\ step \notin Ended
    /\ cancelled' = TRUE
    /\ UNCHANGED <<step, at, expired, child, remote, net, pin, conn, view, status, past>>

\* Five minutes for a dial, ten for cloud-init.
Expire ==
    /\ step \in Dialling \cup {"cloud-init"} /\ at # "start"
    /\ ~expired
    /\ expired' = TRUE
    /\ UNCHANGED <<step, at, cancelled, child, remote, net, pin, conn, view, status, past>>

\* The VM boots, stops, hangs, or comes back with another host key.
PeerChanges ==
    /\ \/ peer' \in {"up", "down", "silent"} \ {peer} /\ UNCHANGED hostkey
       \/ peer = "down" /\ peer' = "up" /\ hostkey < Rekeys + 1 /\ hostkey' = hostkey + 1
    /\ peer # "silent"
    /\ "terraform-apply" \in finished
    /\ UNCHANGED <<step, at, cancelled, expired, child, remote, pin, conn, view, status, past>>

Process ==
    \/ Begin \/ CloseDone \/ SpinnerStops \/ Finish \/ FailLaunch \/ MarkReady
    \/ StartChild \/ StartFails \/ Reap \/ Signal \/ GraceEnds \/ ReapSignalled
    \/ \E ok \in BOOLEAN : Configure(ok) \/ Authenticate(ok)
    \/ Connect \/ VerifyHostKey \/ PinFails \/ HandshakeFails \/ AttemptBreaks
    \/ GiveUp \/ Rest \/ Again
    \/ OpenSession \/ CloseSession \/ ConnectionBreaks \/ CommandReturns

Next ==
    \/ Process \/ Frame \/ Interrupt \/ Expire \/ PeerChanges
    \/ \E ok \in BOOLEAN : ChildExits(ok) \/ CommandEnds(ok)
    \/ ChildDies

\* The process runs on, deadlines pass and SIGKILL kills.  Terraform and the
\* remote commands may take for ever, and so may a silent VM.
Fairness == WF_vars(Process) /\ WF_vars(Expire) /\ WF_vars(ChildDies)

Spec == Init /\ [][Next]_vars
FairSpec == Spec /\ Fairness

----
(* Properties. *)

\* Types of the variables.
TypeOK ==
    /\ step \in Waits \cup {"summary", "fail"} \cup Ended
    /\ at \in {"start", "ready", "waiting", "grace", "killed", "attempt", "handshake",
               "verified", "missed", "rested", "succeeded", "failed"}
    /\ cancelled \in BOOLEAN /\ expired \in BOOLEAN
    /\ child \in {"none", "runs", "ok", "bad"}
    /\ remote \in {"none", "runs", "ok", "bad"}
    /\ peer \in {"down", "up", "silent"} /\ hostkey \in HostKeys
    /\ pin \in HostKeys \cup {None, Empty} /\ conn \in HostKeys \cup {None}
    /\ spinner \in {"off", "on", "stopping"} /\ screen \in {"frame", "row"}
    /\ status \in {"launching", "failed", "ready"}
    /\ finished \subseteq Waits
    /\ late \in Nat

\* No terraform child outlives the step that started it, however the grace
\* period and its exit fall together; so a launch that ended left none behind.
NoChildLeft ==
    child # "none" => step \in Terraform /\ at \in {"waiting", "grace", "killed"}

\* An interrupt is obeyed: one more terraform child at most is started after
\* it, the one whose predecessor ended in the same moment.
InterruptIsObeyed == late <= 1

\* A session is ready only if every terraform run, dial and remote command of
\* its launch ended well: nothing that an interrupt or a budget cut short
\* counts as done.
NothingCutShort == status = "ready" => finished = Waits

\* The launch runs its commands on one VM: at the other end is the host key
\* pinned first, whatever the address answers with later.
OneHost == step \in Remote => conn = pin

\* A status row is the last thing drawn for its step, never a stale frame.
RowsStay == spinner = "off" /\ at = "start" => screen = "row"

\* The pinned host key is never replaced.
PinStays == [][(pin \in HostKeys) => pin' = pin]_vars

\* Once interrupted the launch ends, unless the VM accepts connections and
\* answers nothing: neither the handshake nor NewSession has a deadline.
InterruptEnds == cancelled ~> step \in Ended \/ peer = "silent"

\* A dial and the wait for cloud-init end in any case, with the same exception.
BudgetsHold ==
    \A s \in Dialling \cup {"cloud-init"} : step = s ~> step # s \/ peer = "silent"
====

---- MODULE CloudSessionProofs ----
(***************************************************************************)
(* Theorems about CloudSession for any number of destroy processes, any    *)
(* set of launches and, unless a theorem says otherwise, any set of        *)
(* faults.  Each safety property follows from an inductive invariant that  *)
(* says who is where in the protocol around .lock and metadata.json.       *)
(***************************************************************************)
EXTENDS CloudSession, TLAPS

\* Where each kind of process can be.
Common == Resting \cup Leaving \cup {"open", "flock", "fail"}

\* Where a process that got the flock can be.
Inside ==
    (LaunchSteps \ {"new", "record"}) \cup (DestroySteps \ {"confirm"})
        \cup Leaving \cup {"fail"}

\* Before the launch has made the directory nothing has happened.
Untouched ==
    pc[Launcher] = "idle" =>
        /\ ~dir /\ ~logs /\ meta = None
        /\ \A d \in Destroyers : pc[d] \in {"idle", "over"}

\* A process that is rewriting metadata.json is past session.New.
SavingSteps == \A p \in Procs : saving[p] => pc[p] \in Inside \cup {"record", "open"}

\* A process that waits for terraform waits for the child that holds the state
\* lock.
ChildInv ==
    \A p \in Procs :
        /\ pc[p] = "applying" => child = "apply"
        /\ pc[p] = "destroying" => child = "destroy"

\* Who holds the flock, on which inode.
LockInv ==
    /\ pc[Launcher] \in Common \cup LaunchSteps
    /\ \A d \in Destroyers : pc[d] \in Common \cup DestroySteps
    /\ Untouched
    /\ \A p \in Procs : locked[p] <=> pc[p] \in Inside
    /\ \A p \in Procs : fd[p] # 0 <=> pc[p] \in Inside \cup {"flock"}
    /\ \A p, q \in Procs : locked[p] /\ locked[q] /\ fd[p] = fd[q] => p = q
    /\ logs => \A p \in Procs : fd[p] # 0 => fd[p] = lockfile
    /\ \A d \in Destroyers : pc[d] \in {"remove", "rmdir"} => ~logs

\* The launch before its first SetPhase; a destroy after its terraform.
Early == {"idle", "new", "record", "open", "flock"}
Settled == {"revoke", "archive", "archive-logs", "remove", "rmdir"}

\* What the VM relies on, and what a destroy that ran terraform to the end does.
BilledInv ==
    /\ logs => dir
    /\ pc[Launcher] \in Early => phase = "session"
    /\ locked[Launcher] /\ phase # "session" /\ logs => meta # None
    /\ vm = "tracked" \/ child = "apply" => dir /\ logs /\ meta # None
    /\ \A d \in Destroyers : pc[d] \in Settled => vm # "tracked" /\ child # "apply"

\* A torn metadata.json is about to be completed.
SavingInv == meta = Torn => \E p \in Procs : saving[p]

\* What a destroy has done by the time it reports success.
SuccessInv ==
    /\ ~dir => meta = None /\ lockfile = 0 /\ ~logs
    /\ \A d \in Destroyers :
        /\ pc[d] \in {"archive-logs", "remove", "rmdir"} => archived
        /\ pc[d] \in {"leave-ok", "ok"} => archived /\ ~dir

----
(* Type correctness. *)

\* The steps of the pipeline are steps.
LEMMA AfterIsStep == ASSUME NEW ph \in PlainPhases PROVE After(ph) \in Steps
BY DEF After, AfterBundle, PlainPhases, Steps, LaunchSteps, Phases

\* A record with one field changed is metadata.
LEMMA MetadataFields ==
    /\ NewMeta \in Metadata
    /\ \A m \in Metadata :
        /\ [m EXCEPT !.ip = TRUE] \in Metadata
        /\ [m EXCEPT !.url = TRUE] \in Metadata
        /\ [m EXCEPT !.hash = TRUE] \in Metadata
        /\ \A s \in Statuses : [m EXCEPT !.status = s] \in Metadata
BY DEF NewMeta, Metadata, Statuses

\* Save keeps the types of what it changes.
LEMMA SaveType ==
    ASSUME TypeOK, NEW p \in Procs, NEW m \in Metadata,
           NEW next \in Steps, NEW err \in Steps, Save(p, m, next, err),
           UNCHANGED cloud, phase' \in Phases \cup {"session"}
    PROVE  TypeOK'
BY DEF TypeOK, Save, Goto, cloud

\* No step of the launch pipeline breaks a type.
LEMMA LaunchType == TypeOK /\ Launch => TypeOK'
<1> SUFFICES ASSUME TypeOK, Launch PROVE TypeOK'
  OBVIOUS
<1> USE MetadataFields
<1>a. /\ Launcher \in Procs
      /\ mem[Launcher] \in Metadata
      /\ Phases \cup LaunchSteps \cup Leaving \cup Resting \cup {"open", "flock", "fail"}
            \subseteq Steps
  BY DEF Procs, TypeOK, Steps, LaunchSteps
<1>1. CASE NewDirs
  BY <1>1, <1>a DEF NewDirs, TypeOK, Goto, disk, cloud, local, LaunchSteps
<1>2. CASE NewSave
  BY <1>2, <1>a, SaveType DEF NewSave, TypeOK, LaunchSteps, Resting
<1>3. CASE RecordBundle
  BY <1>3, <1>a, SaveType DEF RecordBundle, TypeOK, LaunchSteps, Resting
<1>4. CASE SetPhase
  BY <1>4, <1>a, SaveType DEF SetPhase, TypeOK
<1>5. CASE PhaseFails
  BY <1>5, <1>a DEF PhaseFails, TypeOK, Goto, disk, cloud, local
<1>6. CASE \E ph \in PlainPhases : PhaseDone(ph)
  BY <1>6, <1>a, AfterIsStep DEF PhaseDone, TypeOK, Goto, disk, cloud, local
<1>7. CASE Apply
  BY <1>7, <1>a DEF Apply, TypeOK, Goto, disk, cloud, local, LaunchSteps
<1>8. CASE FetchIP
  BY <1>8, <1>a, SaveType DEF FetchIP, TypeOK, Phases
<1>9. CASE RedialDone
  BY <1>9, <1>a DEF RedialDone, TypeOK, Goto, disk, cloud, local, Phases
<1>10. CASE RedialPanics
  BY <1>10, <1>a DEF RedialPanics, Drop, TypeOK, Goto, disk, cloud, local, Resting
<1>11. CASE Mint
  BY <1>11, <1>a DEF Mint, TypeOK, Goto, disk, cloud, local, LaunchSteps
<1>12. CASE MintLost
  BY <1>12, <1>a DEF MintLost, TypeOK, Goto, disk, cloud, local
<1>13. CASE MintSave
  BY <1>13, <1>a, SaveType DEF MintSave, TypeOK, Phases
<1>14. CASE ComposeUp
  BY <1>14, <1>a DEF ComposeUp, TypeOK, Goto, disk, cloud, local, LaunchSteps
<1>15. CASE SetURL
  BY <1>15, <1>a, SaveType DEF SetURL, TypeOK, Phases
<1>16. CASE MarkReady
  BY <1>16, <1>a, SaveType DEF MarkReady, TypeOK, Statuses, Leaving
<1>17. CASE FailLaunch
  BY <1>17, <1>a, SaveType DEF FailLaunch, TypeOK, Statuses, Leaving
<1> QED
  BY <1>1, <1>2, <1>3, <1>4, <1>5, <1>6, <1>7, <1>8, <1>9, <1>10, <1>11, <1>12,
     <1>13, <1>14, <1>15, <1>16, <1>17 DEF Launch

\* No step of the terraform child breaks a type.
LEMMA TerraformType == TypeOK /\ Terraform => TypeOK'
<1> SUFFICES ASSUME TypeOK, Terraform PROVE TypeOK'
  OBVIOUS
<1>1. {"outputs", "revoke", "fail"} \subseteq Steps
  BY DEF Steps, LaunchSteps, Phases, DestroySteps
<1>2. CASE ApplyCreates
  BY <1>2 DEF ApplyCreates, TypeOK, disk, local
<1>3. CASE ApplyRecords
  BY <1>3 DEF ApplyRecords, TypeOK, disk, local
<1>4. CASE DestroyDeletes
  BY <1>4 DEF DestroyDeletes, TypeOK, disk, local
<1>5. CASE ChildKilled
  BY <1>5, <1>1 DEF ChildKilled, ChildEnds, TypeOK, disk, local
<1>6. ASSUME NEW done \in BOOLEAN, ApplyEnds(done) PROVE TypeOK'
  BY <1>6, <1>1 DEF ApplyEnds, ChildEnds, TypeOK, disk, local
<1>7. ASSUME NEW done \in BOOLEAN, DestroyEnds(done) PROVE TypeOK'
  BY <1>7, <1>1 DEF DestroyEnds, ChildEnds, TypeOK, disk, local
<1> QED
  BY <1>2, <1>3, <1>4, <1>5, <1>6, <1>7 DEF Terraform

\* No step of a destroy breaks a type.
LEMMA DestroyType ==
    ASSUME NEW d \in Destroyers, TypeOK, Destroy(d) PROVE TypeOK'
<1>a. /\ d \in Procs /\ mem[d] \in Metadata /\ NewMeta \in Metadata
      /\ DestroySteps \cup Leaving \cup Resting \cup {"open", "fail"} \subseteq Steps
  BY DEF Procs, TypeOK, Steps, NewMeta, Metadata, Statuses
<1>b. \A s \in {"destroying", "failed-destroy"} : [mem[d] EXCEPT !.status = s] \in Metadata
  BY <1>a DEF Metadata, Statuses
<1>1. CASE Resolve(d)
  BY <1>1, <1>a DEF Resolve, Readable, TypeOK, Goto, disk, cloud, Resting, DestroySteps
<1>2. CASE Confirm(d)
  BY <1>2, <1>a DEF Confirm, TypeOK, Goto, disk, cloud, local
<1>3. CASE Decline(d)
  BY <1>3, <1>a DEF Decline, TypeOK, Goto, disk, cloud, local, Resting
<1>4. ASSUME NEW ok \in BOOLEAN, LoadRunner(d, ok) PROVE TypeOK'
  BY <1>4, <1>a DEF LoadRunner, TypeOK, Goto, disk, cloud, local, DestroySteps, Leaving
<1>5. CASE Begin(d)
  BY <1>5, <1>a, <1>b, SaveType DEF Begin, TypeOK, DestroySteps
<1>6. ASSUME NEW ok \in BOOLEAN, TerraformInit(d, ok) PROVE TypeOK'
  BY <1>6, <1>a DEF TerraformInit, TypeOK, Goto, disk, cloud, local, DestroySteps
<1>7. CASE TerraformDestroy(d)
  BY <1>7, <1>a DEF TerraformDestroy, TypeOK, Goto, disk, local, DestroySteps
<1>8. CASE Revoke(d)
  BY <1>8, <1>a DEF Revoke, TypeOK, Goto, disk, local, DestroySteps
<1>9. CASE RevokeFails(d)
  BY <1>9, <1>a DEF RevokeFails, TypeOK, Goto, disk, local
<1>10. CASE ArchiveMeta(d)
  BY ZenonT(60), <1>10, <1>a DEF ArchiveMeta, TypeOK, Goto, cloud, local, DestroySteps, Leaving
<1>11. CASE ArchiveLogs(d)
  BY ZenonT(60), <1>11, <1>a DEF ArchiveLogs, TypeOK, Goto, cloud, local, DestroySteps
<1>12. CASE RemoveFiles(d)
  BY <1>12, <1>a DEF RemoveFiles, TypeOK, Goto, cloud, local, DestroySteps
<1>13. CASE RemoveDir(d)
  BY <1>13, <1>a DEF RemoveDir, TypeOK, Goto, cloud, local, Leaving
<1>14. CASE ArchiveFails(d)
  BY <1>14, <1>a DEF ArchiveFails, TypeOK, Goto, disk, cloud, local, Leaving
<1>15. CASE FailDestroy(d)
  BY <1>15, <1>a, <1>b, SaveType DEF FailDestroy, TypeOK, Leaving
<1> QED
  BY <1>1, <1>2, <1>3, <1>4, <1>5, <1>6, <1>7, <1>8, <1>9, <1>10, <1>11, <1>12,
     <1>13, <1>14, <1>15 DEF Destroy

\* No step that launch and destroy share breaks a type.
LEMMA SharedType ==
    ASSUME NEW p \in Procs, TypeOK, Runs(p) \/ WriteFails(p) \/ Crash(p)
    PROVE  TypeOK'
<1>a. Resting \cup {"stage", "load", "flock", "fail"} \subseteq Steps
  BY DEF Steps, LaunchSteps, Phases, DestroySteps
<1>1. CASE Write(p)
  BY <1>1 DEF Write, TypeOK
<1>2. CASE WriteFails(p)
  BY <1>2, <1>a DEF WriteFails, TypeOK, Goto, disk, cloud, Resting
<1>3. CASE OpenLock(p)
  BY <1>3, <1>a DEF OpenLock, TypeOK, Goto, cloud, Resting
<1>4. CASE Flock(p)
  BY <1>4, <1>a DEF Flock, TypeOK, Goto, disk, cloud, Resting
<1>5. CASE Leave(p)
  BY <1>5, <1>a, MetadataFields DEF Leave, Drop, TypeOK, Goto, disk, cloud, Resting
<1>6. CASE Crash(p)
  BY <1>6, <1>a, MetadataFields DEF Crash, Drop, TypeOK, Goto, disk, cloud, Resting
<1> QED
  BY <1>1, <1>2, <1>3, <1>4, <1>5, <1>6 DEF Runs

\* The processes, the files and the remote resources keep their types.
THEOREM TypeCorrect == Spec => []TypeOK
<1>1. Init => TypeOK
  <2> SUFFICES ASSUME Init PROVE TypeOK
    OBVIOUS
  <2>1. opt \in SUBSET Features
    BY OptionsAssumption DEF Init
  <2>2. NewMeta \in Metadata /\ "idle" \in Steps
    BY MetadataFields DEF Steps, Resting
  <2> QED
    BY <2>1, <2>2 DEF Init, TypeOK
<1>2. TypeOK /\ [Next]_vars => TypeOK'
  <2> SUFFICES ASSUME TypeOK, [Next]_vars PROVE TypeOK'
    OBVIOUS
  <2>1. CASE Next
    BY <2>1, LaunchType, TerraformType, DestroyType, SharedType DEF Next
  <2>2. CASE UNCHANGED vars
    BY <2>2 DEF TypeOK, vars, disk, cloud, local
  <2> QED
    BY <2>1, <2>2
<1> QED
  BY <1>1, <1>2, PTL DEF Spec

----
(* Rewriting metadata.json. *)

\* A process is rewriting metadata.json only at the steps that follow a Save.
LEMMA SavingInvariant == Spec => []SavingSteps
<1>1. Init => SavingSteps
  BY DEF Init, SavingSteps
<1>2. TypeOK /\ SavingSteps /\ [Next]_vars => SavingSteps'
  <2> SUFFICES ASSUME TypeOK, SavingSteps, [Next]_vars PROVE SavingSteps'
    OBVIOUS
  <2>a. Launcher \in Procs /\ \A d \in Destroyers : d \in Procs
    BY DEF Procs
  <2>b. /\ Phases \cup Leaving \cup {"fail", "init", "outputs", "revoke"} \subseteq Inside
        /\ Inside \cup Resting \cup {"record", "open"} \subseteq Steps
        /\ Resting \cap (Inside \cup {"record", "open"}) = {}
    BY DEF Inside, LaunchSteps, Phases, DestroySteps, Steps, Leaving, Resting
  <2>c. ASSUME NEW p \in Procs, NEW m, NEW next \in Inside \cup {"record", "open"},
               NEW err \in Steps, ~saving[p], Save(p, m, next, err)
        PROVE  SavingSteps'
    BY <2>b, <2>c DEF Save, Goto, SavingSteps, TypeOK
  <2>1. CASE Launch
    <3>1. CASE NewSave
      BY <3>1, <2>a, <2>b, <2>c DEF NewSave, At, Resting
    <3>2. CASE RecordBundle
      BY <3>2, <2>a, <2>b, <2>c DEF RecordBundle, At, Resting
    <3>3. CASE SetPhase
      BY <3>3, <2>a, <2>b, <2>c DEF SetPhase
    <3>4. CASE FetchIP
      BY <3>4, <2>a, <2>b, <2>c DEF FetchIP, Working, At, Phases
    <3>5. CASE MintSave
      BY <3>5, <2>a, <2>b, <2>c DEF MintSave, At, Phases
    <3>6. CASE SetURL
      BY <3>6, <2>a, <2>b, <2>c DEF SetURL, At, Phases
    <3>7. CASE MarkReady
      BY <3>7, <2>a, <2>b, <2>c DEF MarkReady, Working, At, Leaving
    <3>8. CASE FailLaunch
      BY <3>8, <2>a, <2>b, <2>c DEF FailLaunch, At, Leaving
    <3>9. CASE NewDirs \/ PhaseFails \/ Apply \/ RedialDone \/ RedialPanics
               \/ Mint \/ MintLost \/ ComposeUp
      BY <3>9, <2>a DEF NewDirs, PhaseFails, Apply, RedialDone, RedialPanics, Mint,
         MintLost, ComposeUp, Working, At, Goto, Drop, local, SavingSteps, TypeOK
    <3>10. CASE \E ph \in PlainPhases : PhaseDone(ph)
      BY <3>10, <2>a DEF PhaseDone, Working, At, Goto, local, SavingSteps, TypeOK
    <3> QED
      BY <2>1, <3>1, <3>2, <3>3, <3>4, <3>5, <3>6, <3>7, <3>8, <3>9, <3>10 DEF Launch
  <2>2. CASE Terraform
    <3>1. ASSUME NEW done \in BOOLEAN, NEW next \in Inside, ChildEnds(done, next)
          PROVE  SavingSteps'
      BY <3>1, <2>b DEF ChildEnds, local, SavingSteps, TypeOK
    <3>2. CASE ApplyCreates \/ ApplyRecords \/ DestroyDeletes
      BY <3>2 DEF ApplyCreates, ApplyRecords, DestroyDeletes, local, SavingSteps
    <3> QED
      BY <2>2, <3>1, <3>2, <2>b DEF Terraform, ApplyEnds, DestroyEnds, ChildKilled
  <2>3. ASSUME NEW d \in Destroyers, Destroy(d) PROVE SavingSteps'
    <3>1. CASE Begin(d)
      BY <3>1, <2>a, <2>b, <2>c DEF Begin, At
    <3>2. CASE FailDestroy(d)
      BY <3>2, <2>a, <2>b, <2>c DEF FailDestroy, At, Leaving
    <3>3. CASE Resolve(d)
      BY <3>3, <2>a, <2>b DEF Resolve, Goto, SavingSteps, TypeOK
    <3>4. CASE \E ok \in BOOLEAN : LoadRunner(d, ok) \/ TerraformInit(d, ok)
      BY <3>4, <2>a DEF LoadRunner, TerraformInit, At, Goto, local, SavingSteps, TypeOK
    <3>5. CASE Confirm(d) \/ Decline(d) \/ TerraformDestroy(d)
               \/ Revoke(d) \/ RevokeFails(d)
      BY <3>5, <2>a DEF Confirm, Decline, TerraformDestroy, Revoke, RevokeFails, At,
         Goto, local, SavingSteps, TypeOK
    <3>6. CASE ArchiveMeta(d) \/ ArchiveLogs(d) \/ RemoveFiles(d) \/ RemoveDir(d)
               \/ ArchiveFails(d)
      BY <3>6, <2>a DEF ArchiveMeta, ArchiveLogs, RemoveFiles, RemoveDir, ArchiveFails,
         At, Goto, local, SavingSteps, TypeOK
    <3> QED
      BY <2>3, <3>1, <3>2, <3>3, <3>4, <3>5, <3>6 DEF Destroy
  <2>4. ASSUME NEW p \in Procs, Runs(p) \/ WriteFails(p) \/ Crash(p) PROVE SavingSteps'
    BY <2>4 DEF Runs, Write, WriteFails, OpenLock, Flock, Leave, Crash, At, Drop, Goto,
       SavingSteps, TypeOK
  <2>5. CASE UNCHANGED vars
    BY <2>5 DEF vars, local, SavingSteps, Inside
  <2> QED
    BY <2>1, <2>2, <2>3, <2>4, <2>5 DEF Next
<1> QED
  BY <1>1, <1>2, TypeCorrect, PTL DEF Spec

----
(* The terraform child. *)

\* A process that waits for terraform waits for a child of its own kind.
LEMMA ChildInvariant == Spec => []ChildInv
<1>1. Init => ChildInv
  BY DEF Init, ChildInv
<1>2. TypeOK /\ ChildInv /\ [Next]_vars => ChildInv'
  <2> SUFFICES ASSUME TypeOK, ChildInv, [Next]_vars PROVE ChildInv'
    OBVIOUS
  <2> DEFINE W == {"applying", "destroying"}
  <2>a. Launcher \in Procs /\ \A d \in Destroyers : d \in Procs
    BY DEF Procs
  <2>b. (Phases \cup Leaving \cup Resting \cup {"redial"}) \cap W = {}
    BY DEF Phases, Leaving, Resting
  <2>c. ASSUME NEW p \in Procs, NEW s, s \notin W, Goto(p, s), child' = child
        PROVE  ChildInv'
    BY <2>c DEF Goto, ChildInv, TypeOK
  <2>1. CASE Launch
    <3>1. CASE Apply
      BY <3>1, <2>a DEF Apply, Goto, ChildInv, TypeOK
    <3>2. CASE \E ph \in PlainPhases : PhaseDone(ph)
      <4>1. \A ph \in PlainPhases : After(ph) \in Phases \cup {"redial"}
        BY DEF After, AfterBundle, PlainPhases, Phases
      <4> QED
        BY <4>1, <3>2, <2>a, <2>b, <2>c DEF PhaseDone, cloud
    <3>3. CASE NewDirs \/ PhaseFails \/ RedialDone \/ RedialPanics
               \/ Mint \/ MintLost \/ ComposeUp
      BY <3>3, <2>a, <2>b, <2>c DEF NewDirs, PhaseFails, RedialDone, RedialPanics, Drop,
         Mint, MintLost, ComposeUp, cloud
    <3>4. CASE SetPhase
      BY <3>4, <2>a, <2>b, <2>c DEF SetPhase, Save, cloud
    <3>5. CASE NewSave \/ RecordBundle \/ FetchIP \/ MintSave \/ SetURL
               \/ MarkReady \/ FailLaunch
      BY <3>5, <2>a, <2>b, <2>c DEF NewSave, RecordBundle, FetchIP, MintSave, SetURL,
         MarkReady, FailLaunch, Save, cloud
    <3> QED
      BY <2>1, <3>1, <3>2, <3>3, <3>4, <3>5 DEF Launch
  <2>2. CASE Terraform
    <3>1. ASSUME NEW done, NEW next \in {"outputs", "revoke", "fail"},
                 ChildEnds(done, next)
          PROVE  ChildInv'
      BY <3>1 DEF ChildEnds, ChildInv
    <3>2. CASE ApplyCreates \/ ApplyRecords \/ DestroyDeletes
      BY <3>2 DEF ApplyCreates, ApplyRecords, DestroyDeletes, ChildInv
    <3> QED
      BY <2>2, <3>1, <3>2 DEF Terraform, ApplyEnds, DestroyEnds, ChildKilled
  <2>3. ASSUME NEW d \in Destroyers, Destroy(d) PROVE ChildInv'
    <3>1. CASE TerraformDestroy(d)
      BY <3>1, <2>a DEF TerraformDestroy, Goto, ChildInv, TypeOK
    <3>2. CASE Begin(d) \/ FailDestroy(d)
      BY <3>2, <2>a, <2>b, <2>c DEF Begin, FailDestroy, Save, cloud
    <3>3. CASE \E ok \in BOOLEAN : LoadRunner(d, ok) \/ TerraformInit(d, ok)
      BY <3>3, <2>a, <2>c DEF LoadRunner, TerraformInit, cloud
    <3>4. CASE Resolve(d) \/ Confirm(d) \/ Decline(d) \/ Revoke(d) \/ RevokeFails(d)
      BY <3>4, <2>a, <2>c DEF Resolve, Confirm, Decline, Revoke, RevokeFails, cloud
    <3>5. CASE ArchiveMeta(d) \/ ArchiveLogs(d) \/ RemoveFiles(d) \/ RemoveDir(d)
               \/ ArchiveFails(d)
      BY <3>5, <2>a, <2>c DEF ArchiveMeta, ArchiveLogs, RemoveFiles, RemoveDir,
         ArchiveFails, cloud
    <3> QED
      BY <2>3, <3>1, <3>2, <3>3, <3>4, <3>5 DEF Destroy
  <2>4. ASSUME NEW p \in Procs, Runs(p) \/ WriteFails(p) \/ Crash(p) PROVE ChildInv'
    <3>1. CASE Write(p)
      BY <3>1 DEF Write, ChildInv
    <3>2. CASE WriteFails(p)
      BY <3>2 DEF WriteFails, Goto, cloud, ChildInv, TypeOK
    <3>3. CASE OpenLock(p) \/ Flock(p) \/ Leave(p) \/ Crash(p)
      BY <3>3, <2>c DEF OpenLock, Flock, Leave, Crash, Drop, cloud
    <3> QED
      BY <2>4, <3>1, <3>2, <3>3 DEF Runs
  <2>5. CASE UNCHANGED vars
    BY <2>5 DEF vars, cloud, ChildInv
  <2> QED
    BY <2>1, <2>2, <2>3, <2>4, <2>5 DEF Next
<1> QED
  BY <1>1, <1>2, TypeCorrect, PTL DEF Spec

----
(* The lock. *)

\* A step of process p that stays inside the lock, touching neither .lock,
\* the directories nor the flocks.
LEMMA StaysInside ==
    ASSUME TypeOK, LockInv, NEW p \in Procs, NEW s \in Inside,
           pc[p] \in Inside, pc' = [pc EXCEPT ![p] = s],
           IF p = Launcher THEN s \notin DestroySteps
           ELSE s \notin LaunchSteps \cup {"remove", "rmdir"},
           UNCHANGED <<dir, logs, lockfile, fd, locked>>
    PROVE  LockInv'
<1>1. /\ Launcher \in Procs /\ \A d \in Destroyers : d \in Procs /\ d # Launcher
      /\ \A q \in Procs : q = Launcher \/ q \in Destroyers
  BY LauncherAssumption DEF Procs
<1>2. pc \in [Procs -> Steps] /\ pc' \in [Procs -> Steps]
  BY DEF TypeOK, Inside, Steps
<1>3. "idle" \notin Inside /\ \A t \in Inside : t \in Common \cup LaunchSteps \cup DestroySteps
  BY DEF Inside, Common, LaunchSteps, Phases, DestroySteps, Leaving
<1>4. pc'[Launcher] \in Common \cup LaunchSteps
  BY <1>1, <1>2, <1>3 DEF LockInv
<1>5. \A d \in Destroyers : pc'[d] \in Common \cup DestroySteps
  BY <1>1, <1>2, <1>3 DEF LockInv
<1>6. Untouched'
  <2> SUFFICES ASSUME pc'[Launcher] = "idle" PROVE FALSE
    BY DEF Untouched
  <2>1. p # Launcher /\ pc[Launcher] = "idle"
    BY <1>1, <1>2, <1>3
  <2>2. pc[p] \in {"idle", "over"}
    BY <2>1, <1>1 DEF LockInv, Untouched
  <2> QED
    BY <2>2 DEF Inside, LaunchSteps, Phases, DestroySteps, Leaving
<1>7. \A q \in Procs : pc'[q] \in Inside <=> pc[q] \in Inside
  BY <1>2
<1>8. \A d \in Destroyers : pc'[d] \in {"remove", "rmdir"} => ~logs'
  BY <1>1, <1>2 DEF LockInv
<1> QED
  BY <1>4, <1>5, <1>6, <1>7, <1>8 DEF LockInv, Inside

\* A step of process p that stays outside it.
LEMMA StaysOutside ==
    ASSUME TypeOK, LockInv, NEW p \in Procs,
           NEW s \in {"over", "new", "record", "open", "confirm"},
           pc[p] \notin Inside \cup {"flock"}, pc' = [pc EXCEPT ![p] = s],
           IF p = Launcher THEN s # "confirm"
           ELSE s \in {"over", "confirm", "open"} /\ pc[Launcher] # "idle",
           UNCHANGED <<dir, logs, lockfile, fd, locked>>
    PROVE  LockInv'
<1>1. /\ Launcher \in Procs /\ \A d \in Destroyers : d \in Procs /\ d # Launcher
      /\ \A q \in Procs : q = Launcher \/ q \in Destroyers
  BY LauncherAssumption DEF Procs
<1>2. pc \in [Procs -> Steps] /\ pc' \in [Procs -> Steps]
  BY DEF TypeOK, Steps, Resting, LaunchSteps, DestroySteps
<1>3. /\ s \notin Inside \cup {"flock", "idle", "remove", "rmdir"}
      /\ s # "confirm" => s \in Common \cup LaunchSteps
      /\ s \in {"over", "confirm", "open"} => s \in Common \cup DestroySteps
  BY DEF Inside, Common, LaunchSteps, Phases, DestroySteps, Leaving, Resting
<1>4. pc'[Launcher] \in Common \cup LaunchSteps
  BY <1>1, <1>2, <1>3 DEF LockInv
<1>5. \A d \in Destroyers : pc'[d] \in Common \cup DestroySteps
  BY <1>1, <1>2, <1>3 DEF LockInv
<1>6. Untouched'
  <2> SUFFICES ASSUME pc'[Launcher] = "idle" PROVE FALSE
    BY DEF Untouched
  <2> QED
    BY <1>1, <1>2, <1>3
<1>7. \A q \in Procs : pc'[q] \in Inside \cup {"flock"} <=> pc[q] \in Inside \cup {"flock"}
  BY <1>2, <1>3
<1>8. \A q \in Procs : pc'[q] \in Inside <=> pc[q] \in Inside
  BY <1>2, <1>3
<1>9. \A d \in Destroyers : pc'[d] \in {"remove", "rmdir"} => ~logs'
  BY <1>1, <1>2, <1>3 DEF LockInv
<1> QED
  BY <1>4, <1>5, <1>6, <1>7, <1>8, <1>9 DEF LockInv

\* The end of a process, whatever ended it.
LEMMA DropsLock ==
    ASSUME TypeOK, LockInv, NEW p \in Procs, NEW end \in Terminals, Drop(p, end),
           pc[p] \notin Resting,
           UNCHANGED <<dir, logs, lockfile>>
    PROVE  LockInv'
<1>1. /\ Launcher \in Procs /\ \A d \in Destroyers : d \in Procs /\ d # Launcher
      /\ \A q \in Procs : q = Launcher \/ q \in Destroyers
  BY LauncherAssumption DEF Procs
<1>2. pc' = [pc EXCEPT ![p] = end] /\ pc \in [Procs -> Steps]
  BY DEF Drop, Goto, TypeOK
<1>3. end \in Common /\ end \notin Inside \cup {"flock", "idle", "remove", "rmdir"}
  BY DEF Terminals, Inside, Common, LaunchSteps, Phases, DestroySteps, Leaving, Resting
<1>4. /\ pc'[p] = end /\ fd'[p] = 0 /\ ~locked'[p]
      /\ \A q \in Procs \ {p} : pc'[q] = pc[q] /\ fd'[q] = fd[q] /\ locked'[q] = locked[q]
  BY <1>2 DEF Drop, TypeOK
<1>5. pc'[Launcher] \in Common \cup LaunchSteps
  BY <1>1, <1>3, <1>4 DEF LockInv
<1>6. \A d \in Destroyers : pc'[d] \in Common \cup DestroySteps
  BY <1>1, <1>3, <1>4 DEF LockInv
<1>7. Untouched'
  <2> SUFFICES ASSUME pc'[Launcher] = "idle" PROVE FALSE
    BY DEF Untouched
  <2>1. p # Launcher /\ pc[Launcher] = "idle"
    BY <1>1, <1>3, <1>4
  <2> QED
    BY <2>1, <1>1 DEF LockInv, Untouched, Resting
<1>8. \A q \in Procs : locked'[q] <=> pc'[q] \in Inside
  BY <1>3, <1>4 DEF LockInv
<1>9. \A q \in Procs : fd'[q] # 0 <=> pc'[q] \in Inside \cup {"flock"}
  BY <1>3, <1>4 DEF LockInv
<1>10. \A q, r \in Procs : locked'[q] /\ locked'[r] /\ fd'[q] = fd'[r] => q = r
  BY <1>4 DEF LockInv
<1>11. logs' => \A q \in Procs : fd'[q] # 0 => fd'[q] = lockfile'
  BY <1>4 DEF LockInv
<1>12. \A d \in Destroyers : pc'[d] \in {"remove", "rmdir"} => ~logs'
  BY <1>1, <1>3, <1>4 DEF LockInv
<1> QED
  BY <1>5, <1>6, <1>7, <1>8, <1>9, <1>10, <1>11, <1>12 DEF LockInv

\* The launch pipeline keeps the lock discipline.
LEMMA LaunchLock == TypeOK /\ SavingSteps /\ LockInv /\ Launch => LockInv'
<1> SUFFICES ASSUME TypeOK, SavingSteps, LockInv, Launch PROVE LockInv'
  OBVIOUS
<1> DEFINE L == Launcher
<1>a. L \in Procs /\ \A d \in Destroyers : d \in Procs /\ d # L
  BY LauncherAssumption DEF Procs
<1>b. /\ Phases \cup {"fail", "applying", "mint-save", "url", "redial"} \cup Leaving
            \subseteq Inside \ DestroySteps
      /\ {"idle", "new", "record"} \cap (Inside \cup {"flock"}) = {}
      /\ \A ph \in PlainPhases : ph \in Phases /\ After(ph) \in Phases \cup {"redial"}
  BY DEF Inside, LaunchSteps, Phases, DestroySteps, Leaving, PlainPhases, After, AfterBundle
<1>c. ASSUME NEW m, NEW next, NEW err, NEW s \in {"new", "record"},
             At(L, s), next \in {"record", "open"}, err = "over", Save(L, m, next, err)
      PROVE  LockInv'
  BY <1>a, <1>b, <1>c, StaysOutside DEF Save, Goto, At
<1>d. ASSUME NEW m, NEW next \in Inside \ DestroySteps, NEW err \in Inside \ DestroySteps,
             pc[L] \in Inside, Save(L, m, next, err)
      PROVE  LockInv'
  BY <1>a, <1>d, StaysInside DEF Save, Goto
<1>e. ASSUME NEW next \in Inside \ DestroySteps, pc[L] \in Inside, Goto(L, next),
             UNCHANGED <<dir, logs, lockfile, fd, locked>>
      PROVE  LockInv'
  BY <1>a, <1>e, StaysInside DEF Goto
<1>1. CASE NewDirs
  <2>1. /\ pc[L] = "idle" /\ pc' = [pc EXCEPT ![L] = "new"]
        /\ UNCHANGED <<lockfile, fd, locked>>
    BY <1>1 DEF NewDirs, At, Goto, local
  <2>2. \A p \in Procs : pc[p] \in {"idle", "over"}
    BY <2>1 DEF LockInv, Untouched, Procs
  <2>3. \A p \in Procs : pc'[p] \in {"idle", "over", "new"}
    BY <2>1, <2>2 DEF TypeOK
  <2>4. {"idle", "over", "new"} \cap (Inside \cup {"flock", "remove", "rmdir"}) = {}
    BY DEF Inside, LaunchSteps, Phases, DestroySteps, Leaving
  <2>5. \A p \in Procs : ~locked[p] /\ fd[p] = 0
    BY <2>2, <2>4 DEF LockInv, TypeOK
  <2>6. pc'[L] \in Common \cup LaunchSteps /\ pc'[L] # "idle"
    BY <2>1, <1>a DEF TypeOK, LaunchSteps
  <2>7. \A d \in Destroyers : pc'[d] \in Common \cup DestroySteps
    BY <2>1, <1>a DEF LockInv, TypeOK
  <2> QED
    BY <1>a, <2>1, <2>3, <2>4, <2>5, <2>6, <2>7 DEF LockInv, Untouched
<1>2. CASE NewSave
  BY <1>2, <1>c DEF NewSave
<1>3. CASE RecordBundle
  BY <1>3, <1>c DEF RecordBundle
<1>4. CASE SetPhase
  BY <1>4, <1>b, <1>d DEF SetPhase
<1>5. CASE PhaseFails
  BY <1>5, <1>b, <1>e DEF PhaseFails, disk, local
<1>6. ASSUME NEW ph \in PlainPhases, PhaseDone(ph) PROVE LockInv'
  BY <1>6, <1>b, <1>e DEF PhaseDone, Working, At, disk, local
<1>7. CASE Apply
  BY <1>7, <1>b, <1>e DEF Apply, Working, At, disk, local, Phases
<1>8. CASE FetchIP
  BY <1>8, <1>b, <1>d DEF FetchIP, Working, At, Phases
<1>9. CASE RedialDone
  BY <1>9, <1>b, <1>e DEF RedialDone, At, disk, local, Phases
<1>10. CASE RedialPanics
  BY <1>10, <1>a, DropsLock DEF RedialPanics, At, disk, Resting, Terminals
<1>11. CASE Mint
  BY <1>11, <1>b, <1>e DEF Mint, Working, At, disk, local, Phases
<1>12. CASE MintLost
  BY <1>12, <1>b, <1>e DEF MintLost, Working, At, disk, local, Phases
<1>13. CASE MintSave
  BY <1>13, <1>b, <1>d DEF MintSave, At, Phases
<1>14. CASE ComposeUp
  BY <1>14, <1>b, <1>e DEF ComposeUp, Working, At, disk, local, Phases
<1>15. CASE SetURL
  BY <1>15, <1>b, <1>d DEF SetURL, At, Phases
<1>16. CASE MarkReady
  BY <1>16, <1>b, <1>d DEF MarkReady, Working, At, Phases, Leaving
<1>17. CASE FailLaunch
  BY <1>17, <1>b, <1>d DEF FailLaunch, At, Leaving
<1> QED
  BY <1>1, <1>2, <1>3, <1>4, <1>5, <1>6, <1>7, <1>8, <1>9, <1>10, <1>11, <1>12,
     <1>13, <1>14, <1>15, <1>16, <1>17 DEF Launch

\* The end of a terraform child leaves its process inside the lock.
LEMMA TerraformLock == TypeOK /\ ChildInv /\ LockInv /\ Terraform => LockInv'
<1> SUFFICES ASSUME TypeOK, ChildInv, LockInv, Terraform PROVE LockInv'
  OBVIOUS
<1>a. Launcher \in Procs /\ \A d \in Destroyers : d \in Procs /\ d # Launcher
  BY LauncherAssumption DEF Procs
<1>b. /\ {"applying", "outputs", "destroying", "revoke", "fail"} \subseteq Inside
      /\ {"applying", "outputs"} \subseteq LaunchSteps \ (DestroySteps \cup Common)
      /\ {"destroying", "revoke"} \subseteq DestroySteps \ (LaunchSteps \cup Common)
      /\ "fail" \in Common
  BY DEF Inside, LaunchSteps, Phases, DestroySteps, Common, Resting, Leaving
<1>1. CASE ApplyCreates \/ ApplyRecords \/ DestroyDeletes
  <2>1. UNCHANGED <<dir, logs, lockfile, meta, pc, fd, locked>>
    BY <1>1 DEF ApplyCreates, ApplyRecords, DestroyDeletes, disk, local
  <2> QED
    BY <2>1 DEF LockInv, Untouched
<1>2. ASSUME NEW done \in BOOLEAN, NEW next \in {"outputs", "revoke", "fail"},
             ChildEnds(done, next),
             next = "outputs" => \A p \in Procs : pc[p] # "destroying",
             next = "revoke" => \A p \in Procs : pc[p] # "applying"
      PROVE  LockInv'
  <2>1. \A p \in Procs :
          \/ pc'[p] = pc[p]
          \/ pc[p] \in {"applying", "destroying"} /\ pc'[p] \in {next, "fail"}
    BY <1>2 DEF ChildEnds
  <2>2. \A p \in Procs : pc'[p] \in Inside <=> pc[p] \in Inside
    BY <2>1, <1>b, <1>2
  <2>3. pc'[Launcher] \in Common \cup LaunchSteps /\ (pc'[Launcher] = "idle" => pc[Launcher] = "idle")
    BY <2>1, <1>2, <1>a, <1>b DEF LockInv
  <2>4. \A d \in Destroyers : /\ pc'[d] \in Common \cup DestroySteps
                              /\ pc'[d] \in {"remove", "rmdir", "flock"} <=>
                                     pc'[d] = pc[d] /\ pc[d] \in {"remove", "rmdir", "flock"}
    BY <2>1, <1>2, <1>a, <1>b DEF LockInv
  <2>5. \A p \in Procs : pc'[p] \in Inside \cup {"flock"} <=> pc[p] \in Inside \cup {"flock"}
    BY <2>1, <1>b, <1>2
  <2>6. Untouched'
    BY <2>1, <2>3, <1>2, <1>a DEF Untouched, LockInv, ChildEnds, disk
  <2>7. UNCHANGED <<logs, lockfile, fd, locked>>
    BY <1>2 DEF ChildEnds, disk, local
  <2> QED
    BY <2>2, <2>3, <2>4, <2>5, <2>6, <2>7, <1>a DEF LockInv
<1>3. ASSUME NEW done \in BOOLEAN, ApplyEnds(done) PROVE LockInv'
  <2>1. \A p \in Procs : pc[p] # "destroying"
    BY <1>3 DEF ApplyEnds, ChildInv
  <2> QED
    BY <1>2, <1>3, <2>1 DEF ApplyEnds
<1>4. ASSUME NEW done \in BOOLEAN, DestroyEnds(done) PROVE LockInv'
  <2>1. \A p \in Procs : pc[p] # "applying"
    BY <1>4 DEF DestroyEnds, ChildInv
  <2> QED
    BY <1>2, <1>4, <2>1 DEF DestroyEnds
<1>5. CASE ChildKilled
  BY <1>2, <1>5 DEF ChildKilled
<1> QED
  BY <1>1, <1>3, <1>4, <1>5 DEF Terraform

\* A destroy keeps it, RemoveAll of the .lock file included.
LEMMA DestroyLock ==
    ASSUME TypeOK, SavingSteps, LockInv, NEW d \in Destroyers, Destroy(d)
    PROVE  LockInv'
<1>a. Launcher \in Procs /\ d \in Procs /\ d # Launcher
  BY LauncherAssumption DEF Procs
<1>b. /\ DestroySteps \ {"confirm"} \subseteq Inside
      /\ Leaving \cup {"fail"} \subseteq Inside
      /\ (Resting \cup {"confirm", "open"}) \cap (Inside \cup {"flock"}) = {}
      /\ (DestroySteps \cup Leaving \cup {"fail"}) \cap LaunchSteps = {}
  BY DEF Inside, LaunchSteps, Phases, DestroySteps, Leaving, Resting
<1> DEFINE Going == (DestroySteps \ {"confirm", "remove", "rmdir"})
                        \cup Leaving \cup {"fail"}
<1>c. ASSUME NEW s \in Going, pc[d] \in Inside, Goto(d, s),
             UNCHANGED <<dir, logs, lockfile, fd, locked>>
      PROVE  LockInv'
  <2>1. s \in Inside /\ s \notin LaunchSteps \cup {"remove", "rmdir"}
    BY <1>b, <1>c DEF Leaving
  <2> QED
    BY <1>a, <1>c, <2>1, StaysInside DEF Goto
<1>d. pc[d] \notin {"idle", "over"} => pc[Launcher] # "idle"
  BY DEF LockInv, Untouched
<1>1. CASE Resolve(d)
  <2>1. /\ pc[d] \notin Inside \cup {"flock"}
        /\ UNCHANGED <<dir, logs, lockfile, meta, fd, locked>>
    BY <1>1, <1>b DEF Resolve, disk
  <2>2. CASE pc[Launcher] = "idle"
    <3>1. meta = None
      BY <2>2 DEF LockInv, Untouched
    <3>2. pc' = [pc EXCEPT ![d] = "over"]
      BY <1>1, <3>1 DEF Resolve, Readable, Goto
    <3>3. "over" \in Common /\ "over" \notin Inside
      BY <1>b DEF Common, Resting
    <3>4. pc'[d] = "over" /\ \A q \in Procs \ {d} : pc'[q] = pc[q]
      BY <1>a, <3>2 DEF TypeOK
    <3>5. \A q \in Procs : /\ pc'[q] \in Inside <=> pc[q] \in Inside
                           /\ pc'[q] \in Inside \cup {"flock"}
                                <=> pc[q] \in Inside \cup {"flock"}
      BY <2>1, <3>3, <3>4
    <3>6. \A e \in Destroyers : e \in Procs /\ e # Launcher
      BY LauncherAssumption DEF Procs
    <3> QED
      BY <1>a, <2>1, <2>2, <3>3, <3>4, <3>5, <3>6 DEF LockInv, Untouched
  <2>3. CASE pc[Launcher] # "idle"
    BY <1>1, <1>a, <2>1, <2>3, StaysOutside DEF Resolve, Goto
  <2> QED
    BY <2>2, <2>3
<1>2. CASE Confirm(d) \/ Decline(d)
  <2>1. pc[Launcher] # "idle" /\ pc[d] \notin Inside \cup {"flock"}
    BY <1>2, <1>b, <1>d DEF Confirm, Decline, At
  <2> QED
    BY <1>2, <1>a, <2>1, StaysOutside DEF Confirm, Decline, Goto, disk, local
<1>3. ASSUME NEW ok \in BOOLEAN, LoadRunner(d, ok) \/ TerraformInit(d, ok) PROVE LockInv'
  BY <1>3, <1>b, <1>c DEF LoadRunner, TerraformInit, At, disk, local, DestroySteps, Leaving
<1>4. CASE Begin(d)
  BY <1>4, <1>b, <1>c DEF Begin, Save, At, DestroySteps
<1>5. CASE TerraformDestroy(d)
  BY <1>5, <1>b, <1>c DEF TerraformDestroy, At, disk, local, DestroySteps
<1>6. CASE Revoke(d) \/ RevokeFails(d)
  BY <1>6, <1>b, <1>c DEF Revoke, RevokeFails, At, disk, local, DestroySteps
<1>7. CASE ArchiveMeta(d)
  BY <1>7, <1>b, <1>c DEF ArchiveMeta, At, local, DestroySteps, Leaving
<1>8. CASE ArchiveFails(d)
  BY <1>8, <1>b, <1>c DEF ArchiveFails, disk, local, DestroySteps, Leaving
<1>9. CASE FailDestroy(d)
  BY <1>9, <1>b, <1>c DEF FailDestroy, Save, At, Leaving
<1>10. CASE ArchiveLogs(d) \/ RemoveFiles(d) \/ RemoveDir(d)
  <2>1. /\ pc[d] \in Inside
        /\ pc[d] \in {"remove", "rmdir"} => ~logs
        /\ pc[d] \notin {"idle", "over"}
    BY <1>10, <1>b DEF ArchiveLogs, RemoveFiles, RemoveDir, At, DestroySteps, LockInv
  <2>2. /\ ~logs'
        /\ UNCHANGED <<fd, locked>>
        /\ \E s \in {"remove", "rmdir", "leave-ok", "leave-failed"} : Goto(d, s)
    BY <1>10, <2>1 DEF ArchiveLogs, RemoveFiles, RemoveDir, At, local
  <2>3. PICK s \in {"remove", "rmdir", "leave-ok", "leave-failed"} : Goto(d, s)
    BY <2>2
  <2>4. s \in Inside /\ s \in Common \cup DestroySteps
    BY <2>3, <1>b DEF DestroySteps, Leaving, Common
  <2>5. pc'[d] = s /\ \A q \in Procs \ {d} : pc'[q] = pc[q]
    BY <1>a, <2>3 DEF TypeOK, Goto
  <2>6. \A q \in Procs : pc'[q] \in Inside <=> pc[q] \in Inside
    BY <2>1, <2>4, <2>5
  <2>7. \A e \in Destroyers : e \in Procs /\ e # Launcher
    BY LauncherAssumption DEF Procs
  <2>8. pc'[Launcher] = pc[Launcher] /\ pc[Launcher] # "idle"
    BY <1>a, <1>d, <2>1, <2>5
  <2>9. \A q \in Procs : pc'[q] \in Inside \cup {"flock"} <=> pc[q] \in Inside \cup {"flock"}
    BY <2>1, <2>4, <2>5
  <2> QED
    BY <2>2, <2>4, <2>5, <2>6, <2>7, <2>8, <2>9 DEF LockInv, Untouched
<1> QED
  BY <1>1, <1>2, <1>3, <1>4, <1>5, <1>6, <1>7, <1>8, <1>9, <1>10 DEF Destroy

\* Opening, locking and leaving keep it, and so do crashes and failed writes.
LEMMA SharedLock ==
    ASSUME TypeOK, SavingSteps, LockInv, NEW p \in Procs,
           Runs(p) \/ WriteFails(p) \/ Crash(p)
    PROVE  LockInv'
<1>a. /\ Launcher \in Procs /\ \A d \in Destroyers : d \in Procs /\ d # Launcher
      /\ \A q \in Procs : q = Launcher \/ q \in Destroyers
  BY LauncherAssumption DEF Procs
<1>b. /\ {"stage", "load", "fail"} \cup Leaving \subseteq Inside
      /\ "stage" \in LaunchSteps /\ "load" \in DestroySteps
      /\ {"fail", "over", "flock", "open"} \subseteq Common
      /\ {"fail", "over"} \cap (LaunchSteps \cup DestroySteps \cup {"idle", "flock"}) = {}
      /\ {"open", "flock", "over", "record"} \cap Inside = {}
      /\ Inside \cup {"flock", "open"} \subseteq Steps \ Resting
  BY DEF Inside, LaunchSteps, Phases, DestroySteps, Common, Resting, Leaving, Steps
<1>1. CASE Write(p)
  <2>1. /\ UNCHANGED <<dir, logs, lockfile, pc, fd, locked>>
        /\ meta = None => meta' = None
    BY <1>1 DEF Write
  <2> QED
    BY <2>1 DEF LockInv, Untouched
<1>2. CASE WriteFails(p)
  <2> DEFINE s == pc'[p]
  <2>1. /\ UNCHANGED <<dir, logs, lockfile, meta, fd, locked>>
        /\ pc' = [pc EXCEPT ![p] = s]
        /\ \A q \in Procs \ {p} : pc'[q] = pc[q]
    BY <1>2 DEF WriteFails, Goto, disk, TypeOK
  <2>2. pc[p] \in Inside \cup {"record", "open"}
    BY <1>2 DEF WriteFails, SavingSteps
  <2>3. CASE s = pc[p]
    <3>1. pc' = pc
      BY <2>1, <2>3 DEF TypeOK
    <3> QED
      BY <2>1, <3>1 DEF LockInv, Untouched
  <2>4. CASE s # pc[p]
    <3>1. p = Launcher
      BY <1>2, <2>4 DEF WriteFails, Goto, TypeOK
    <3>2. \/ s = "over" /\ pc[p] \in {"record", "open"}
          \/ s = "fail" /\ pc[p] \in Inside
      BY <1>2, <2>2, <2>4 DEF WriteFails, Goto, TypeOK
    <3>3. CASE s = "over" /\ pc[p] \in {"record", "open"}
      <4>1. pc[p] \notin Inside \cup {"flock"}
        BY <3>3, <1>b
      <4> QED
        BY <2>1, <3>1, <3>3, <4>1, StaysOutside
    <3>4. CASE s = "fail" /\ pc[p] \in Inside
      BY <2>1, <3>1, <3>4, <1>b, StaysInside
    <3> QED
      BY <3>2, <3>3, <3>4
  <2> QED
    BY <2>3, <2>4
<1>3. CASE OpenLock(p)
  <2>1. pc[p] = "open" /\ pc[p] \notin Inside \cup {"flock"} /\ fd[p] = 0 /\ ~locked[p]
    BY <1>3, <1>b DEF OpenLock, At, LockInv
  <2>2. CASE ~dir
    <3>1. pc[Launcher] # "idle" \/ p = Launcher
      BY <2>1, <1>a DEF LockInv, Untouched
    <3> QED
      BY <1>3, <2>1, <2>2, <3>1, <1>a, StaysOutside DEF OpenLock, Goto
  <2>3. CASE dir
    <3> DEFINE ino == IF lockfile = 0 THEN inodes + 1 ELSE lockfile
    <3>1. /\ lockfile' = ino /\ ino # 0
          /\ lockfile # 0 => ino = lockfile
          /\ fd' = [fd EXCEPT ![p] = ino] /\ pc' = [pc EXCEPT ![p] = "flock"]
          /\ UNCHANGED <<dir, logs, meta, locked>>
      BY <1>3, <2>3 DEF OpenLock, Goto, TypeOK
    <3>2. /\ pc'[p] = "flock" /\ fd'[p] = lockfile' /\ lockfile' # 0 /\ ~locked'[p]
          /\ \A q \in Procs \ {p} : pc'[q] = pc[q] /\ fd'[q] = fd[q]
          /\ \A q \in Procs : locked'[q] = locked[q]
      BY <2>1, <3>1 DEF TypeOK
    <3>3. logs' => \A q \in Procs : fd'[q] # 0 => fd'[q] = lockfile'
      BY <3>1, <3>2 DEF LockInv
    <3>4. \A q \in Procs : locked'[q] <=> pc'[q] \in Inside
      BY <2>1, <3>2, <1>b DEF LockInv
    <3>5. \A q \in Procs : fd'[q] # 0 <=> pc'[q] \in Inside \cup {"flock"}
      BY <3>2 DEF LockInv
    <3>6. Untouched'
      BY <2>1, <3>1, <3>2, <1>a DEF LockInv, Untouched
    <3>7. \A q, r \in Procs : locked'[q] /\ locked'[r] /\ fd'[q] = fd'[r] => q = r
      BY <3>2 DEF LockInv
    <3> QED
      BY <1>a, <1>b, <3>1, <3>2, <3>3, <3>4, <3>5, <3>6, <3>7 DEF LockInv
  <2> QED
    BY <2>2, <2>3
<1>4. CASE Flock(p)
  <2>1. /\ pc[p] = "flock" /\ pc[p] \notin Inside /\ ~locked[p] /\ fd[p] # 0
        /\ UNCHANGED <<dir, logs, lockfile, meta>>
    BY <1>4, <1>b DEF Flock, At, LockInv, disk
  <2>2. /\ \A q \in Procs \ {p} : /\ pc'[q] = pc[q] /\ fd'[q] = fd[q]
                                   /\ locked'[q] = locked[q]
        /\ fd'[p] = IF Busy(p) THEN 0 ELSE fd[p]
        /\ locked'[p] = ~Busy(p)
        /\ pc'[p] = IF Busy(p) THEN "over" ELSE IF p = Launcher THEN "stage" ELSE "load"
    BY <1>4 DEF Flock, Goto, TypeOK
  <2>3. \A q \in Procs \ {p} : ~Busy(p) /\ locked[q] => fd[q] # fd[p]
    BY DEF Busy
  <2>4. /\ pc'[Launcher] \in Common \cup LaunchSteps
        /\ \A d \in Destroyers : pc'[d] \in Common \cup DestroySteps
    BY <1>a, <1>b, <2>2 DEF LockInv
  <2>5. \A q \in Procs : locked'[q] <=> pc'[q] \in Inside
    BY <1>b, <2>2 DEF LockInv
  <2>6. \A q \in Procs : fd'[q] # 0 <=> pc'[q] \in Inside \cup {"flock"}
    BY <1>b, <2>1, <2>2 DEF LockInv
  <2>7. \A q, r \in Procs : locked'[q] /\ locked'[r] /\ fd'[q] = fd'[r] => q = r
    BY <2>2, <2>3 DEF LockInv
  <2>8. Untouched'
    <3> SUFFICES ASSUME pc'[Launcher] = "idle" PROVE FALSE
      BY DEF Untouched
    <3>1. p # Launcher /\ pc[Launcher] = "idle"
      BY <1>a, <2>2
    <3> QED
      BY <2>1, <3>1, <1>a DEF LockInv, Untouched
  <2>9. logs' => \A q \in Procs : fd'[q] # 0 => fd'[q] = lockfile'
    BY <2>1, <2>2 DEF LockInv
  <2>10. \A d \in Destroyers : pc'[d] \in {"remove", "rmdir"} => ~logs'
    BY <1>a, <2>1, <2>2 DEF LockInv
  <2> QED
    BY <2>4, <2>5, <2>6, <2>7, <2>8, <2>9, <2>10 DEF LockInv
<1>5. CASE Leave(p)
  BY <1>5, <1>b, DropsLock DEF Leave, disk, Terminals, Resting
<1>6. CASE Crash(p)
  BY <1>6, DropsLock DEF Crash, disk, Terminals, Resting
<1> QED
  BY <1>1, <1>2, <1>3, <1>4, <1>5, <1>6 DEF Runs

\* The lock discipline holds throughout.
LEMMA LockInvariant == Spec => []LockInv
<1>1. Init => LockInv
  <2> SUFFICES ASSUME Init PROVE LockInv
    OBVIOUS
  <2>1. "idle" \in Common /\ "idle" \notin Inside \cup {"flock"}
    BY DEF Common, Inside, Resting, LaunchSteps, Phases, DestroySteps, Leaving
  <2> QED
    BY <2>1 DEF Init, LockInv, Untouched, Procs
<1>2. TypeOK /\ SavingSteps /\ ChildInv /\ LockInv /\ [Next]_vars => LockInv'
  <2> SUFFICES ASSUME TypeOK, SavingSteps, ChildInv, LockInv, [Next]_vars PROVE LockInv'
    OBVIOUS
  <2>1. CASE Next
    BY <2>1, LaunchLock, TerraformLock, DestroyLock, SharedLock DEF Next
  <2>2. CASE UNCHANGED vars
    BY <2>2 DEF vars, disk, local, LockInv, Untouched
  <2> QED
    BY <2>1, <2>2
<1> QED
  BY <1>1, <1>2, TypeCorrect, SavingInvariant, ChildInvariant, PTL DEF Spec

\* Session.Lock is a mutual exclusion while terraform can run in the session,
\* for any number of destroys, crashes and failed writes included.
THEOREM LockSafe == Spec => []LockExclusive
<1>1. LockInv => LockExclusive
  BY DEF LockInv, LockExclusive
<1> QED
  BY <1>1, LockInvariant, PTL

----
(* What is billed is listed. *)

\* While the logs directory is there, one process at most is inside the lock.
LEMMA Alone ==
    ASSUME LockInv, logs, NEW p \in Procs, NEW q \in Procs,
           pc[p] \in Inside, pc[q] \in Inside
    PROVE  p = q
BY DEF LockInv

\* A step that keeps directories, phase and VM, removes no metadata and lets
\* nobody in.
LEMMA QuietStep ==
    ASSUME BilledInv, UNCHANGED <<dir, logs, phase, vm>>,
           child' = "apply" => child = "apply",
           meta # None => meta' # None,
           locked'[Launcher] => locked[Launcher] \/ phase = "session",
           pc'[Launcher] \in Early => pc[Launcher] \in Early,
           \A d \in Destroyers : pc'[d] \in Settled => pc[d] \in Settled
    PROVE  BilledInv'
BY DEF BilledInv, Early, Settled

\* The launch pipeline provisions only what the metadata accounts for.
LEMMA LaunchBilled == TypeOK /\ LockInv /\ BilledInv /\ Launch => BilledInv'
<1> SUFFICES ASSUME TypeOK, LockInv, BilledInv, Launch PROVE BilledInv'
  OBVIOUS
<1> DEFINE L == Launcher
<1>a. L \in Procs /\ \A d \in Destroyers : d \in Procs /\ d # L
  BY LauncherAssumption DEF Procs
<1>b. /\ (Phases \cup Leaving \cup {"redial", "applying", "mint-save", "url", "fail",
           "over", "failed"}) \cap Early = {}
      /\ {"new", "record", "open"} \subseteq Early
      /\ Phases \subseteq Inside
      /\ Settled \subseteq Inside
  BY DEF Phases, Leaving, Early, Inside, LaunchSteps, Settled, DestroySteps
<1>c. ASSUME NEW s, Goto(L, s), s \notin Early \/ pc[L] \in Early,
             UNCHANGED <<dir, logs, phase, meta, vm, child, locked>>
      PROVE  BilledInv'
  BY <1>a, <1>c, QuietStep DEF Goto, TypeOK
<1>d. ASSUME NEW m, NEW next, NEW err, Save(L, m, next, err),
             {next, err} \cap Early = {} \/ pc[L] \in Early,
             UNCHANGED <<phase, vm, child>>
      PROVE  BilledInv'
  BY <1>a, <1>d, QuietStep, MetaAssumption DEF Save, Goto, TypeOK
<1>1. CASE NewDirs
  <2>1. /\ pc[L] = "idle" /\ ~locked[L] /\ ~logs
        /\ \A d \in Destroyers : pc[d] \in {"idle", "over"}
    BY <1>1, <1>a DEF NewDirs, At, LockInv, Untouched, Inside, LaunchSteps, Phases,
       DestroySteps, Leaving
  <2>2. phase = "session" /\ vm # "tracked" /\ child # "apply"
    BY <2>1 DEF BilledInv, Early
  <2>3. \A d \in Destroyers : pc'[d] \in {"idle", "over"}
    BY <1>1, <1>a, <2>1 DEF NewDirs, Goto, TypeOK
  <2> QED
    BY <1>1, <2>1, <2>2, <2>3 DEF NewDirs, cloud, local, BilledInv, Settled
<1>2. CASE NewSave \/ RecordBundle
  BY <1>2, <1>b, <1>d DEF NewSave, RecordBundle, At, cloud
<1>3. CASE SetPhase
  <2>1. /\ pc[L] \in Phases /\ Save(L, mem[L], pc[L], "fail")
        /\ UNCHANGED <<vm, child>>
    BY <1>3 DEF SetPhase, cloud
  <2>2. /\ UNCHANGED <<dir, logs, locked>>
        /\ dir => meta' # None
        /\ meta # None => meta' # None
    BY <2>1, MetaAssumption DEF Save
  <2>3. pc'[L] \notin Early /\ \A d \in Destroyers : pc'[d] = pc[d]
    BY <2>1, <1>a, <1>b DEF Save, Goto, TypeOK
  <2> QED
    BY <2>1, <2>2, <2>3 DEF BilledInv
<1>4. CASE PhaseFails \/ RedialDone \/ Mint \/ MintLost \/ ComposeUp
  BY <1>4, <1>b, <1>c DEF PhaseFails, RedialDone, Mint, MintLost, ComposeUp, disk, cloud,
     local, Phases
<1>5. ASSUME NEW ph \in PlainPhases, PhaseDone(ph) PROVE BilledInv'
  <2>1. After(ph) \in Phases \cup {"redial"}
    BY DEF After, AfterBundle, PlainPhases, Phases
  <2> QED
    BY <1>5, <2>1, <1>b, <1>c DEF PhaseDone, disk, cloud, local
<1>6. CASE Apply
  <2>1. /\ pc[L] = "terraform-apply" /\ phase = "terraform-apply" /\ logs
        /\ pc' = [pc EXCEPT ![L] = "applying"]
        /\ UNCHANGED <<dir, logs, phase, meta, vm, locked>>
    BY <1>6 DEF Apply, Working, At, Goto, disk, local
  <2>2. pc[L] \in Inside /\ locked[L] /\ meta # None /\ dir
    BY <1>a, <1>b, <2>1 DEF LockInv, BilledInv, Phases
  <2>3. \A d \in Destroyers : pc[d] \notin Settled
    BY <1>a, <1>b, <2>1, <2>2, Alone
  <2>4. pc'[L] \notin Early /\ \A d \in Destroyers : pc'[d] = pc[d]
    BY <1>a, <1>b, <2>1 DEF TypeOK
  <2> QED
    BY <2>1, <2>2, <2>3, <2>4 DEF BilledInv
<1>7. CASE FetchIP \/ MintSave \/ SetURL \/ MarkReady \/ FailLaunch
  BY <1>7, <1>b, <1>d DEF FetchIP, MintSave, SetURL, MarkReady, FailLaunch, cloud, Phases,
     Leaving
<1>8. CASE RedialPanics
  BY <1>8, <1>a, <1>b, QuietStep DEF RedialPanics, Drop, Goto, disk, cloud, TypeOK
<1> QED
  BY <1>1, <1>2, <1>3, <1>4, <1>5, <1>6, <1>7, <1>8 DEF Launch

\* The terraform child creates a VM only in a session that is listed.
LEMMA TerraformBilled == TypeOK /\ ChildInv /\ BilledInv /\ Terraform => BilledInv'
<1> SUFFICES ASSUME TypeOK, ChildInv, BilledInv, Terraform PROVE BilledInv'
  OBVIOUS
<1>a. Launcher \in Procs /\ \A d \in Destroyers : d \in Procs
  BY DEF Procs
<1>1. CASE ApplyCreates \/ ApplyRecords \/ DestroyDeletes
  BY <1>1 DEF ApplyCreates, ApplyRecords, DestroyDeletes, disk, local, BilledInv
<1>2. ASSUME NEW done, NEW next \in {"outputs", "revoke", "fail"}, ChildEnds(done, next),
             done /\ next = "revoke" => vm # "tracked",
             next = "outputs" => \A p \in Procs : pc[p] # "destroying"
      PROVE  BilledInv'
  <2>1. UNCHANGED <<dir, logs, phase, meta, vm, locked>> /\ child' = "none"
    BY <1>2 DEF ChildEnds, disk, local
  <2>2. pc'[Launcher] \in Early => pc[Launcher] \in Early
    BY <1>2, <1>a DEF ChildEnds, Early
  <2>3. \A d \in Destroyers : pc'[d] \in Settled => pc[d] \in Settled \/ vm # "tracked"
    BY <1>2, <1>a DEF ChildEnds, Settled
  <2> QED
    BY <2>1, <2>2, <2>3 DEF BilledInv
<1>3. ASSUME NEW done \in BOOLEAN, ApplyEnds(done) PROVE BilledInv'
  <2>1. \A p \in Procs : pc[p] # "destroying"
    BY <1>3 DEF ApplyEnds, ChildInv
  <2> QED
    BY <1>2, <1>3, <2>1 DEF ApplyEnds
<1>4. ASSUME NEW done \in BOOLEAN, DestroyEnds(done) PROVE BilledInv'
  BY <1>2, <1>4 DEF DestroyEnds
<1>5. CASE ChildKilled
  BY <1>2, <1>5 DEF ChildKilled
<1> QED
  BY <1>1, <1>3, <1>4, <1>5 DEF Terraform

\* A destroy removes metadata only after terraform has removed the VM.
LEMMA DestroyBilled ==
    ASSUME TypeOK, LockInv, BilledInv, NEW d \in Destroyers, Destroy(d)
    PROVE  BilledInv'
<1>a. Launcher \in Procs /\ d \in Procs /\ d # Launcher /\ \A e \in Destroyers : e \in Procs
  BY LauncherAssumption DEF Procs
<1>b. ASSUME NEW s, Goto(d, s), s \notin Settled \/ pc[d] \in Settled,
             child' = "apply" => child = "apply",
             meta # None => meta' # None,
             UNCHANGED <<dir, logs, phase, vm, locked>>
      PROVE  BilledInv'
  BY <1>a, <1>b, QuietStep DEF Goto, TypeOK
<1>1. CASE Resolve(d) \/ Confirm(d) \/ Decline(d)
  BY <1>1, <1>b DEF Resolve, Confirm, Decline, disk, cloud, local, Settled
<1>2. ASSUME NEW ok \in BOOLEAN, LoadRunner(d, ok) \/ TerraformInit(d, ok) PROVE BilledInv'
  BY <1>2, <1>b DEF LoadRunner, TerraformInit, disk, cloud, local, Settled
<1>3. CASE Begin(d) \/ FailDestroy(d)
  BY <1>3, <1>b, MetaAssumption DEF Begin, FailDestroy, Save, cloud, Settled
<1>4. CASE TerraformDestroy(d)
  BY <1>4, <1>b DEF TerraformDestroy, disk, local, Settled
<1>5. CASE Revoke(d) \/ RevokeFails(d)
  BY <1>5, <1>b DEF Revoke, RevokeFails, At, disk, local, Settled
<1>6. CASE ArchiveFails(d)
  BY <1>6, <1>b DEF ArchiveFails, disk, cloud, local, Settled
<1>7. CASE ArchiveMeta(d) \/ ArchiveLogs(d) \/ RemoveFiles(d) \/ RemoveDir(d)
  <2>1. /\ pc[d] \in Settled /\ pc[d] \in Inside
        /\ pc[d] \in {"remove", "rmdir"} => ~logs
    BY <1>7 DEF ArchiveMeta, ArchiveLogs, RemoveFiles, RemoveDir, At, Settled, Inside,
       DestroySteps, LockInv
  <2>2. vm # "tracked" /\ child # "apply"
    BY <2>1 DEF BilledInv
  <2>3. logs => ~locked[Launcher]
    BY <1>a, <2>1, Alone DEF LockInv
  <2>4. pc'[Launcher] = pc[Launcher] /\ UNCHANGED <<phase, vm, child, locked>>
    BY <1>7, <1>a DEF ArchiveMeta, ArchiveLogs, RemoveFiles, RemoveDir, Goto, TypeOK,
       cloud, local
  <2>5. logs' => dir' /\ logs
    BY <1>7, <2>1 DEF ArchiveMeta, ArchiveLogs, RemoveFiles, RemoveDir, BilledInv
  <2> QED
    BY <2>2, <2>3, <2>4, <2>5 DEF BilledInv
<1> QED
  BY <1>1, <1>2, <1>3, <1>4, <1>5, <1>6, <1>7 DEF Destroy

\* Writes, locking and the end of a process keep what is billed listed.
LEMMA SharedBilled ==
    ASSUME TypeOK, LockInv, BilledInv, NEW p \in Procs, Runs(p) \/ WriteFails(p) \/ Crash(p)
    PROVE  BilledInv'
<1>a. Launcher \in Procs /\ \A d \in Destroyers : d \in Procs /\ d # Launcher
  BY LauncherAssumption DEF Procs
<1>1. CASE Write(p)
  BY <1>1, MetaAssumption, QuietStep DEF Write, TypeOK
<1>2. CASE WriteFails(p)
  BY <1>2, <1>a, QuietStep DEF WriteFails, Goto, disk, cloud, TypeOK, Early, Settled
<1>3. CASE OpenLock(p)
  BY <1>3, <1>a, QuietStep DEF OpenLock, At, Goto, cloud, TypeOK, Early, Settled
<1>4. CASE Flock(p)
  <2>1. p = Launcher => phase = "session"
    BY <1>4 DEF Flock, At, BilledInv, Early
  <2> QED
    BY <1>4, <1>a, <2>1, QuietStep DEF Flock, Goto, disk, cloud, TypeOK, Early, Settled
<1>5. CASE Leave(p) \/ Crash(p)
  BY <1>5, <1>a, QuietStep DEF Leave, Crash, Drop, Goto, disk, cloud, TypeOK, Early, Settled
<1> QED
  BY <1>1, <1>2, <1>3, <1>4, <1>5 DEF Runs

\* What is billed is listed, throughout.
LEMMA BilledInvariant == Spec => []BilledInv
<1>1. Init => BilledInv
  BY DEF Init, BilledInv, Procs, Settled
<1>2. TypeOK /\ ChildInv /\ LockInv /\ BilledInv /\ [Next]_vars => BilledInv'
  <2> SUFFICES ASSUME TypeOK, ChildInv, LockInv, BilledInv, [Next]_vars PROVE BilledInv'
    OBVIOUS
  <2>1. CASE Next
    BY <2>1, LaunchBilled, TerraformBilled, DestroyBilled, SharedBilled DEF Next
  <2>2. CASE UNCHANGED vars
    BY <2>2 DEF vars, disk, cloud, local, BilledInv
  <2> QED
    BY <2>1, <2>2
<1> QED
  BY <1>1, <1>2, TypeCorrect, ChildInvariant, LockInvariant, PTL DEF Spec

\* Without a torn write a file that is not JSON is being written.
LEMMA SavingCompletes ==
    ASSUME "torn" \notin Faults, "full" \notin Faults
    PROVE  Spec => []SavingInv
<1>1. Init => SavingInv
  BY MetaAssumption DEF Init, SavingInv
<1>2. TypeOK /\ SavingInv /\ [Next]_vars => SavingInv'
  <2> SUFFICES ASSUME TypeOK, SavingInv, [Next]_vars PROVE SavingInv'
    OBVIOUS
  <2>a. Launcher \in Procs /\ \A d \in Destroyers : d \in Procs
    BY DEF Procs
  <2>b. ASSUME NEW p \in Procs, NEW m, NEW next, NEW err, ~saving[p], Save(p, m, next, err)
        PROVE  SavingInv'
    BY <2>b DEF Save, SavingInv, TypeOK
  <2>c. ASSUME NEW p \in Procs, NEW end, ~saving[p], Drop(p, end), UNCHANGED meta
        PROVE  SavingInv'
    BY <2>c DEF Drop, SavingInv, TypeOK
  <2>d. ASSUME meta' = meta \/ meta' = None, saving' = saving PROVE SavingInv'
    BY <2>d, MetaAssumption DEF SavingInv
  <2>1. CASE Launch
    <3>1. CASE NewSave \/ RecordBundle \/ SetPhase \/ FetchIP \/ MintSave \/ SetURL
               \/ MarkReady \/ FailLaunch
      BY <3>1, <2>a, <2>b DEF NewSave, RecordBundle, SetPhase, FetchIP, MintSave, SetURL,
         MarkReady, FailLaunch, Working, At
    <3>2. CASE RedialPanics
      BY <3>2, <2>a, <2>c DEF RedialPanics, At, disk
    <3>3. CASE NewDirs \/ PhaseFails \/ Apply \/ RedialDone \/ Mint \/ MintLost \/ ComposeUp
               \/ \E ph \in PlainPhases : PhaseDone(ph)
      BY <3>3, <2>d DEF NewDirs, PhaseFails, Apply, RedialDone, Mint, MintLost, ComposeUp,
         PhaseDone, disk, local
    <3> QED
      BY <2>1, <3>1, <3>2, <3>3 DEF Launch
  <2>2. CASE Terraform
    BY <2>2, <2>d DEF Terraform, ApplyCreates, ApplyRecords, DestroyDeletes, ApplyEnds,
       DestroyEnds, ChildKilled, ChildEnds, disk, local
  <2>3. ASSUME NEW d \in Destroyers, Destroy(d) PROVE SavingInv'
    <3>1. CASE Begin(d) \/ FailDestroy(d)
      BY <3>1, <2>a, <2>b DEF Begin, FailDestroy, At
    <3>2. ASSUME ~Begin(d), ~FailDestroy(d) PROVE SavingInv'
      BY <2>3, <2>d, <3>2 DEF Destroy, Resolve, Confirm, Decline, TerraformDestroy,
         LoadRunner, TerraformInit, Revoke, RevokeFails, ArchiveMeta, ArchiveLogs,
         RemoveFiles, RemoveDir, ArchiveFails, disk, local
    <3> QED
      BY <3>1, <3>2
  <2>4. ASSUME NEW p \in Procs, Runs(p) \/ WriteFails(p) \/ Crash(p) PROVE SavingInv'
    <3>1. CASE Write(p)
      BY <3>1, MetaAssumption DEF Write, SavingInv, TypeOK
    <3>2. CASE OpenLock(p) \/ Flock(p)
      BY <3>2, <2>d DEF OpenLock, Flock, disk
    <3>3. CASE Leave(p) \/ Crash(p)
      BY <3>3, <2>c DEF Leave, Crash, disk
    <3> QED
      BY <2>4, <3>1, <3>2, <3>3 DEF Runs, WriteFails
  <2>5. CASE UNCHANGED vars
    BY <2>5, <2>d DEF vars, disk, local
  <2> QED
    BY <2>1, <2>2, <2>3, <2>4, <2>5 DEF Next
<1> QED
  BY <1>1, <1>2, TypeCorrect, PTL DEF Spec

\* As long as writes to metadata.json are not torn, a VM that bills is in a
\* session which list shows and destroy can read.
THEOREM BilledSessionsListed ==
    ASSUME "torn" \notin Faults, "full" \notin Faults
    PROVE  Spec => []BilledIsListed
<1>1. BilledInv /\ SavingInv => BilledIsListed
  BY DEF BilledInv, SavingInv, BilledIsListed, Readable
<1> QED
  BY <1>1, BilledInvariant, SavingCompletes, PTL

----
(* What a successful destroy leaves behind. *)

\* What a destroy has done by then, throughout.
LEMMA SuccessInvariant == Spec => []SuccessInv
<1>1. Init => SuccessInv
  BY DEF Init, SuccessInv, Procs
<1>2. TypeOK /\ LockInv /\ SuccessInv /\ [Next]_vars => SuccessInv'
  <2> SUFFICES ASSUME TypeOK, LockInv, SuccessInv, [Next]_vars PROVE SuccessInv'
    OBVIOUS
  <2> DEFINE Late == {"archive-logs", "remove", "rmdir", "leave-ok", "ok"}
  <2>a. /\ Launcher \in Procs
        /\ \A d \in Destroyers : d \in Procs /\ d # Launcher
    BY LauncherAssumption DEF Procs
  <2>b. ASSUME NEW p \in Procs, NEW s, Goto(p, s), UNCHANGED <<dir, archived>>,
               ~dir => UNCHANGED <<meta, lockfile, logs>>,
               p = Launcher \/ s \notin Late
        PROVE  SuccessInv'
    BY <2>a, <2>b DEF Goto, SuccessInv, TypeOK
  <2>c. ASSUME UNCHANGED <<dir, lockfile, logs, archived, pc>>, meta = None => meta' = None
        PROVE  SuccessInv'
    BY <2>c DEF SuccessInv
  <2>1. CASE Launch
    <3>1. CASE NewDirs
      <4>1. \A d \in Destroyers : pc[d] \in {"idle", "over"}
        BY <3>1 DEF NewDirs, At, LockInv, Untouched
      <4>2. \A d \in Destroyers : pc'[d] = pc[d]
        BY <3>1, <2>a DEF NewDirs, Goto, TypeOK
      <4> QED
        BY <3>1, <4>1, <4>2 DEF NewDirs, SuccessInv
    <3>2. CASE NewSave \/ RecordBundle \/ SetPhase \/ FetchIP \/ MintSave \/ SetURL
               \/ MarkReady \/ FailLaunch
      BY <3>2, <2>a, <2>b DEF NewSave, RecordBundle, SetPhase, FetchIP, MintSave, SetURL,
         MarkReady, FailLaunch, Save
    <3>3. CASE PhaseFails \/ Apply \/ RedialDone \/ RedialPanics \/ Mint \/ MintLost
               \/ ComposeUp \/ \E ph \in PlainPhases : PhaseDone(ph)
      BY <3>3, <2>a, <2>b DEF PhaseFails, Apply, RedialDone, RedialPanics, Drop, Mint,
         MintLost, ComposeUp, PhaseDone, disk
    <3> QED
      BY <2>1, <3>1, <3>2, <3>3 DEF Launch
  <2>2. CASE Terraform
    <3>1. ASSUME NEW done, NEW next \in {"outputs", "revoke", "fail"}, ChildEnds(done, next)
          PROVE  SuccessInv'
      BY <3>1, <2>a DEF ChildEnds, disk, SuccessInv
    <3> QED
      BY <2>2, <2>c, <3>1 DEF Terraform, ApplyCreates, ApplyRecords, DestroyDeletes,
         ApplyEnds, DestroyEnds, ChildKilled, disk
  <2>3. ASSUME NEW d \in Destroyers, Destroy(d) PROVE SuccessInv'
    <3>1. CASE Begin(d) \/ FailDestroy(d)
      BY <3>1, <2>a, <2>b DEF Begin, FailDestroy, Save
    <3>2. CASE Resolve(d) \/ Confirm(d) \/ Decline(d) \/ TerraformDestroy(d)
               \/ Revoke(d) \/ RevokeFails(d) \/ ArchiveFails(d)
      BY <3>2, <2>a, <2>b DEF Resolve, Confirm, Decline, TerraformDestroy, Revoke,
         RevokeFails, ArchiveFails, disk
    <3>3. CASE \E ok \in BOOLEAN : LoadRunner(d, ok) \/ TerraformInit(d, ok)
      BY <3>3, <2>a, <2>b DEF LoadRunner, TerraformInit, disk
    <3>4. CASE ArchiveMeta(d) \/ ArchiveLogs(d) \/ RemoveFiles(d)
      BY <3>4, <2>a DEF ArchiveMeta, ArchiveLogs, RemoveFiles, At, Goto, SuccessInv, TypeOK
    <3>5. CASE RemoveDir(d)
      BY <3>5, <2>a DEF RemoveDir, At, Goto, SuccessInv, LockInv, TypeOK
    <3> QED
      BY <2>3, <3>1, <3>2, <3>3, <3>4, <3>5 DEF Destroy
  <2>4. ASSUME NEW p \in Procs, Runs(p) \/ WriteFails(p) \/ Crash(p) PROVE SuccessInv'
    <3>1. CASE Write(p)
      BY <3>1, <2>c DEF Write
    <3>2. CASE WriteFails(p)
      BY <3>2, <2>a DEF WriteFails, disk, Goto, SuccessInv, TypeOK
    <3>3. CASE OpenLock(p) \/ Flock(p) \/ Crash(p)
      BY <3>3, <2>a, <2>b DEF OpenLock, Flock, Crash, Drop, disk
    <3>4. CASE Leave(p)
      BY <3>4, <2>a DEF Leave, Drop, Goto, disk, SuccessInv, TypeOK
    <3> QED
      BY <2>4, <3>1, <3>2, <3>3, <3>4 DEF Runs
  <2>5. CASE UNCHANGED vars
    BY <2>5, <2>c DEF vars, disk
  <2> QED
    BY <2>1, <2>2, <2>3, <2>4, <2>5 DEF Next
<1> QED
  BY <1>1, <1>2, TypeCorrect, LockInvariant, PTL DEF Spec

\* A destroy that exits with success has archived the metadata and left
\* neither a directory nor a VM that terraform knew, whatever went wrong before.
THEOREM SuccessIsComplete == Spec => []SuccessMeansGone
<1>1. BilledInv /\ SuccessInv => SuccessMeansGone
  BY DEF BilledInv, SuccessInv, SuccessMeansGone
<1> QED
  BY <1>1, BilledInvariant, SuccessInvariant, PTL
====

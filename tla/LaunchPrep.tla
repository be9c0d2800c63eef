---- MODULE LaunchPrep ----
(***************************************************************************)
(* The commands that share the config file, up to the point where a launch *)
(* holds its session: interview init, and interview launch until its       *)
(* content is staged.                                                      *)
(*                                                                         *)
(* Every command loads the file once, edits its own copy and writes the    *)
(* whole copy back, with nothing to keep two commands apart.  Commands run *)
(* in processes; a process started without arguments runs one command      *)
(* after another from its menu, all of them under the context that the     *)
(* first SIGINT cancels for good.                                          *)
(***************************************************************************)
EXTENDS PackContent, FiniteSets

CONSTANTS
    Procs,     \* processes of the interview command
    Budget,    \* bound: per process, what it may still do; init and an answered
               \* prompt count for one, launch for two
    Good,      \* credentials the vendors accept
    Bad,       \* a credential they refuse
    Env,       \* per process, the fields whose credential its environment holds
    Flags,     \* the command lines of launch
    Slugs,     \* what petname can generate
    Trees,     \* what the pack given with --pack may hold
    Attempts,  \* len(RetryDelays) + 1
    None

\* The providers by the role they serve; the local one stores nothing.
Fields == {"vm", "ai", "access"}

\* What a prompt of init asks for.
Prompts == [field : Fields \cup {"local"}, key : Good \cup {Bad}]

ASSUME BoundsAssumption == Budget \in [Procs -> Nat] /\ Attempts \in Nat \ {0}
\* A Cloudflare token in the environment is of no use without the zone, which
\* init stores together with a token.
ASSUME EnvAssumption == Env \in [Procs -> SUBSET {"vm", "ai"}]
ASSUME NamesAssumption ==
    /\ Bad \notin Good
    /\ None \notin Good \cup {Bad} \cup Slugs \cup Trees \cup Prompts
    /\ Slugs \cap Fields = {}
\* An embedded pack cannot contain links.
ASSUME TreesAssumption ==
    Trees \subseteq Packs /\ \A t \in Trees : t.from = "embedded" => t.links = {}

ConfigFiles ==
    [vm : Good \cup {None}, ai : Good \cup {None}, access : Good \cup {None},
     role : {None, "cloud", "local"}, profile : {None, "plain", "ai"},
     size : {None, "size"}]

Zero ==
    [vm |-> None, ai |-> None, access |-> None,
     role |-> None, profile |-> None, size |-> None]

VARIABLES
    file,     \* config.yaml; a missing file reads as Zero
    run,      \* per process, the command it is in
    meta,     \* slug to the metadata.json of its session, or None
    payload,  \* slug to what is staged under docker/payload
    tree,     \* the pack directory
    told,     \* history: per credential, the last one that init stored
    blind,    \* history: per process, what others wrote since it looked
    lost      \* history: credentials overwritten blindly since they were stored

vars == <<file, run, meta, payload, tree, told, blind, lost>>

NoRun(tty, ctx, left) ==
    [pc |-> IF left = 0 THEN "gone" ELSE "menu", tty |-> tty, ctx |-> ctx,
     left |-> left, cfg |-> Zero, flags |-> None, asked |-> None, tries |-> 0,
     pack |-> None, profile |-> None, slug |-> None, mine |-> None, after |-> None]

Init ==
    /\ file \in {Zero} \cup [vm : Good, ai : Good \cup {None}, access : {None},
                              role : {None}, profile : {None}, size : {None}]
    /\ \E tty \in [Procs -> BOOLEAN], started \in SUBSET Procs :
        run = [p \in Procs |-> NoRun(tty[p], TRUE, IF p \in started THEN Budget[p] ELSE 0)]
    /\ meta = [s \in Slugs |-> None]
    /\ payload = [s \in Slugs |-> {}]
    /\ tree \in Trees
    /\ told = [f \in Fields |-> file[f]]
    /\ blind = [p \in Procs |-> {}]
    /\ lost = {}

At(p, pc) == run[p].pc = pc
Goto(p, pc) == run' = [run EXCEPT ![p].pc = pc]

\* The command returns, to the menu or out of the process.
Ended(p) == NoRun(run[p].tty, run[p].ctx, run[p].left)
Return(p) == run' = [run EXCEPT ![p] = Ended(p)]

Others(p) == Procs \ {p}
Unseen(p, x) == [q \in Procs |-> IF q = p THEN blind[q] ELSE blind[q] \cup {x}]

history == <<told, blind, lost>>
disk == <<file, meta, payload, tree>>

----------------------------------------------------------------------------
(* The config file.                                                        *)

\* A command starts: config.Load.
Load(p, pc, flags, cost) ==
    /\ At(p, "menu")
    /\ run[p].left >= cost
    /\ run' = [run EXCEPT ![p].pc = pc, ![p].cfg = file, ![p].flags = flags,
                          ![p].left = @ - cost]
    /\ blind' = [blind EXCEPT ![p] = {}]
    /\ UNCHANGED <<disk, told, lost>>

\* config.Write renames a complete copy over the file.  The credential that
\* was asked for and accepted, if any, is the one now stored.
Write(p) ==
    LET stored == IF run[p].asked = None THEN {} ELSE {run[p].asked.field}
    IN  /\ At(p, "write")
        /\ file' = run[p].cfg
        /\ run' = [run EXCEPT ![p].pc = run[p].after, ![p].asked = None,
                              ![p].after = None]
        /\ told' = [f \in Fields |-> IF f \in stored THEN run[p].asked.key ELSE told[f]]
        /\ blind' = [q \in Procs |-> IF q = p THEN blind[q] \ stored
                                              ELSE blind[q] \cup stored]
        /\ lost' = (lost \cup (blind[p] \cap Fields)) \ stored
        /\ UNCHANGED <<meta, payload, tree>>

\* The temporary file cannot be written: the command fails, the file stays.
WriteFails(p) ==
    /\ At(p, "write")
    /\ Return(p)
    /\ UNCHANGED <<disk, history>>

Save(p, cfg, after) ==
    run' = [run EXCEPT ![p].pc = "write", ![p].cfg = cfg, ![p].after = after]

----------------------------------------------------------------------------
(* interview init.                                                         *)

StartInit(p) == run[p].tty /\ Load(p, "pick", None, 1)

NeedsTerminal(p) ==
    /\ At(p, "menu")
    /\ ~run[p].tty
    /\ run' = [run EXCEPT ![p] = NoRun(run[p].tty, run[p].ctx, run[p].left - 1)]
    /\ UNCHANGED <<disk, history>>

PickExit(p) ==
    /\ At(p, "pick")
    /\ Return(p)
    /\ UNCHANGED <<disk, history>>

\* Mutant of Configure: the block is filled in before the key is tested.
StoreThenTest(p, f, key) ==
    /\ At(p, "pick")
    /\ run[p].left > 0
    /\ run' = [run EXCEPT ![p].pc = "testing", ![p].tries = 1, ![p].left = @ - 1,
                          ![p].cfg = [g \in DOMAIN @ |-> IF g = f THEN key ELSE @[g]],
                          ![p].asked = [field |-> f, key |-> key]]
    /\ UNCHANGED <<disk, history>>

\* A provider is picked and its prompt answered.
Configure(p, f, key) ==
    /\ At(p, "pick")
    /\ run[p].left > 0
    /\ run' = [run EXCEPT ![p].pc = "testing", ![p].tries = 1, ![p].left = @ - 1,
                          ![p].asked = [field |-> f, key |-> key]]
    /\ UNCHANGED <<disk, history>>

\* Configure returns nil after a rejection too, so the copy is written.
Reject(p) ==
    run' = [run EXCEPT ![p].pc = "write", ![p].after = "pick", ![p].tries = 0,
                       ![p].asked = None]

\* A provider's block of the copy receives the credential.
Accept(p) ==
    LET a == run[p].asked
    IN  IF a.field \in Fields
        THEN run' = [run EXCEPT ![p].pc = "write", ![p].after = "pick",
                                ![p].tries = 0, ![p].cfg[a.field] = a.key]
        ELSE Reject(p)

\* One attempt of Retry.  A call under a cancelled context fails, and any
\* call may fail for the vendor's reasons.
AttemptSucceeds(p) ==
    /\ At(p, "testing")
    /\ run[p].ctx
    /\ run[p].asked.key \in Good
    /\ IF run[p].asked.field = "access" THEN Goto(p, "zone") ELSE Accept(p)
    /\ UNCHANGED <<disk, history>>

AttemptFails(p) ==
    /\ At(p, "testing")
    /\ IF run[p].tries = Attempts THEN Reject(p) ELSE Goto(p, "resting")
    /\ UNCHANGED <<disk, history>>

\* The delay before the next attempt ends, or the context ends it.
DelayEnds(p) ==
    /\ At(p, "resting")
    /\ run' = [run EXCEPT ![p].pc = "testing", ![p].tries = @ + 1]
    /\ UNCHANGED <<disk, history>>

DelayCancelled(p) ==
    /\ At(p, "resting")
    /\ ~run[p].ctx
    /\ Reject(p)
    /\ UNCHANGED <<disk, history>>

\* Mutant of LeaveZone: the token is kept although the zone is not.
KeepToken(p) ==
    /\ At(p, "zone")
    /\ run' = [run EXCEPT ![p].pc = "pick", ![p].asked = None, ![p].tries = 0,
                          ![p].cfg.access = run[p].asked.key]
    /\ UNCHANGED <<disk, history>>

\* The Cloudflare zone is picked from the list or typed in; leaving the
\* prompt returns to the menu and stores nothing.
PickZone(p) ==
    /\ At(p, "zone")
    /\ Accept(p)
    /\ UNCHANGED <<disk, history>>

LeaveZone(p) ==
    /\ At(p, "zone")
    /\ run' = [run EXCEPT ![p].pc = "pick", ![p].asked = None, ![p].tries = 0]
    /\ UNCHANGED <<disk, history>>

----------------------------------------------------------------------------
(* interview launch, until the session is made.                            *)

\* The environment is asked first, then the file.
Configured(p, f) == f \in Env[p] \/ run[p].cfg[f] # None

\* Mutant of ActiveAI: any launch with an AI profile takes the AI role.
AssumedAI(p, disabled) == ~disabled

ActiveAI(p, disabled) == ~disabled /\ Configured(p, "ai")

ActiveAccess(p, disabled) == ~disabled /\ Configured(p, "access")

StartLaunch(p, flags) == Load(p, "bundle", flags, 2)

\* A picker that is left or a launch declined; or else, step by step, a pack
\* that does not load or lacks the bundle, no such provider, no such profile,
\* no terraform or no answer from the vendor, no room for the session.
LaunchStops(p) ==
    /\ run[p].pc \in {"bundle", "provider", "profile", "size", "confirm"}
    /\ Return(p)
    /\ UNCHANGED <<disk, history>>

EnsureBundle(p) ==
    /\ At(p, "bundle")
    /\ ~(run[p].flags.bundle /\ run[p].flags.profile # None)
    /\ Loads(tree)
    /\ \E pack \in {None, tree} :
        /\ ~run[p].tty => (pack # None <=> run[p].flags.bundle)
        /\ run[p].flags.bundle => pack # None
        /\ run' = [run EXCEPT ![p].pc = "provider", ![p].pack = pack]
    /\ UNCHANGED <<disk, history>>

\* docker tells whether a docker CLI is on PATH, which is all it takes for
\* the local provider to be configured.
VMProviders(p, docker) ==
    (IF Configured(p, "vm") THEN {"cloud"} ELSE {}) \cup
    (IF docker THEN {"local"} ELSE {})

\* On a terminal any configured provider is picked; otherwise the flag names
\* one or the first, which is a cloud when there is one.
SelectVMProvider(p) ==
    /\ At(p, "provider")
    /\ \E docker \in BOOLEAN :
        LET configured == VMProviders(p, docker)
            flag == run[p].flags.provider
        IN  \E sel \in configured :
            /\ flag # None => sel = flag
            /\ (flag = None /\ ~run[p].tty /\ "cloud" \in configured) => sel = "cloud"
            /\ Save(p, [run[p].cfg EXCEPT !.role = sel], "profile")
    /\ UNCHANGED <<disk, history>>

AfterProfile(p) == IF run[p].cfg.role = "local" THEN "draw" ELSE "size"

\* The profile follows from the bundle and the AI provider.
BundleProfile(p) ==
    /\ At(p, "profile")
    /\ run[p].pack # None
    /\ run' = [run EXCEPT ![p].pc = AfterProfile(p), ![p].profile =
                 IF ActiveAI(p, run[p].flags.noAI) THEN "ai" ELSE "plain"]
    /\ UNCHANGED <<disk, history>>

\* Or it is given, picked or the default, and remembered when it changed.
EnsureProfile(p) ==
    /\ At(p, "profile")
    /\ run[p].pack = None
    /\ \E profile \in {"plain", "ai"} :
        /\ run[p].flags.profile # None => profile = run[p].flags.profile
        /\ (run[p].flags.profile = None /\ ~run[p].tty) => profile = "plain"
        /\ run' = IF profile = run[p].cfg.profile
                  THEN [run EXCEPT ![p].pc = AfterProfile(p), ![p].profile = profile]
                  ELSE [run EXCEPT ![p].pc = "write", ![p].after = AfterProfile(p),
                                   ![p].profile = profile, ![p].cfg.profile = profile]
    /\ UNCHANGED <<disk, history>>

\* Region and size from the flags, or from the pickers and then remembered.
EnsureRegionSize(p) ==
    /\ At(p, "size")
    /\ \/ run[p].flags.sized /\ Goto(p, "confirm")
       \/ /\ ~run[p].flags.sized
          /\ run[p].tty
          /\ Save(p, [run[p].cfg EXCEPT !.size = "size"], "confirm")
    /\ UNCHANGED <<disk, history>>

ConfirmGate(p) ==
    /\ At(p, "confirm")
    /\ Goto(p, "draw")
    /\ UNCHANGED <<disk, history>>

\* What the launch records about its session.
Metadata(p) ==
    [by     |-> p,
     ai     |-> ActiveAI(p, run[p].flags.noAI \/ run[p].profile # "ai"),
     access |-> run[p].cfg.role = "cloud" /\ ActiveAccess(p, run[p].flags.noDNS),
     kind   |-> FALSE]

\* Mutant of Unused: nobody looks.
AnyName(s) == TRUE

\* newSlug draws until it finds a name with no directory.
Unused(s) == meta[s] = None

NewSlug(p) ==
    /\ At(p, "draw")
    /\ \E s \in Slugs :
        /\ Unused(s)
        /\ run' = [run EXCEPT ![p].pc = "make", ![p].slug = s, ![p].mine = Metadata(p)]
        /\ blind' = [blind EXCEPT ![p] = @ \ {s}]
    /\ UNCHANGED <<disk, told, lost>>

Record(p, m) ==
    /\ meta' = [meta EXCEPT ![run[p].slug] = m]
    /\ blind' = Unseen(p, run[p].slug)
    /\ UNCHANGED <<file, tree, told, lost>>

\* New makes the directory, whether or not it is there by now, and saves.
NewSession(p) ==
    /\ At(p, "make")
    /\ Record(p, run[p].mine)
    /\ Goto(p, "fill")
    /\ UNCHANGED payload

\* The second save adds the password, the profile and the bundle.
FillSession(p) ==
    LET m == [run[p].mine EXCEPT !.kind = run[p].pack # None /\ Bundle(run[p].pack).kind]
    IN  /\ At(p, "fill")
        /\ Record(p, m)
        /\ run' = [run EXCEPT ![p].pc = "lock", ![p].mine = m]
        /\ UNCHANGED payload

Holds(q, s) == run[q].pc \in {"stage", "up"} /\ run[q].slug = s

\* No destroy runs here, so that .lock names one inode all the time and its open
\* and its flock are one step; CloudSession tells them apart.
LockSession(p) ==
    /\ At(p, "lock")
    /\ \A q \in Others(p) : ~Holds(q, run[p].slug)
    /\ Goto(p, "stage")
    /\ UNCHANGED <<disk, history>>

LockFails(p) ==
    /\ At(p, "lock")
    /\ \E q \in Others(p) : Holds(q, run[p].slug)
    /\ Return(p)
    /\ UNCHANGED <<disk, history>>

\* Staging saves the phase and copies the bundle from the pack as it is now.
Stage(p) ==
    /\ At(p, "stage")
    /\ run[p].pack # None => Stageable(tree, Bundle(run[p].pack))
    /\ Record(p, run[p].mine)
    /\ payload' = IF run[p].pack = None THEN payload
                  ELSE [payload EXCEPT ![run[p].slug] =
                            @ \cup StagePayload(tree, Bundle(run[p].pack))]
    /\ Goto(p, "up")

\* The walk stops where it fails; failLaunch keeps the session.
StageFails(p) ==
    /\ At(p, "stage")
    /\ run[p].pack # None
    /\ ~Stageable(tree, Bundle(run[p].pack))
    /\ Record(p, run[p].mine)
    /\ \E part \in SUBSET StagePayload(tree, Bundle(run[p].pack)) :
        payload' = [payload EXCEPT ![run[p].slug] = @ \cup part]
    /\ Return(p)

\* The rest of the launch; the lock is released.
LaunchEnds(p) ==
    /\ At(p, "up")
    /\ Return(p)
    /\ UNCHANGED <<disk, history>>

----------------------------------------------------------------------------

\* SIGINT reaches the process while no prompt has the terminal.  What an
\* interrupt does to the later phases is in LaunchWaits.
Interrupt(p) ==
    /\ run[p].pc \in {"testing", "resting", "zone", "size"}
    /\ run[p].ctx
    /\ run' = [run EXCEPT ![p].ctx = FALSE]
    /\ UNCHANGED <<disk, history>>

\* The process is killed; the kernel releases its lock.
Crash(p) ==
    /\ run[p].pc \notin {"menu", "gone"}
    /\ run' = [run EXCEPT ![p] = NoRun(run[p].tty, run[p].ctx, 0)]
    /\ UNCHANGED <<disk, history>>

\* The author of the pack goes on working in its directory.
EditPack ==
    /\ tree.from # "embedded"
    /\ \E t \in Trees : t.from = tree.from /\ t # tree /\ tree' = t
    /\ UNCHANGED <<file, run, meta, payload, history>>

InitCommand(p) ==
    \/ StartInit(p) \/ NeedsTerminal(p) \/ PickExit(p)
    \/ \E f \in Fields \cup {"local"}, key \in Good \cup {Bad} : Configure(p, f, key)
    \/ AttemptSucceeds(p) \/ AttemptFails(p) \/ DelayEnds(p) \/ DelayCancelled(p)
    \/ PickZone(p) \/ LeaveZone(p)

LaunchCommand(p) ==
    \/ \E flags \in Flags : StartLaunch(p, flags)
    \/ LaunchStops(p) \/ EnsureBundle(p) \/ SelectVMProvider(p)
    \/ BundleProfile(p) \/ EnsureProfile(p) \/ EnsureRegionSize(p) \/ ConfirmGate(p)
    \/ NewSlug(p) \/ NewSession(p) \/ FillSession(p)
    \/ LockSession(p) \/ LockFails(p)
    \/ Stage(p) \/ StageFails(p) \/ LaunchEnds(p)

Next ==
    \/ \E p \in Procs : \/ InitCommand(p) \/ LaunchCommand(p)
                        \/ Write(p) \/ WriteFails(p)
                        \/ Interrupt(p) \/ Crash(p)
    \/ EditPack

Spec == Init /\ [][Next]_vars

----------------------------------------------------------------------------
(* Properties.                                                             *)

Metas == [by : Procs, ai : BOOLEAN, access : BOOLEAN, kind : BOOLEAN]

Places ==
    {"menu", "gone", "pick", "testing", "resting", "zone", "write",
     "bundle", "provider", "profile", "size", "confirm",
     "draw", "make", "fill", "lock", "stage", "up"}

\* Where a command goes on after a write.
Returns == {"pick", "profile", "size", "draw", "confirm"}

Tries == 0..Attempts

Runs ==
    [pc : Places, tty : BOOLEAN, ctx : BOOLEAN, left : Nat, cfg : ConfigFiles,
     flags : Flags \cup {None}, asked : Prompts \cup {None}, tries : Tries,
     pack : Trees \cup {None}, profile : {None, "plain", "ai"},
     slug : Slugs \cup {None}, mine : Metas \cup {None}, after : Returns \cup {None}]

\* Every variable stays in its type: no refused credential is ever part of a
\* configuration, on disk or in a command's copy.
TypeOK ==
    /\ file \in ConfigFiles
    /\ run \in [Procs -> Runs]
    /\ meta \in [Slugs -> Metas \cup {None}]
    /\ payload \in [Slugs -> SUBSET Payloads]
    /\ tree \in Trees
    /\ told \in [Fields -> Good \cup {None}]
    /\ blind \in [Procs -> SUBSET (Fields \cup Slugs)]
    /\ lost \in SUBSET Fields

\* A credential that init stored stays in the file until init replaces it,
\* whatever is rejected, left half-way, picked for a launch or cut short by a
\* crash since: only a command that had loaded the file before the
\* credential was stored can lose it.
StoredStays ==
    \A f \in Fields : file[f] = told[f] \/ f \in lost

\* destroy revokes a session's AI key with a credential from its environment or,
\* as a rule, from the file.  A session that was launched with the one in the file
\* leaves one there, unless an overlapping command lost it.  One that was launched
\* with a credential of the environment promises nothing.
Revocable ==
    \A s \in Slugs :
        (meta[s] # None /\ meta[s].ai /\ "ai" \notin Env[meta[s].by]) =>
            (file.ai # None \/ "ai" \in lost)

\* A launch that records over another's session drew the name before the
\* other had made the directory.
NamesAreFresh ==
    [][\A s \in Slugs :
        (meta[s] # None /\ meta'[s] # meta[s]) =>
            (meta'[s].by = meta[s].by \/ s \in blind[meta'[s].by])]_vars

\* A pack that launch accepted can be staged, however late, when nobody has
\* touched it since and it holds no link to a directory below the ones that
\* are copied.  A pack whose own path is a link is accepted unchecked.
AcceptedStages ==
    \A p \in Procs :
        (/\ At(p, "stage")
         /\ run[p].pack = tree
         /\ tree.from # "linked"
         /\ \A l \in tree.links : l.kind # "dir") => Stageable(tree, Bundle(tree))

\* A file from outside the pack reaches the candidate only when the pack changed
\* after it was accepted, or when its own path is a link: accepting is a check of
\* everything that staging will read.
ContentIsChecked ==
    [][\A s \in Slugs : \A item \in payload'[s] \ payload[s] :
        item.from = "outside" =>
            \E p \in Procs :
                /\ run[p].slug = s
                /\ tree # run[p].pack \/ tree.from = "linked"]_vars

\* What the comment of StagePayload says: a solution never leaves the pack.
SolutionStays ==
    \A s \in Slugs : \A item \in payload[s] : item.from # "solution"
====

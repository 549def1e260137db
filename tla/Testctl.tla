------------------------------- MODULE Testctl -------------------------------
(***************************************************************************)
(* The developer tool of src/internal/testctl: one invocation after the    *)
(* other on the same host.  A command is a sequence of steps: mandatory    *)
(* and best-effort commands, checks, and, in the web suites, the start of  *)
(* the API server and of the web preview and the waits for them.           *)
(*                                                                         *)
(* The host is the set of facts that steps use and establish.  External    *)
(* commands may fail at any time and succeed only where what they use is   *)
(* there.  The user may interrupt an invocation and run the same or        *)
(* another command afterwards.                                             *)
(***************************************************************************)
EXTENDS Naturals, Sequences

CONSTANTS
    Commands,       \* the commands that the user runs
    Base,           \* facts that hold on every host
    Optional,       \* facts that hold on some hosts
    WebPorts,       \* values of --web-port or WEB_PORT; 0 stands for none that is valid
    ApiPort,        \* 18080
    Ephemeral,      \* ports that the kernel gives for :0
    LateBind,       \* a server whose launcher was killed may still bind its port
    MaxRuns         \* bound: number of invocations

ASSUME PortsAssumption ==
    /\ ApiPort \in Nat \ {0} /\ Ephemeral \subseteq Nat \ {0} /\ WebPorts \subseteq Nat
    /\ ApiPort \notin Ephemeral
ASSUME RunsAssumption == MaxRuns \in Nat

VARIABLES
    has,            \* facts that hold on the host
    webPort,        \* cfg.WebPort
    runs,           \* number of invocations so far; the last one is the current one
    cmd,            \* its command
    at,             \* its next step: function and position, zeros when it has ended
    code,           \* its exit code
    port,           \* port[s]: the port chosen for service s
    launcher,       \* launcher[s]: "none", "live" or "dead", the child that was started
    tracked,        \* procs of defaultProcManager, as services
    deferred,       \* the kills that the suite has deferred: KillProcesses, or of a service
    starting,       \* servers, as <<service, port, run>>, that will bind their port
    listening       \* servers that did; run 0 for those of others

host == <<has, webPort>>
children == <<launcher, tracked, deferred>>
net == <<port, children, starting, listening>>
vars == <<host, runs, cmd, at, code, net>>

Services == {"api", "web"}
KillProcesses == "killProcesses"

-----------------------------------------------------------------------------
(* Steps.  "do": the invocation fails with the command; "try": the result  *)
(* is ignored; "need": a check; "return": the function ends with success;  *)
(* "port", "defer", "start", "wait": the web suites.  A step is skipped    *)
(* unless the facts of if hold and none of unless does.                    *)

StepOf(op, name, uses, gives) ==
    [op |-> op, name |-> name, uses |-> uses, gives |-> gives, if |-> {}, unless |-> {}]
Do(name, uses, gives) == StepOf("do", name, uses, gives)
Try(name, uses, gives) == StepOf("try", name, uses, gives)
Need(facts) == StepOf("need", "check", facts, {})
When(facts, absent, step) ==
    [op |-> step.op, name |-> step.name, uses |-> step.uses, gives |-> step.gives,
     if |-> facts, unless |-> absent]

\* Two corepack commands stand as one.
installNodeJS ==
    <<When({"corepack"}, {"pnpm"}, Try("corepack", {}, {"pnpm"})),
      Need({"pnpm"}),
      Do("pnpm install", {}, {"nodeDeps"}),
      Do("pnpm install", {}, {"webDeps"})>>

installGo == <<Do("go mod", {}, {"goMods"})>>

\* Mutation: the venv makes its directory, and is made only if that is missing.
installPy_SkipsIfVenv ==
    <<When({}, {"venvDir"}, Do("venv", {}, {"venvDir", "pip"})),
      Try("pip upgrade", {"pip"}, {}),
      Do("pip", {"pip"}, {"pytest", "requests"})>>

\* The directory of the venv, python3 -m venv, pip install.
installPy ==
    <<When({}, {"venvDir"}, Do("mkdir", {}, {"venvDir"})),
      Do("venv", {"venvDir"}, {"pip"}),
      Do("pip", {"pip"}, {"pytest", "requests"})>>

\* Arch and Debian differ in the package manager; elsewhere docker must be
\* there already.  It is looked for by its client; the rest of the package is
\* the daemon, its unit and its group.
installHostDocker ==
    <<When({"arch"}, {"docker"}, Do("pacman", {}, {"docker", "dockerPkg"})),
      When({"debian"}, {"docker"}, Try("apt update", {}, {})),
      When({"debian"}, {"docker"}, Do("apt", {}, {"docker", "dockerPkg"})),
      Need({"docker"}),
      Do("systemctl enable", {"docker", "dockerPkg"}, {"enabled", "active"}),
      Try("usermod", {"dockerPkg"}, {"member"}),
      Try("docker version", {"docker"}, {})>>

\* AUR helpers, apt, and then the tarball of the release.
installHostAct ==
    <<When({"act"}, {}, StepOf("return", "act", {}, {})),
      When({"arch", "yay"}, {"act"}, Try("yay act-bin", {}, {"act", "actRuns"})),
      When({"arch", "yay"}, {"act"}, Try("yay act", {}, {"act", "actRuns"})),
      When({"arch", "paru"}, {"act", "yay"}, Try("paru act-bin", {}, {"act", "actRuns"})),
      When({"arch", "paru"}, {"act", "yay"}, Try("paru act", {}, {"act", "actRuns"})),
      When({"act"}, {}, StepOf("return", "act", {}, {})),
      When({"debian"}, {}, Try("apt update", {}, {})),
      When({"debian"}, {}, Try("apt", {}, {"act", "actRuns"})),
      When({}, {"act"}, Do("curl", {}, {})),
      When({}, {"act"}, Do("tar", {}, {"act", "actRuns"})),
      Do("act version", {"act", "actRuns"}, {})>>

\* Whether the build leaves libllama.so where it is looked for is up to
\* llama.cpp.
installLlamaCUDA ==
    <<Need({"arch"}),
      Try("pacman", {}, {}),
      Do("pacman", {}, {"cuda"}),
      When({}, {"gcc14"}, Try("pacman", {}, {"gcc14"})),
      When({"llamaDir"}, {}, Try("git pull", {"llamaRepo"}, {})),
      When({}, {"llamaDir"}, Do("git clone", {}, {"llamaDir", "llamaRepo"})),
      Do("cmake", {"llamaRepo", "cuda"}, {"configured"}),
      Do("cmake build", {"configured"}, {}),
      Try("place library", {}, {"lib"}),
      Need({"lib"})>>

verifyHostDocker ==
    <<Need({"docker"}),
      Do("docker version", {"docker"}, {}),
      Do("is-enabled", {"enabled"}, {}),
      Do("is-active", {"active"}, {}),
      Do("getent", {"dockerPkg"}, {})>>

verifyHostAct == <<Need({"act"}), Do("act version", {"actRuns"}, {})>>

runGoTests == <<Do("go test", {}, {})>>

\* The venv is made when bin/pytest is missing.
NoPytest(step) == When(step.if, step.unless \cup {"pytest"}, step)
runPyTests ==
    <<NoPytest(installPy[1]), NoPytest(installPy[2]), NoPytest(installPy[3]),
      Do("pytest", {"pytest", "requests"}, {})>>
runPyTestHaiku == runPyTests

\* The two suites differ in the flags of modeld and in what cypress runs under.
webSuite(cypress) ==
    <<Need({"models"}),
      StepOf("port", "api", {}, {}), StepOf("port", "web", {}, {}),
      StepOf("defer", KillProcesses, {}, {}),
      Need({"models"}),
      StepOf("start", "api", {}, {}), StepOf("wait", "api", {}, {}),
      Do("pnpm build", {"pnpm", "webDeps"}, {}),
      StepOf("start", "web", {}, {}), StepOf("wait", "web", {}, {}),
      Do("cypress", cypress, {})>>
testWebLiveHost == webSuite({"nodeDeps"})
testWebHaikuHost == webSuite({"nodeDeps", "xvfb"})

\* runCIAll with two workflow files.
runCIWorkflow == <<Need({"act"}), Do("act", {"actRuns"}, {})>>
listWorkflows == Need({"workflows"})
runCIAll == <<listWorkflows, runCIWorkflow[1], runCIWorkflow[2], runCIWorkflow[1], runCIWorkflow[2]>>

installAll == <<installNodeJS, installGo, installPy>>
installHostAll == <<installHostDocker, installHostAct>>
verifyHostAll == <<verifyHostDocker, verifyHostAct>>
runCIInstallersDocker == <<installHostDocker, verifyHostDocker>>
runCIInstallersAct == <<installHostAct, verifyHostAct>>
runCIInstallersAll == <<installHostDocker, verifyHostDocker, installHostAct, verifyHostAct>>

\* The functions that a command runs in turn; the first error ends it.  A
\* group without a subcommand, and an unknown command, is an error.
Program(c) ==
    CASE c = "install all" -> installAll
      [] c \in {"install nodejs", "install js"} -> <<installNodeJS>>
      [] c = "install go" -> <<installGo>>
      [] c = "install py" -> <<installPy>>
      [] c \in {"install llama", "install llama:cuda", "install go-llama.cpp",
                "install go-llama.cpp:cuda"} -> <<installLlamaCUDA>>
      [] c = "install host:docker" -> <<installHostDocker>>
      [] c = "install host:act" -> <<installHostAct>>
      [] c = "install host:all" -> installHostAll
      [] c = "install verify host:docker" -> <<verifyHostDocker>>
      [] c = "install verify host:act" -> <<verifyHostAct>>
      [] c = "install verify host:all" -> verifyHostAll
      [] c = "test go" -> <<runGoTests>>
      [] c = "test api:py" -> <<runPyTests>>
      [] c = "test py:haiku" -> <<runPyTestHaiku>>
      [] c = "test web host" -> <<testWebLiveHost>>
      [] c = "test web haiku" -> <<testWebHaikuHost>>
      [] c = "test web auto" -> <<<<Need({"models"})>>, testWebLiveHost>>
      [] c = "test all auto" -> <<runGoTests, runPyTests, <<Need({"models"})>>, testWebLiveHost>>
      [] c = "test ci all" -> <<runCIAll>>
      [] c = "test ci one" -> <<runCIWorkflow>>
      [] c = "test ci installers docker" -> runCIInstallersDocker
      [] c = "test ci installers act" -> runCIInstallersAct
      [] c = "test ci installers all" -> runCIInstallersAll
      [] OTHER -> <<<<Need({"subcommand"})>>>>

\* cobra parses the words after `test ci all`: the first "--" ends the flags and
\* is dropped.  What is left is args of RunE.
Dashes(words) == {k \in 1..Len(words) : words[k] = "--"}
FirstDash(words) == CHOOSE k \in Dashes(words) : \A j \in Dashes(words) : k <= j
Before(words) ==
    IF Dashes(words) = {} THEN words ELSE SubSeq(words, 1, FirstDash(words) - 1)
After(words) ==
    IF Dashes(words) = {} THEN <<>> ELSE SubSeq(words, FirstDash(words) + 1, Len(words))
cobraArgs(words) == Before(words) \o After(words)

\* RunE looks for "--" in args: the runner before it, act's own arguments after it.
testCIArgs(args) ==
    [useCat |-> ~(Len(Before(args)) >= 1 /\ Before(args)[1] = "runner:default"),
     extra |-> After(args)]

-----------------------------------------------------------------------------
Running == at # <<0, 0>>
Programs == [c \in Commands |-> Program(c)]
Units == Programs[cmd]
Current == Units[at[1]][at[2]]
Applies(step, facts) == step.if \subseteq facts /\ step.unless \cap facts = {}
IsAt(ops) == Running /\ Applies(Current, has) /\ Current.op \in ops
Possible == Current.uses \subseteq has
Busy(p) == \E w \in listening : w[2] = p

\* The facts that steps establish.
Installed ==
    {"pnpm", "nodeDeps", "webDeps", "goMods", "venvDir", "pip", "pytest", "requests", "docker",
     "dockerPkg", "enabled", "active", "member", "act", "actRuns", "cuda", "gcc14", "llamaDir",
     "llamaRepo", "configured", "lib"}

TypeOK ==
    /\ has \subseteq Base \cup Optional \cup {"arch", "debian"} \cup Installed
    /\ webPort \in Nat /\ runs \in 0..MaxRuns
    /\ runs > 0 => cmd \in Commands
    /\ at \in Nat \X Nat
    /\ Running => runs > 0 /\ at[1] \in 1..Len(Units) /\ at[2] \in 1..Len(Units[at[1]])
    /\ code \in {0, 1, 2, 130}
    /\ port \in [Services -> Nat]
    /\ launcher \in [Services -> {"none", "live", "dead"}]
    /\ tracked \subseteq Services /\ deferred \subseteq Services \cup {KillProcesses}
    /\ starting \cup listening \subseteq Services \X Nat \X (0..MaxRuns)
    \* a started service has its port
    /\ \A s \in Services : launcher[s] = "live" => port[s] > 0
    \* a port has one listener
    /\ \A v, w \in listening : v[2] = w[2] => v = w

Init ==
    /\ \E distro \in {{"arch"}, {"debian"}, {}}, some \in SUBSET Optional :
        has = Base \cup distro \cup some
    /\ webPort \in WebPorts
    /\ runs = 0 /\ cmd = "" /\ at = <<0, 0>> /\ code = 0
    /\ port = [s \in Services |-> 0]
    /\ launcher = [s \in Services |-> "none"] /\ tracked = {} /\ deferred = {}
    /\ starting = {}
    /\ listening \in {{}, {<<"api", ApiPort, 0>>}}

-----------------------------------------------------------------------------
(* The invocation.                                                         *)

\* MainWithArgs.
Invoke(c) ==
    /\ ~Running
    /\ runs < MaxRuns
    /\ runs' = runs + 1
    /\ cmd' = c
    /\ IF c = "" THEN at' = <<0, 0>> /\ code' = 2 ELSE at' = <<1, 1>> /\ code' = 0
    /\ port' = [s \in Services |-> 0]
    /\ launcher' = [s \in Services |-> "none"] /\ tracked' = {} /\ deferred' = {}
    /\ UNCHANGED <<host, starting, listening>>

\* The children that the deferred functions reach: killProcesses kills what is
\* tracked, the kill of a service its own child.
Reached == {s \in Services : s \in deferred \/ (KillProcesses \in deferred /\ s \in tracked)}

\* The command returns, and the function that it is in runs what it has deferred
\* so far.  The kills are SIGKILL to the children: the servers that these
\* launched (modeld under go run, vite under pnpm) are not theirs to kill.  The
\* deferred cancels would kill the same children once more.
Return(exit) ==
    /\ at' = <<0, 0>>
    /\ code' = exit
    /\ launcher' = [s \in Services |->
                       IF launcher[s] = "live" /\ s \in Reached THEN "dead" ELSE launcher[s]]
    /\ starting' = IF LateBind THEN starting ELSE {w \in starting : launcher'[w[1]] = "live"}
    /\ tracked' = {} /\ deferred' = {}
    /\ UNCHANGED <<port, listening>>

\* A web suite is the last function of its command.
NextUnit ==
    IF at[1] < Len(Units)
    THEN at' = <<at[1] + 1, 1>> /\ UNCHANGED <<code, net>>
    ELSE Return(0)

Proceed ==
    IF at[2] < Len(Units[at[1]])
    THEN at' = <<at[1], at[2] + 1>> /\ UNCHANGED <<code, net>>
    ELSE NextUnit

Skip ==
    /\ Running /\ ~Applies(Current, has)
    /\ Proceed
    /\ UNCHANGED <<host, runs, cmd>>

\* A check: exec.LookPath, os.Stat, or the distribution.
Check ==
    /\ IsAt({"need"})
    /\ IF Possible THEN Proceed ELSE Return(1)
    /\ UNCHANGED <<host, runs, cmd>>

EarlyReturn ==
    /\ IsAt({"return"})
    /\ NextUnit
    /\ UNCHANGED <<host, runs, cmd>>

\* RunCmd returns nil.
Succeed ==
    /\ IsAt({"do", "try"}) /\ Possible
    /\ has' = has \cup Current.gives
    /\ Proceed
    /\ UNCHANGED <<webPort, runs, cmd>>

\* What a command that does not succeed may have done: any part of its effect.
Leftovers == IF IsAt({"do", "try"}) /\ Possible THEN SUBSET Current.gives ELSE {{}}

\* Mutation: the error of a mandatory command is ignored.
CommandFails_Ignored ==
    /\ IsAt({"do", "try"})
    /\ \E part \in Leftovers : has' = has \cup part
    /\ Proceed
    /\ UNCHANGED <<webPort, runs, cmd>>

\* RunCmd returns an error.
CommandFails ==
    /\ IsAt({"do", "try"})
    /\ \E part \in Leftovers : has' = has \cup part
    /\ IF Current.op = "try" THEN Proceed ELSE Return(1)
    /\ UNCHANGED <<webPort, runs, cmd>>

\* Ctrl-C.  The terminal signals the whole process group: the children, and what
\* they launched.  testctl has no handler, and runs none of its deferred functions.
Interrupt ==
    /\ Running
    /\ \E part \in Leftovers : has' = has \cup part
    /\ at' = <<0, 0>> /\ code' = 130
    /\ launcher' = [s \in Services |-> IF launcher[s] = "live" THEN "dead" ELSE launcher[s]]
    /\ tracked' = {} /\ deferred' = {}
    /\ starting' = {w \in starting : w[3] # runs}
    /\ listening' = {w \in listening : w[3] # runs}
    /\ UNCHANGED <<webPort, runs, cmd, port>>

-----------------------------------------------------------------------------
(* The web suites.                                                         *)

Free == {p \in Ephemeral : ~Busy(p)}

\* Mutation: the port is not tried.
preferOrFree_Untried(desired) == IF desired = 0 THEN Free ELSE {desired}

\* The desired port if nobody listens on it, else one that the kernel gives.
preferOrFree(desired) == IF desired = 0 \/ Busy(desired) THEN Free ELSE {desired}

\* Mutation: the error of the port search is ignored.
ChoosePort_NoError ==
    LET s == Current.name
        choice == preferOrFree(IF s = "api" THEN ApiPort ELSE webPort)
    IN  /\ IsAt({"port"})
        /\ \E p \in (IF choice = {} THEN {0} ELSE choice) : port' = [port EXCEPT ![s] = p]
        /\ at' = <<at[1], at[2] + 1>>
        /\ UNCHANGED <<code, children, starting, listening, host, runs, cmd>>

ChoosePort ==
    LET s == Current.name
        choice == preferOrFree(IF s = "api" THEN ApiPort ELSE webPort)
    IN  /\ IsAt({"port"})
        /\ \/ \E p \in choice :
                /\ port' = [port EXCEPT ![s] = p]
                /\ at' = <<at[1], at[2] + 1>>
                /\ UNCHANGED <<code, children, starting, listening>>
           \/ choice = {} /\ Return(1)
        /\ UNCHANGED <<host, runs, cmd>>

\* defer killProcesses: what is tracked when the suite returns is killed.
DeferKill ==
    /\ IsAt({"defer"})
    /\ deferred' = deferred \cup {Current.name}
    /\ at' = <<at[1], at[2] + 1>>
    /\ UNCHANGED <<host, runs, cmd, code, port, launcher, tracked, starting, listening>>

\* Mutation: the preview is not registered for the cleanup.
StartServer_NotThePreview ==
    LET s == Current.name
        registers == {s} \ {"web"}
    IN  /\ IsAt({"start"})
        /\ \/ /\ launcher' = [launcher EXCEPT ![s] = "live"]
              /\ tracked' = tracked \cup registers /\ deferred' = deferred \cup registers
              /\ starting' = starting \cup {<<s, port[s], runs>>}
              /\ at' = <<at[1], at[2] + 1>>
              /\ UNCHANGED <<code, port, listening>>
           \/ Return(1)
        /\ UNCHANGED <<host, runs, cmd>>

\* exec.Cmd.Start; then TrackProcess, and the defer of the child's own kill.
StartServer ==
    LET s == Current.name
    IN  /\ IsAt({"start"})
        /\ \/ /\ launcher' = [launcher EXCEPT ![s] = "live"]
              /\ tracked' = tracked \cup {s} /\ deferred' = deferred \cup {s}
              /\ starting' = starting \cup {<<s, port[s], runs>>}
              /\ at' = <<at[1], at[2] + 1>>
              /\ UNCHANGED <<code, port, listening>>
           \/ Return(1)
        /\ UNCHANGED <<host, runs, cmd>>

\* A server binds its port, or ends: the port is taken, or it fails itself.  The
\* suites start modeld without an adapter, which Preflight of this modeld
\* refuses (NoAdapterServes in module Server): it always ends.  One that serves
\* without an adapter, as the documentation has it, is covered too.
Bind(w) ==
    /\ w \in starting
    /\ starting' = starting \ {w}
    /\ listening' = IF Busy(w[2]) THEN listening ELSE listening \cup {w}
    /\ UNCHANGED <<host, runs, cmd, at, code, port, children>>

ServerFails(w) ==
    /\ w \in starting
    /\ starting' = starting \ {w}
    /\ UNCHANGED <<host, runs, cmd, at, code, port, children, listening>>

\* Who answers 200 to the request that waits for s: the preview answers any
\* path, modeld has /healthz only.
Answers(w, s) == w[2] = port[s] /\ (w[1] = "web" \/ s = "api")

Answered ==
    /\ IsAt({"wait"})
    /\ \E w \in listening : Answers(w, Current.name)
    /\ Proceed
    /\ UNCHANGED <<host, runs, cmd>>

\* Mutation: the deadline of waitHTTP is looked at after an answer only.
WaitTimesOut_OnAnswer ==
    /\ IsAt({"wait"})
    /\ \E w \in listening : w[2] = port[Current.name]
    /\ Return(1)
    /\ UNCHANGED <<host, runs, cmd>>

\* waitHTTP gives up after 60 seconds.
WaitTimesOut ==
    /\ IsAt({"wait"})
    /\ Return(1)
    /\ UNCHANGED <<host, runs, cmd>>

-----------------------------------------------------------------------------
Advance ==
    \/ Skip \/ Check \/ EarlyReturn \/ Succeed \/ CommandFails
    \/ ChoosePort \/ DeferKill \/ StartServer \/ Answered \/ WaitTimesOut

AtRest == ~Running /\ runs = MaxRuns /\ UNCHANGED vars

Next ==
    \/ \E c \in Commands : Invoke(c)
    \/ Advance \/ Interrupt
    \/ \E w \in starting : Bind(w) \/ ServerFails(w)
    \/ AtRest

Spec == Init /\ [][Next]_vars

\* testctl is scheduled, the commands it runs end, its timers fire.
FairSpec == Spec /\ WF_vars(Advance)

-----------------------------------------------------------------------------
(* Properties.                                                             *)

\* What a command is for, as facts.
Node == {"nodeDeps", "webDeps"}
Py == {"pytest", "requests"}
Docker == {"docker", "enabled", "active"}
Promise(c) ==
    CASE c = "install all" -> Node \cup Py \cup {"goMods"}
      [] c \in {"install nodejs", "install js"} -> Node
      [] c = "install go" -> {"goMods"}
      [] c \in {"install py", "test api:py", "test py:haiku"} -> Py
      [] c \in {"install llama", "install llama:cuda", "install go-llama.cpp",
                "install go-llama.cpp:cuda"} -> {"llamaRepo", "lib"}
      [] c = "install host:docker" -> Docker
      [] c = "install host:act" -> {"act"}
      [] c = "install host:all" -> Docker \cup {"act"}
      [] c \in {"install verify host:docker", "test ci installers docker"} -> Docker \cup {"dockerPkg"}
      [] c \in {"install verify host:act", "test ci installers act", "test ci one"} -> {"act", "actRuns"}
      [] c \in {"install verify host:all", "test ci installers all"} ->
            Docker \cup {"dockerPkg", "act", "actRuns"}
      [] c = "test go" -> {}
      [] c \in {"test web host", "test web auto"} -> Node \cup {"models"}
      [] c = "test web haiku" -> Node \cup {"models", "xvfb"}
      [] c = "test all auto" -> Node \cup Py \cup {"models"}
      [] c = "test ci all" -> {"act", "actRuns", "workflows"}
      [] OTHER -> {"subcommand"}

\* MainWithArgs returns 0 only if everything the command is for is done: no
\* error on the way to it is lost, whatever earlier invocations left behind.
ExitZeroMeansDone == ~Running /\ runs > 0 /\ code = 0 => Promise(cmd) \subseteq has

\* No child of a web suite outlives it: at whichever of its returns it leaves,
\* what it has deferred by then reaches every child that it has started by then.
\* (What an interrupt ends is the kernel's to say.)
SuiteCleansUp == ~Running /\ code \in {0, 1} => \A s \in Services : launcher[s] # "live"

\* Cypress talks to the servers of this invocation, not to those that an
\* earlier one, or somebody else, left on the preferred ports.
OwnServers ==
    Running /\ Current.name = "cypress" =>
        \A w \in listening, s \in Services : w[2] = port[s] => w[1] = s /\ w[3] = runs

\* The outcome of a step, a function and a command in which every external
\* command that can succeed does.
IdealStep(state, step) ==
    IF ~state.ok \/ state.done \/ ~Applies(step, state.has) THEN state
    ELSE IF step.op = "return" THEN [state EXCEPT !.done = TRUE]
    ELSE IF step.uses \subseteq state.has THEN [state EXCEPT !.has = @ \cup step.gives]
    ELSE [state EXCEPT !.ok = step.op = "try"]
IdealUnit(state, unit) ==
    LET after[k \in 0..Len(unit)] ==
            IF k = 0 THEN [state EXCEPT !.done = FALSE] ELSE IdealStep(after[k - 1], unit[k])
    IN  after[Len(unit)]
Ideal(c, facts) ==
    LET after[u \in 0..Len(Program(c))] ==
            IF u = 0 THEN [has |-> facts, ok |-> TRUE, done |-> FALSE]
            ELSE IdealUnit(after[u - 1], Program(c)[u])
    IN  after[Len(Program(c))]
CanSucceed(c, facts) == Ideal(c, facts).ok

\* Whatever part of their effect commands left when they failed or were
\* interrupted, "install all" can be run again where it could be run before, and
\* it repairs what the tests need, a venv that has pytest and not the rest of the
\* requirements included: after it the API tests, and the web tests on a host
\* with models, can succeed.
Repairs(facts) ==
    LET after == Ideal("install all", facts)
    IN  /\ after.ok
        /\ CanSucceed("test api:py", after.has)
        /\ "models" \in facts => CanSucceed("test all auto", after.has)
InstallRepairs == [][CanSucceed("install all", has) => Repairs(has')]_has

\* Running a command again is enough: no invocation, failed or interrupted, puts
\* the host into a state where a command that could have succeeded cannot.
StaysPossible == [][\A c \in Commands : CanSucceed(c, has) => CanSucceed(c, has')]_has

\* Every invocation ends.
InvocationEnds == Running ~> ~Running

\* FEATURES.md: "Runner token selects image mappings; extra args forwarded to `act`."
ExtraArgsForwarded ==
    \A n \in 0..3 : \A words \in [1..n -> {"runner:default", "--", "-j"}] :
        testCIArgs(cobraArgs(words)).extra = After(words)

\* No server of a suite is left when it has returned.
SuiteLeavesNothing == ~Running => \A w \in listening : w[3] = 0

-----------------------------------------------------------------------------
(* The inductive invariants behind them.                                   *)

\* The steps of a web suite that choose, start and await a service.
PortStep == [api |-> 2, web |-> 3]
StartStep == [api |-> 6, web |-> 9]
WaitStep == [api |-> 7, web |-> 10]
IsSuite(unit) == unit \in {testWebLiveHost, testWebHaikuHost}
Passed(k) == Running /\ IsSuite(Units[at[1]]) /\ at[2] > k

\* Only a web suite that got there has children, with a deferred kill each, and
\* ports for them.
Launched ==
    \A s \in Services :
        /\ launcher[s] = "live" => Passed(StartStep[s]) /\ s \in deferred
        /\ Passed(PortStep[s]) => port[s] > 0

\* The servers of a run come from its suite; on a port that the suite chose
\* only they listen, and who answered the suite is the one it asked for.
Servers ==
    /\ \A w \in starting :
        Running /\ w[3] = runs /\ w[2] = port[w[1]] /\ launcher[w[1]] = "live"
    /\ \A w \in starting \cup listening :
        w[3] <= runs /\ (Running /\ w[3] = runs => Passed(StartStep[w[1]]))
    /\ \A s \in Services :
        /\ Passed(PortStep[s]) => \A w \in listening : w[2] = port[s] => w[3] = runs
        /\ Passed(WaitStep[s]) => \E w \in listening : w[1] = s /\ w[2] = port[s]

\* A mandatory step that is behind has done its part; a function is done when
\* all of them have, or when it found that there was nothing to do.
StepDone(step, facts) ==
    step.op \in {"do", "need"} /\ step.if = {} /\ step.unless = {}
        => step.uses \cup step.gives \subseteq facts
UnitDone(unit, facts) ==
    \/ \A k \in 1..Len(unit) : StepDone(unit[k], facts)
    \/ \E k \in 1..Len(unit) : unit[k].op = "return" /\ unit[k].if \subseteq facts
Done ==
    /\ Running => /\ \A u \in 1..(at[1] - 1) : UnitDone(Units[u], has)
                  /\ \A k \in 1..(at[2] - 1) : StepDone(Units[at[1]][k], has)
    /\ ~Running /\ runs > 0 /\ code = 0 => \A u \in 1..Len(Units) : UnitDone(Units[u], has)
=============================================================================

---------------------------- MODULE TestctlProofs ----------------------------
(***************************************************************************)
(* Proofs about module Testctl: exit codes, children and servers of the    *)
(* developer tool, for every host, every choice of ports and any number of *)
(* invocations.                                                            *)
(***************************************************************************)
EXTENDS Testctl, TLAPS

-----------------------------------------------------------------------------
(* The shape of the programs.                                              *)

\* A step outside the web suites.
PlainStep(step) ==
    /\ step.op \in {"do", "try", "need", "return"} /\ step.name # "cypress"
    /\ step.gives \subseteq Installed
    /\ step.op = "need" => step.gives = {}
PlainUnit(unit) == Len(unit) \in Nat \ {0} /\ \A k \in 1..Len(unit) : PlainStep(unit[k])

\* A function that is done has established the facts.
Yields(unit, facts) == \A f : UnitDone(unit, f) => facts \subseteq f

\* Where a function has no early return, all of its mandatory steps have done
\* their part when it is done.
LEMMA NoShortcut ==
    ASSUME NEW unit, \A k \in 1..Len(unit) : unit[k].op # "return",
           NEW f, UnitDone(unit, f)
    PROVE  \A k \in 1..Len(unit) : StepDone(unit[k], f)
    BY DEF UnitDone

\* installNodeJS.
LEMMA NodeShape == PlainUnit(installNodeJS) /\ Yields(installNodeJS, Node)
<1> DEFINE P(k) == PlainStep(installNodeJS[k]) /\ installNodeJS[k].op # "return"
<1>1. Len(installNodeJS) = 4 /\ P(1) /\ P(2) /\ P(3) /\ P(4)
    BY DEF PlainStep, Installed, installNodeJS, Node, Do, Try, When, Need, StepOf
<1>2. \A k \in 1..Len(installNodeJS) : P(k)
    BY <1>1
<1>3. PlainUnit(installNodeJS)
    BY <1>1, <1>2 DEF PlainUnit
<1>4. ASSUME NEW f, UnitDone(installNodeJS, f)
      PROVE  Node \subseteq f
    <2>1. \A k \in 1..Len(installNodeJS) : StepDone(installNodeJS[k], f)
        BY <1>2, <1>4, NoShortcut
    <2>2. StepDone(installNodeJS[3], f) /\ StepDone(installNodeJS[4], f)
        BY <1>1, <2>1
    <2> QED
        BY <2>2 DEF StepDone, installNodeJS, Node, Do, Try, When, Need, StepOf
<1> QED
    BY <1>3, <1>4 DEF Yields

\* installGo.
LEMMA GoShape == PlainUnit(installGo) /\ Yields(installGo, {"goMods"})
<1> DEFINE P(k) == PlainStep(installGo[k]) /\ installGo[k].op # "return"
<1>1. Len(installGo) = 1 /\ P(1)
    BY DEF PlainStep, Installed, installGo, Do, StepOf
<1>2. \A k \in 1..Len(installGo) : P(k)
    BY <1>1
<1>3. PlainUnit(installGo)
    BY <1>1, <1>2 DEF PlainUnit
<1>4. ASSUME NEW f, UnitDone(installGo, f)
      PROVE  {"goMods"} \subseteq f
    <2>1. \A k \in 1..Len(installGo) : StepDone(installGo[k], f)
        BY <1>2, <1>4, NoShortcut
    <2>2. StepDone(installGo[1], f)
        BY <1>1, <2>1
    <2> QED
        BY <2>2 DEF StepDone, installGo, Do, StepOf
<1> QED
    BY <1>3, <1>4 DEF Yields

\* installPy.
LEMMA PyShape == PlainUnit(installPy) /\ Yields(installPy, Py)
<1> DEFINE P(k) == PlainStep(installPy[k]) /\ installPy[k].op # "return"
<1>1. Len(installPy) = 3 /\ P(1) /\ P(2) /\ P(3)
    BY DEF PlainStep, Installed, installPy, Py, Do, When, StepOf
<1>2. \A k \in 1..Len(installPy) : P(k)
    BY <1>1
<1>3. PlainUnit(installPy)
    BY <1>1, <1>2 DEF PlainUnit
<1>4. ASSUME NEW f, UnitDone(installPy, f)
      PROVE  Py \subseteq f
    <2>1. \A k \in 1..Len(installPy) : StepDone(installPy[k], f)
        BY <1>2, <1>4, NoShortcut
    <2>2. StepDone(installPy[3], f)
        BY <1>1, <2>1
    <2> QED
        BY <2>2 DEF StepDone, installPy, Py, Do, When, StepOf
<1> QED
    BY <1>3, <1>4 DEF Yields

\* installHostDocker.
LEMMA DockerShape == PlainUnit(installHostDocker) /\ Yields(installHostDocker, Docker)
<1> DEFINE P(k) == PlainStep(installHostDocker[k]) /\ installHostDocker[k].op # "return"
<1>1. Len(installHostDocker) = 7 /\ P(1) /\ P(2) /\ P(3) /\ P(4) /\ P(5) /\ P(6) /\ P(7)
    BY DEF PlainStep, Installed, installHostDocker, Docker, Do, Try, When, Need, StepOf
<1>2. \A k \in 1..Len(installHostDocker) : P(k)
    BY <1>1
<1>3. PlainUnit(installHostDocker)
    BY <1>1, <1>2 DEF PlainUnit
<1>4. ASSUME NEW f, UnitDone(installHostDocker, f)
      PROVE  Docker \subseteq f
    <2>1. \A k \in 1..Len(installHostDocker) : StepDone(installHostDocker[k], f)
        BY <1>2, <1>4, NoShortcut
    <2>2. StepDone(installHostDocker[4], f) /\ StepDone(installHostDocker[5], f)
        BY <1>1, <2>1
    <2> QED
        BY <2>2 DEF StepDone, installHostDocker, Docker, Do, Try, When, Need, StepOf
<1> QED
    BY <1>3, <1>4 DEF Yields

\* installLlamaCUDA.
LEMMA LlamaShape == PlainUnit(installLlamaCUDA) /\ Yields(installLlamaCUDA, {"llamaRepo", "lib"})
<1> DEFINE P(k) == PlainStep(installLlamaCUDA[k]) /\ installLlamaCUDA[k].op # "return"
<1>1. Len(installLlamaCUDA) = 10 /\ P(1) /\ P(2) /\ P(3) /\ P(4) /\ P(5) /\ P(6) /\ P(7)
      /\ P(8) /\ P(9) /\ P(10)
    BY DEF PlainStep, Installed, installLlamaCUDA, Do, Try, When, Need, StepOf
<1>2. \A k \in 1..Len(installLlamaCUDA) : P(k)
    BY <1>1
<1>3. PlainUnit(installLlamaCUDA)
    BY <1>1, <1>2 DEF PlainUnit
<1>4. ASSUME NEW f, UnitDone(installLlamaCUDA, f)
      PROVE  {"llamaRepo", "lib"} \subseteq f
    <2>1. \A k \in 1..Len(installLlamaCUDA) : StepDone(installLlamaCUDA[k], f)
        BY <1>2, <1>4, NoShortcut
    <2>2. StepDone(installLlamaCUDA[7], f) /\ StepDone(installLlamaCUDA[10], f)
        BY <1>1, <2>1
    <2> QED
        BY <2>2 DEF StepDone, installLlamaCUDA, Do, Try, When, Need, StepOf
<1> QED
    BY <1>3, <1>4 DEF Yields

\* verifyHostDocker.
LEMMA VerifyDockerShape ==
    PlainUnit(verifyHostDocker) /\ Yields(verifyHostDocker, Docker \cup {"dockerPkg"})
<1> DEFINE P(k) == PlainStep(verifyHostDocker[k]) /\ verifyHostDocker[k].op # "return"
<1>1. Len(verifyHostDocker) = 5 /\ P(1) /\ P(2) /\ P(3) /\ P(4) /\ P(5)
    BY DEF PlainStep, Installed, verifyHostDocker, Docker, Do, Need, StepOf
<1>2. \A k \in 1..Len(verifyHostDocker) : P(k)
    BY <1>1
<1>3. PlainUnit(verifyHostDocker)
    BY <1>1, <1>2 DEF PlainUnit
<1>4. ASSUME NEW f, UnitDone(verifyHostDocker, f)
      PROVE  Docker \cup {"dockerPkg"} \subseteq f
    <2>1. \A k \in 1..Len(verifyHostDocker) : StepDone(verifyHostDocker[k], f)
        BY <1>2, <1>4, NoShortcut
    <2>2. /\ StepDone(verifyHostDocker[1], f) /\ StepDone(verifyHostDocker[3], f)
          /\ StepDone(verifyHostDocker[4], f) /\ StepDone(verifyHostDocker[5], f)
        BY <1>1, <2>1
    <2> QED
        BY <2>2 DEF StepDone, verifyHostDocker, Docker, Do, Need, StepOf
<1> QED
    BY <1>3, <1>4 DEF Yields

\* verifyHostAct.
LEMMA VerifyActShape == PlainUnit(verifyHostAct) /\ Yields(verifyHostAct, {"act", "actRuns"})
<1> DEFINE P(k) == PlainStep(verifyHostAct[k]) /\ verifyHostAct[k].op # "return"
<1>1. Len(verifyHostAct) = 2 /\ P(1) /\ P(2)
    BY DEF PlainStep, Installed, verifyHostAct, Do, Need, StepOf
<1>2. \A k \in 1..Len(verifyHostAct) : P(k)
    BY <1>1
<1>3. PlainUnit(verifyHostAct)
    BY <1>1, <1>2 DEF PlainUnit
<1>4. ASSUME NEW f, UnitDone(verifyHostAct, f)
      PROVE  {"act", "actRuns"} \subseteq f
    <2>1. \A k \in 1..Len(verifyHostAct) : StepDone(verifyHostAct[k], f)
        BY <1>2, <1>4, NoShortcut
    <2>2. StepDone(verifyHostAct[1], f) /\ StepDone(verifyHostAct[2], f)
        BY <1>1, <2>1
    <2> QED
        BY <2>2 DEF StepDone, verifyHostAct, Do, Need, StepOf
<1> QED
    BY <1>3, <1>4 DEF Yields

\* runGoTests promises nothing about the host.
LEMMA GoTestShape == PlainUnit(runGoTests) /\ Yields(runGoTests, {})
<1> DEFINE P(k) == PlainStep(runGoTests[k]) /\ runGoTests[k].op # "return"
<1>1. Len(runGoTests) = 1 /\ P(1)
    BY DEF PlainStep, Installed, runGoTests, Do, StepOf
<1>2. \A k \in 1..Len(runGoTests) : P(k)
    BY <1>1
<1>3. PlainUnit(runGoTests)
    BY <1>1, <1>2 DEF PlainUnit
<1> QED
    BY <1>3 DEF Yields

\* runPyTests, and with it runPyTestHaiku.
LEMMA PyTestShape == PlainUnit(runPyTests) /\ Yields(runPyTests, Py)
<1> DEFINE P(k) == PlainStep(runPyTests[k]) /\ runPyTests[k].op # "return"
<1>1. Len(runPyTests) = 4 /\ P(1) /\ P(2) /\ P(3) /\ P(4)
    BY DEF PlainStep, Installed, runPyTests, Py, installPy, NoPytest, Do, When, StepOf
<1>2. \A k \in 1..Len(runPyTests) : P(k)
    BY <1>1
<1>3. PlainUnit(runPyTests)
    BY <1>1, <1>2 DEF PlainUnit
<1>4. ASSUME NEW f, UnitDone(runPyTests, f)
      PROVE  Py \subseteq f
    <2>1. \A k \in 1..Len(runPyTests) : StepDone(runPyTests[k], f)
        BY <1>2, <1>4, NoShortcut
    <2>2. StepDone(runPyTests[4], f)
        BY <1>1, <2>1
    <2> QED
        BY <2>2 DEF StepDone, runPyTests, Py, installPy, NoPytest, Do, When, StepOf
<1> QED
    BY <1>3, <1>4 DEF Yields

\* runCIWorkflow.
LEMMA WorkflowShape == PlainUnit(runCIWorkflow) /\ Yields(runCIWorkflow, {"act", "actRuns"})
<1> DEFINE P(k) == PlainStep(runCIWorkflow[k]) /\ runCIWorkflow[k].op # "return"
<1>1. Len(runCIWorkflow) = 2 /\ P(1) /\ P(2)
    BY DEF PlainStep, Installed, runCIWorkflow, Do, Need, StepOf
<1>2. \A k \in 1..Len(runCIWorkflow) : P(k)
    BY <1>1
<1>3. PlainUnit(runCIWorkflow)
    BY <1>1, <1>2 DEF PlainUnit
<1>4. ASSUME NEW f, UnitDone(runCIWorkflow, f)
      PROVE  {"act", "actRuns"} \subseteq f
    <2>1. \A k \in 1..Len(runCIWorkflow) : StepDone(runCIWorkflow[k], f)
        BY <1>2, <1>4, NoShortcut
    <2>2. StepDone(runCIWorkflow[1], f) /\ StepDone(runCIWorkflow[2], f)
        BY <1>1, <2>1
    <2> QED
        BY <2>2 DEF StepDone, runCIWorkflow, Do, Need, StepOf
<1> QED
    BY <1>3, <1>4 DEF Yields

\* runCIAll.
LEMMA CIShape == PlainUnit(runCIAll) /\ Yields(runCIAll, {"act", "actRuns", "workflows"})
<1> DEFINE P(k) == PlainStep(runCIAll[k]) /\ runCIAll[k].op # "return"
<1>1. Len(runCIAll) = 5 /\ P(1) /\ P(2) /\ P(3) /\ P(4) /\ P(5)
    BY DEF PlainStep, Installed, runCIAll, listWorkflows, runCIWorkflow, Do, Need, StepOf
<1>2. \A k \in 1..Len(runCIAll) : P(k)
    BY <1>1
<1>3. PlainUnit(runCIAll)
    BY <1>1, <1>2 DEF PlainUnit
<1>4. ASSUME NEW f, UnitDone(runCIAll, f)
      PROVE  {"act", "actRuns", "workflows"} \subseteq f
    <2>1. \A k \in 1..Len(runCIAll) : StepDone(runCIAll[k], f)
        BY <1>2, <1>4, NoShortcut
    <2>2. StepDone(runCIAll[1], f) /\ StepDone(runCIAll[2], f) /\ StepDone(runCIAll[3], f)
        BY <1>1, <2>1
    <2> QED
        BY <2>2 DEF StepDone, runCIAll, listWorkflows, runCIWorkflow, Do, Need, StepOf
<1> QED
    BY <1>3, <1>4 DEF Yields

\* installHostAct: act is there at once, after a package manager, or after the
\* tarball.
LEMMA ActShape == PlainUnit(installHostAct) /\ Yields(installHostAct, {"act"})
<1> DEFINE U == installHostAct
           P(k) == PlainStep(U[k]) /\ (U[k].op = "return" => U[k].if = {"act"})
<1>1. Len(U) = 11 /\ P(1) /\ P(2) /\ P(3) /\ P(4) /\ P(5) /\ P(6) /\ P(7) /\ P(8) /\ P(9)
      /\ P(10) /\ P(11)
    BY DEF PlainStep, Installed, installHostAct, Do, Try, When, StepOf
<1>2. \A k \in 1..Len(U) : P(k)
    <2> HIDE DEF U
    <2> QED
        BY <1>1
<1>3. PlainUnit(U)
    BY <1>1, <1>2 DEF PlainUnit
<1>4. ASSUME NEW f, UnitDone(U, f)
      PROVE  {"act"} \subseteq f
    <2>1. CASE \A k \in 1..Len(U) : StepDone(U[k], f)
        <3>1. StepDone(U[11], f)
            BY <1>1, <2>1
        <3> QED
            BY <3>1 DEF StepDone, installHostAct, Do, StepOf
    <2>2. CASE \E k \in 1..Len(U) : U[k].op = "return" /\ U[k].if \subseteq f
        BY <1>2, <2>2
    <2> QED
        BY <1>4, <2>1, <2>2 DEF UnitDone
<1> QED
    BY <1>3, <1>4 DEF Yields

\* A function that only checks.
LEMMA CheckShape ==
    ASSUME NEW x
    PROVE  PlainUnit(<<Need({x})>>) /\ Yields(<<Need({x})>>, {x})
<1> DEFINE U == <<Need({x})>>
<1>1. Len(U) = 1 /\ PlainStep(U[1]) /\ U[1].op # "return"
    BY DEF PlainStep, Installed, Need, StepOf
<1>2. \A f : StepDone(U[1], f) => x \in f
    BY DEF StepDone, Need, StepOf
<1> HIDE DEF U
<1>3. \A k \in 1..Len(U) : PlainStep(U[k]) /\ U[k].op # "return"
    BY <1>1
<1>4. PlainUnit(U)
    BY <1>1, <1>3 DEF PlainUnit
<1>5. ASSUME NEW f, UnitDone(U, f)
      PROVE  {x} \subseteq f
    BY <1>1, <1>2, <1>3, <1>5, NoShortcut
<1>6. Yields(U, {x})
    BY <1>5 DEF Yields
<1> QED
    BY <1>4, <1>6 DEF U

\* The steps of a web suite: where ports are chosen, servers started and awaited.
SuiteStep(unit, k) ==
    /\ unit[k].op \in {"do", "need", "port", "defer", "start", "wait"} /\ unit[k].gives = {}
    /\ unit[k].op \in {"port", "start", "wait"} => unit[k].name \in Services
    /\ unit[k].op = "port" => k = PortStep[unit[k].name]
    /\ unit[k].op = "defer" => k = 4 /\ unit[k].name = KillProcesses
    /\ unit[k].op = "start" => k = StartStep[unit[k].name]
    /\ unit[k].op = "wait" => k = WaitStep[unit[k].name]
    /\ unit[k].name = "cypress" => k = 11
Always(step, op, name) ==
    step.op = op /\ step.name = name /\ step.if = {} /\ step.unless = {}
SuiteShape(unit) ==
    /\ Len(unit) = 11
    /\ \A k \in 1..Len(unit) : SuiteStep(unit, k)
    /\ \A s \in Services : /\ Always(unit[PortStep[s]], "port", s)
                           /\ Always(unit[WaitStep[s]], "wait", s)

\* Both suites have that shape, and need what they name.
LEMMA WebShape ==
    ASSUME NEW facts
    PROVE  /\ SuiteShape(webSuite(facts))
           /\ Yields(webSuite(facts), {"models", "webDeps"} \cup facts)
<1> DEFINE U == webSuite(facts)
           P(k) == SuiteStep(U, k)
<1>1. Len(U) = 11
    BY DEF webSuite
<1>2. P(1) /\ P(2) /\ P(3) /\ P(4) /\ P(5)
    BY DEF SuiteStep, Services, KillProcesses, PortStep, StartStep, WaitStep, webSuite, Need, Do,
       StepOf
<1>3. P(6) /\ P(7) /\ P(8) /\ P(9) /\ P(10) /\ P(11)
    BY DEF SuiteStep, Services, KillProcesses, PortStep, StartStep, WaitStep, webSuite, Need, Do,
       StepOf
<1>4. \A s \in Services : Always(U[PortStep[s]], "port", s) /\ Always(U[WaitStep[s]], "wait", s)
    <2>1. Always(U[2], "port", "api") /\ Always(U[3], "port", "web")
        BY DEF Always, webSuite, StepOf
    <2>2. Always(U[7], "wait", "api") /\ Always(U[10], "wait", "web")
        BY DEF Always, webSuite, StepOf
    <2>3. /\ PortStep["api"] = 2 /\ PortStep["web"] = 3
          /\ WaitStep["api"] = 7 /\ WaitStep["web"] = 10
        BY DEF PortStep, WaitStep
    <2> HIDE DEF U
    <2> QED
        BY <2>1, <2>2, <2>3 DEF Services
<1>5. \A k \in 1..Len(U) : SuiteStep(U, k)
    <2> HIDE DEF U
    <2> QED
        BY <1>1, <1>2, <1>3
<1>6. ASSUME NEW f, UnitDone(U, f)
      PROVE  {"models", "webDeps"} \cup facts \subseteq f
    <2>1. \A k \in 1..Len(U) : U[k].op # "return"
        BY <1>5 DEF SuiteStep
    <2>2. \A k \in 1..Len(U) : StepDone(U[k], f)
        BY <1>6, <2>1, NoShortcut
    <2>3. StepDone(U[1], f) /\ StepDone(U[8], f) /\ StepDone(U[11], f)
        BY <1>1, <2>2
    <2> QED
        BY <2>3 DEF StepDone, webSuite, Need, Do, StepOf
<1>7. SuiteShape(U)
    BY <1>1, <1>4, <1>5 DEF SuiteShape
<1> QED
    BY <1>6, <1>7 DEF Yields

\* A function is a suite or plain, never both.
LEMMA PlainIsNoSuite ==
    ASSUME NEW unit, PlainUnit(unit)
    PROVE  ~IsSuite(unit)
<1>1. SUFFICES ASSUME SuiteShape(unit) PROVE FALSE
    BY WebShape DEF IsSuite, testWebLiveHost, testWebHaikuHost
<1>2. unit[2].op = "port" /\ 2 \in 1..Len(unit)
    <2>1. "api" \in Services /\ PortStep["api"] = 2
        BY DEF Services, PortStep
    <2> QED
        BY <1>1, <2>1 DEF SuiteShape, Always
<1> QED
    BY <1>2 DEF PlainUnit, PlainStep

\* What the invariants need of a program.  Suites are the last function.
Shaped(units) ==
    /\ Len(units) \in Nat \ {0}
    /\ \A u \in 1..Len(units) :
        \/ PlainUnit(units[u]) /\ ~IsSuite(units[u])
        \/ SuiteShape(units[u]) /\ IsSuite(units[u]) /\ u = Len(units)

\* A program that is right for its promise: when all of its functions are
\* done, so is what it is for.
Right(units, facts) ==
    /\ Shaped(units)
    /\ \A f : (\A u \in 1..Len(units) : UnitDone(units[u], f)) => facts \subseteq f

\* The last function of a program.
Final(unit, facts) == (PlainUnit(unit) \/ IsSuite(unit)) /\ Yields(unit, facts)

\* A function is plain or a suite, and each has its shape.
LEMMA Kinds ==
    /\ \A unit : PlainUnit(unit) => ~IsSuite(unit)
    /\ \A unit : IsSuite(unit) => SuiteShape(unit)
    BY PlainIsNoSuite, WebShape DEF IsSuite, testWebLiveHost, testWebHaikuHost

\* A program of one function.
LEMMA One ==
    ASSUME NEW d, NEW D, Final(d, D)
    PROVE  Right(<<d>>, D)
    BY Kinds DEF Right, Shaped, Final, Yields

\* A program of two.
LEMMA Two ==
    ASSUME NEW a, NEW A, PlainUnit(a), Yields(a, A), NEW d, NEW D, Final(d, D)
    PROVE  Right(<<a, d>>, A \cup D)
    BY Kinds DEF Right, Shaped, Final, Yields

\* A program of three.
LEMMA Three ==
    ASSUME NEW a, NEW A, PlainUnit(a), Yields(a, A), NEW b, NEW B, PlainUnit(b), Yields(b, B),
           NEW d, NEW D, Final(d, D)
    PROVE  Right(<<a, b, d>>, A \cup B \cup D)
    BY Kinds DEF Right, Shaped, Final, Yields

\* A program of four.
LEMMA Four ==
    ASSUME NEW a, NEW A, PlainUnit(a), Yields(a, A), NEW b, NEW B, PlainUnit(b), Yields(b, B),
           NEW c, NEW C, PlainUnit(c), Yields(c, C), NEW d, NEW D, Final(d, D)
    PROVE  Right(<<a, b, c, d>>, A \cup B \cup C \cup D)
    BY Kinds DEF Right, Shaped, Final, Yields

\* The web suites as last functions.
LEMMA SuitesAreFinal ==
    /\ Final(testWebLiveHost, {"models", "webDeps"} \cup {"nodeDeps"})
    /\ Final(testWebHaikuHost, {"models", "webDeps"} \cup {"nodeDeps", "xvfb"})
    BY WebShape DEF Final, IsSuite, testWebLiveHost, testWebHaikuHost

\* Every command runs a program of that shape that keeps its promise.
LEMMA ProgramsAreRight == \A c : Right(Program(c), Promise(c))
<1> SUFFICES ASSUME NEW c PROVE Right(Program(c), Promise(c))
    OBVIOUS
<1>1. CASE c = "install all"
    <2>1. Right(<<installNodeJS, installGo, installPy>>, Node \cup {"goMods"} \cup Py)
        BY Three, NodeShape, GoShape, PyShape DEF Final
    <2>2. Program(c) = <<installNodeJS, installGo, installPy>>
        BY <1>1 DEF Program, installAll
    <2>3. Promise(c) = Node \cup {"goMods"} \cup Py
        BY <1>1 DEF Promise
    <2> QED
        BY <2>1, <2>2, <2>3
<1>2. CASE c \in {"install nodejs", "install js"}
    <2>1. Right(<<installNodeJS>>, Node)
        BY One, NodeShape DEF Final
    <2>2. Program(c) = <<installNodeJS>>
        BY <1>2 DEF Program
    <2>3. Promise(c) = Node
        BY <1>2 DEF Promise
    <2> QED
        BY <2>1, <2>2, <2>3
<1>3. CASE c = "install go"
    <2>1. Right(<<installGo>>, {"goMods"})
        BY One, GoShape DEF Final
    <2>2. Program(c) = <<installGo>>
        BY <1>3 DEF Program
    <2>3. Promise(c) = {"goMods"}
        BY <1>3 DEF Promise
    <2> QED
        BY <2>1, <2>2, <2>3
<1>4. CASE c = "install py"
    <2>1. Right(<<installPy>>, Py)
        BY One, PyShape DEF Final
    <2>2. Program(c) = <<installPy>>
        BY <1>4 DEF Program
    <2>3. Promise(c) = Py
        BY <1>4 DEF Promise
    <2> QED
        BY <2>1, <2>2, <2>3
<1>5. CASE c \in {"install llama", "install llama:cuda", "install go-llama.cpp",
                  "install go-llama.cpp:cuda"}
    <2>1. Right(<<installLlamaCUDA>>, {"llamaRepo", "lib"})
        BY One, LlamaShape DEF Final
    <2>2. Program(c) = <<installLlamaCUDA>>
        BY <1>5 DEF Program
    <2>3. Promise(c) = {"llamaRepo", "lib"}
        BY <1>5 DEF Promise
    <2> QED
        BY <2>1, <2>2, <2>3
<1>6. CASE c = "install host:docker"
    <2>1. Right(<<installHostDocker>>, Docker)
        BY One, DockerShape DEF Final
    <2>2. Program(c) = <<installHostDocker>>
        BY <1>6 DEF Program
    <2>3. Promise(c) = Docker
        BY <1>6 DEF Promise
    <2> QED
        BY <2>1, <2>2, <2>3
<1>7. CASE c = "install host:act"
    <2>1. Right(<<installHostAct>>, {"act"})
        BY One, ActShape DEF Final
    <2>2. Program(c) = <<installHostAct>>
        BY <1>7 DEF Program
    <2>3. Promise(c) = {"act"}
        BY <1>7 DEF Promise
    <2> QED
        BY <2>1, <2>2, <2>3
<1>8. CASE c = "install host:all"
    <2>1. Right(<<installHostDocker, installHostAct>>, Docker \cup {"act"})
        BY Two, DockerShape, ActShape DEF Final
    <2>2. Program(c) = <<installHostDocker, installHostAct>>
        BY <1>8 DEF Program, installHostAll
    <2>3. Promise(c) = Docker \cup {"act"}
        BY <1>8 DEF Promise
    <2> QED
        BY <2>1, <2>2, <2>3
<1>9. CASE c = "install verify host:docker"
    <2>1. Right(<<verifyHostDocker>>, Docker \cup {"dockerPkg"})
        BY One, VerifyDockerShape DEF Final
    <2>2. Program(c) = <<verifyHostDocker>>
        BY <1>9 DEF Program
    <2>3. Promise(c) = Docker \cup {"dockerPkg"}
        BY <1>9 DEF Promise
    <2> QED
        BY <2>1, <2>2, <2>3
<1>10. CASE c = "install verify host:act"
    <2>1. Right(<<verifyHostAct>>, {"act", "actRuns"})
        BY One, VerifyActShape DEF Final
    <2>2. Program(c) = <<verifyHostAct>>
        BY <1>10 DEF Program
    <2>3. Promise(c) = {"act", "actRuns"}
        BY <1>10 DEF Promise
    <2> QED
        BY <2>1, <2>2, <2>3
<1>11. CASE c = "install verify host:all"
    <2>1. Right(<<verifyHostDocker, verifyHostAct>>,
                (Docker \cup {"dockerPkg"}) \cup {"act", "actRuns"})
        BY Two, VerifyDockerShape, VerifyActShape DEF Final
    <2>2. Program(c) = <<verifyHostDocker, verifyHostAct>>
        BY <1>11 DEF Program, verifyHostAll
    <2>3. Promise(c) = (Docker \cup {"dockerPkg"}) \cup {"act", "actRuns"}
        BY <1>11 DEF Promise
    <2> QED
        BY <2>1, <2>2, <2>3
<1>12. CASE c = "test go"
    <2>1. Right(<<runGoTests>>, {})
        BY One, GoTestShape DEF Final
    <2>2. Program(c) = <<runGoTests>>
        BY <1>12 DEF Program
    <2>3. Promise(c) = {}
        BY <1>12 DEF Promise
    <2> QED
        BY <2>1, <2>2, <2>3
<1>13. CASE c \in {"test api:py", "test py:haiku"}
    <2>1. Right(<<runPyTests>>, Py)
        BY One, PyTestShape DEF Final
    <2>2. Program(c) = <<runPyTests>>
        BY <1>13 DEF Program, runPyTestHaiku
    <2>3. Promise(c) = Py
        BY <1>13 DEF Promise
    <2> QED
        BY <2>1, <2>2, <2>3
<1>14. CASE c = "test web host"
    <2>1. Right(<<testWebLiveHost>>, {"models", "webDeps"} \cup {"nodeDeps"})
        BY One, SuitesAreFinal
    <2>2. Program(c) = <<testWebLiveHost>>
        BY <1>14 DEF Program
    <2>3. Promise(c) = {"models", "webDeps"} \cup {"nodeDeps"}
        BY <1>14 DEF Promise, Node
    <2> QED
        BY <2>1, <2>2, <2>3
<1>15. CASE c = "test web haiku"
    <2>1. Right(<<testWebHaikuHost>>, {"models", "webDeps"} \cup {"nodeDeps", "xvfb"})
        BY One, SuitesAreFinal
    <2>2. Program(c) = <<testWebHaikuHost>>
        BY <1>15 DEF Program
    <2>3. Promise(c) = {"models", "webDeps"} \cup {"nodeDeps", "xvfb"}
        BY <1>15 DEF Promise, Node
    <2> QED
        BY <2>1, <2>2, <2>3
<1>16. CASE c = "test web auto"
    <2>1. Right(<<<<Need({"models"})>>, testWebLiveHost>>,
                {"models"} \cup ({"models", "webDeps"} \cup {"nodeDeps"}))
        BY Two, CheckShape, SuitesAreFinal
    <2>2. Program(c) = <<<<Need({"models"})>>, testWebLiveHost>>
        BY <1>16 DEF Program
    <2>3. Promise(c) = {"models"} \cup ({"models", "webDeps"} \cup {"nodeDeps"})
        BY <1>16 DEF Promise, Node
    <2> QED
        BY <2>1, <2>2, <2>3
<1>17. CASE c = "test all auto"
    <2>1. Right(<<runGoTests, runPyTests, <<Need({"models"})>>, testWebLiveHost>>,
                {} \cup Py \cup {"models"} \cup ({"models", "webDeps"} \cup {"nodeDeps"}))
        BY Four, GoTestShape, PyTestShape, CheckShape, SuitesAreFinal
    <2>2. Program(c) = <<runGoTests, runPyTests, <<Need({"models"})>>, testWebLiveHost>>
        BY <1>17 DEF Program
    <2>3. Promise(c) = {} \cup Py \cup {"models"} \cup ({"models", "webDeps"} \cup {"nodeDeps"})
        BY <1>17 DEF Promise, Node
    <2> QED
        BY <2>1, <2>2, <2>3
<1>18. CASE c = "test ci all"
    <2>1. Right(<<runCIAll>>, {"act", "actRuns", "workflows"})
        BY One, CIShape DEF Final
    <2>2. Program(c) = <<runCIAll>>
        BY <1>18 DEF Program
    <2>3. Promise(c) = {"act", "actRuns", "workflows"}
        BY <1>18 DEF Promise
    <2> QED
        BY <2>1, <2>2, <2>3
<1>19. CASE c = "test ci one"
    <2>1. Right(<<runCIWorkflow>>, {"act", "actRuns"})
        BY One, WorkflowShape DEF Final
    <2>2. Program(c) = <<runCIWorkflow>>
        BY <1>19 DEF Program
    <2>3. Promise(c) = {"act", "actRuns"}
        BY <1>19 DEF Promise
    <2> QED
        BY <2>1, <2>2, <2>3
<1>20. CASE c = "test ci installers docker"
    <2>1. Right(<<installHostDocker, verifyHostDocker>>,
                Docker \cup (Docker \cup {"dockerPkg"}))
        BY Two, DockerShape, VerifyDockerShape DEF Final
    <2>2. Program(c) = <<installHostDocker, verifyHostDocker>>
        BY <1>20 DEF Program, runCIInstallersDocker
    <2>3. Promise(c) = Docker \cup (Docker \cup {"dockerPkg"})
        BY <1>20 DEF Promise
    <2> QED
        BY <2>1, <2>2, <2>3
<1>21. CASE c = "test ci installers act"
    <2>1. Right(<<installHostAct, verifyHostAct>>, {"act"} \cup {"act", "actRuns"})
        BY Two, ActShape, VerifyActShape DEF Final
    <2>2. Program(c) = <<installHostAct, verifyHostAct>>
        BY <1>21 DEF Program, runCIInstallersAct
    <2>3. Promise(c) = {"act"} \cup {"act", "actRuns"}
        BY <1>21 DEF Promise
    <2> QED
        BY <2>1, <2>2, <2>3
<1>22. CASE c = "test ci installers all"
    <2>1. Right(<<installHostDocker, verifyHostDocker, installHostAct, verifyHostAct>>,
                Docker \cup (Docker \cup {"dockerPkg"}) \cup {"act"} \cup {"act", "actRuns"})
        BY Four, DockerShape, VerifyDockerShape, ActShape, VerifyActShape DEF Final
    <2>2. Program(c) = <<installHostDocker, verifyHostDocker, installHostAct, verifyHostAct>>
        BY <1>22 DEF Program, runCIInstallersAll
    <2>3. Promise(c) = Docker \cup (Docker \cup {"dockerPkg"}) \cup {"act"} \cup {"act", "actRuns"}
        BY <1>22 DEF Promise
    <2> QED
        BY <2>1, <2>2, <2>3
<1>23. CASE c \notin
        {"install all", "install nodejs", "install js", "install go", "install py",
         "install llama", "install llama:cuda", "install go-llama.cpp",
         "install go-llama.cpp:cuda", "install host:docker", "install host:act",
         "install host:all", "install verify host:docker", "install verify host:act",
         "install verify host:all", "test go", "test api:py", "test py:haiku",
         "test web host", "test web haiku", "test web auto", "test all auto",
         "test ci all", "test ci one", "test ci installers docker",
         "test ci installers act", "test ci installers all"}
    <2>1. Right(<<<<Need({"subcommand"})>>>>, {"subcommand"})
        BY One, CheckShape DEF Final
    <2>2. Program(c) = <<<<Need({"subcommand"})>>>>
        BY <1>23 DEF Program
    <2>3. Promise(c) = {"subcommand"}
        BY <1>23 DEF Promise
    <2> QED
        BY <2>1, <2>2, <2>3
<1> QED
    BY <1>1, <1>2, <1>3, <1>4, <1>5, <1>6, <1>7, <1>8, <1>9, <1>10, <1>11, <1>12,
       <1>13, <1>14, <1>15, <1>16, <1>17, <1>18, <1>19, <1>20, <1>21, <1>22, <1>23

-----------------------------------------------------------------------------
(* Where an invocation is.                                                 *)

Unit == Units[at[1]]

\* The program that runs does not change under it.
LEMMA SameProgram == cmd' = cmd => Units' = Units
    BY DEF Units, Programs

\* A step of a function of a shaped program, at a place in it.
LEMMA Place ==
    ASSUME TypeOK, Running
    PROVE  /\ Shaped(Units) /\ Current = Unit[at[2]]
           /\ at[1] \in 1..Len(Units) /\ at[2] \in 1..Len(Unit)
           /\ \/ ~IsSuite(Unit) /\ PlainStep(Current)
              \/ /\ IsSuite(Unit) /\ SuiteShape(Unit) /\ at[1] = Len(Units)
                 /\ SuiteStep(Unit, at[2])
<1>1. cmd \in Commands /\ at[1] \in 1..Len(Units) /\ at[2] \in 1..Len(Unit)
    BY DEF TypeOK, Unit
<1>2. Units = Program(cmd)
    BY <1>1 DEF Units, Programs
<1>3. Shaped(Units)
    BY <1>2, ProgramsAreRight DEF Right
<1>4. Current = Unit[at[2]]
    BY DEF Current, Unit
<1>5. CASE PlainUnit(Unit) /\ ~IsSuite(Unit)
    BY <1>1, <1>3, <1>4, <1>5 DEF PlainUnit
<1>6. CASE SuiteShape(Unit) /\ IsSuite(Unit) /\ at[1] = Len(Units)
    BY <1>1, <1>3, <1>4, <1>6 DEF SuiteShape
<1> QED
    BY <1>1, <1>3, <1>5, <1>6 DEF Shaped, Unit

\* What a step is, whatever function it belongs to.
LEMMA StepTypes ==
    ASSUME TypeOK, Running
    PROVE  /\ Current.gives \subseteq Installed
           /\ Current.op = "need" => Current.gives = {}
           /\ Current.op \in {"port", "defer", "start", "wait"} =>
                IsSuite(Unit) /\ Len(Unit) = 11 /\ at[1] = Len(Units)
           /\ Current.op \in {"port", "start", "wait"} => Current.name \in Services
           /\ Current.op = "defer" => at[2] = 4 /\ Current.name = KillProcesses
           /\ Current.op = "port" => at[2] = PortStep[Current.name]
           /\ Current.op = "start" => at[2] = StartStep[Current.name]
           /\ Current.op = "wait" => at[2] = WaitStep[Current.name]
           /\ Current.name = "cypress" => IsSuite(Unit) /\ at[2] = 11
    BY Place DEF PlainStep, SuiteStep, SuiteShape

\* The steps that choose a port and await a server are never skipped.
LEMMA NotSkipped ==
    ASSUME TypeOK, Running, IsSuite(Unit), NEW s \in Services
    PROVE  /\ at[2] = PortStep[s] => IsAt({"port"}) /\ Current.name = s
           /\ at[2] = WaitStep[s] => IsAt({"wait"}) /\ Current.name = s
<1>1. /\ Always(Unit[PortStep[s]], "port", s) /\ Always(Unit[WaitStep[s]], "wait", s)
      /\ Current = Unit[at[2]]
    BY Place DEF SuiteShape
<1> QED
    BY <1>1 DEF Always, IsAt, Applies

\* Where ports are chosen, servers started and awaited.
LEMMA Positions ==
    /\ PortStep["api"] = 2 /\ PortStep["web"] = 3
    /\ StartStep["api"] = 6 /\ StartStep["web"] = 9
    /\ WaitStep["api"] = 7 /\ WaitStep["web"] = 10
    BY DEF PortStep, StartStep, WaitStep

\* No function is empty.
LEMMA UnitLength ==
    ASSUME NEW units, Shaped(units), NEW u \in 1..Len(units)
    PROVE  Len(units[u]) \in Nat \ {0}
<1>1. PlainUnit(units[u]) \/ SuiteShape(units[u])
    BY DEF Shaped
<1>2. PlainUnit(units[u]) => Len(units[u]) \in Nat \ {0}
    BY DEF PlainUnit
<1>3. SuiteShape(units[u]) => Len(units[u]) \in Nat \ {0}
    BY DEF SuiteShape
<1> QED
    BY <1>1, <1>2, <1>3

\* The first step of a function is there, and no step of a suite is behind it.
LEMMA FunctionStarts ==
    ASSUME TypeOK, Running, cmd' = cmd, at[1] < Len(Units), at' = <<at[1] + 1, 1>>
    PROVE  /\ Running' /\ at'[1] \in 1..Len(Units) /\ 1 \in 1..Len(Units[at'[1]])
           /\ ~IsSuite(Unit)
<1>1. at[1] \in Nat /\ Len(Units) \in Nat /\ at[1] \in 1..Len(Units)
    BY Place DEF Shaped
<1>2. at'[1] \in 1..Len(Units) /\ at'[1] = at[1] + 1
    BY <1>1
<1>3. 1 \in 1..Len(Units[at'[1]])
    <2>1. Len(Units[at'[1]]) \in Nat \ {0}
        BY <1>2, Place, UnitLength
    <2> QED
        BY <2>1
<1>4. Running'
    BY <1>1 DEF Running
<1> QED
    BY <1>2, <1>3, <1>4, <1>1, Place

-----------------------------------------------------------------------------
(* Types, and the children of the suites.                                  *)

BaseInv == TypeOK /\ Launched

\* It holds in the initial states.
LEMMA BaseStarts == Init => BaseInv
<1> SUFFICES ASSUME Init PROVE BaseInv
    OBVIOUS
<1>1. TypeOK
    <2>1. has \subseteq Base \cup Optional \cup {"arch", "debian"} \cup Installed
        BY DEF Init
    <2>2. listening \subseteq {<<"api", ApiPort, 0>>} /\ starting = {}
        BY DEF Init
    <2>3. starting \cup listening \subseteq Services \X Nat \X (0..MaxRuns)
        BY <2>2, PortsAssumption, RunsAssumption DEF Services
    <2>4. \A v, w \in listening : v[2] = w[2] => v = w
        BY <2>2
    <2>5. /\ port = [s \in Services |-> 0] /\ launcher = [s \in Services |-> "none"]
          /\ tracked = {} /\ deferred = {}
        BY DEF Init
    <2>6. webPort \in WebPorts /\ runs = 0 /\ code = 0 /\ at = <<0, 0>> /\ ~Running
        BY DEF Init, Running
    <2>7. webPort \in Nat /\ runs \in 0..MaxRuns
        BY <2>6, PortsAssumption, RunsAssumption
    <2> QED
        BY <2>1, <2>3, <2>4, <2>5, <2>6, <2>7 DEF TypeOK
<1>2. Launched
    BY DEF Init, Launched, Passed, Running, Services
<1> QED
    BY <1>1, <1>2 DEF BaseInv

\* A step forward in the same function.
LEMMA ForwardKeepsBase ==
    ASSUME BaseInv, Running, UNCHANGED <<webPort, runs, cmd, net, code>>,
           has' \subseteq has \cup Installed,
           at' = <<at[1], at[2] + 1>>, at[2] < Len(Unit), ~IsAt({"port"})
    PROVE  BaseInv'
<1>1. /\ Units' = Units /\ at[1] \in 1..Len(Units) /\ at[2] \in 1..Len(Unit)
      /\ at[1] \in Nat /\ at[2] \in Nat /\ Len(Unit) \in Nat
    BY SameProgram, Place DEF BaseInv, TypeOK, Shaped, PlainUnit, SuiteShape
<1>2. Running' /\ at'[1] = at[1] /\ at'[2] = at[2] + 1 /\ at' \in Nat \X Nat
    BY <1>1 DEF Running
<1>3. at'[1] \in 1..Len(Units) /\ at'[2] \in 1..Len(Units[at'[1]])
    BY <1>1, <1>2 DEF Unit
<1>4. TypeOK'
    BY <1>1, <1>2, <1>3 DEF BaseInv, TypeOK, net, children
<1>5. Launched'
    <2> SUFFICES ASSUME NEW s \in Services
                 PROVE  /\ launcher'[s] = "live" => Passed(StartStep[s])' /\ s \in deferred'
                        /\ Passed(PortStep[s])' => port'[s] > 0
        BY DEF Launched
    <2>1. StartStep[s] \in Nat /\ PortStep[s] \in Nat
        BY Positions DEF Services
    <2>2. at[2] # PortStep[s] \/ ~IsSuite(Unit)
        BY NotSkipped DEF BaseInv
    <2>3. Passed(PortStep[s])' => Passed(PortStep[s])
        BY <1>1, <1>2, <2>1, <2>2 DEF Passed, Unit
    <2>4. Passed(StartStep[s]) => Passed(StartStep[s])'
        BY <1>1, <1>2, <2>1 DEF Passed, Unit
    <2> QED
        BY <2>3, <2>4 DEF BaseInv, Launched, net, children
<1> QED
    BY <1>4, <1>5 DEF BaseInv

\* A step to the next function: the one that ends is no suite.
LEMMA FunctionKeepsBase ==
    ASSUME BaseInv, Running, UNCHANGED <<webPort, runs, cmd, net, code>>,
           has' \subseteq has \cup Installed,
           at' = <<at[1] + 1, 1>>, at[1] < Len(Units)
    PROVE  BaseInv'
<1>1. /\ Units' = Units /\ Running' /\ at'[1] \in 1..Len(Units)
      /\ at'[2] \in 1..Len(Units[at'[1]]) /\ ~IsSuite(Unit)
    BY SameProgram, FunctionStarts DEF BaseInv
<1>2. at' \in Nat \X Nat
    BY DEF BaseInv, TypeOK
<1>3. TypeOK'
    BY <1>1, <1>2 DEF BaseInv, TypeOK, net, children
<1>4. \A s \in Services : launcher[s] # "live" /\ ~Passed(PortStep[s])'
    BY <1>1, Positions DEF BaseInv, Launched, Passed, Unit, Services
<1>5. Launched'
    BY <1>4 DEF Launched, net, children
<1> QED
    BY <1>3, <1>5 DEF BaseInv

\* A return, on any path.
LEMMA ReturnKeepsBase ==
    ASSUME BaseInv, Running, UNCHANGED <<webPort, runs, cmd>>, has' \subseteq has \cup Installed,
           NEW exit \in {0, 1}, Return(exit)
    PROVE  BaseInv'
<1>1. ~Running' /\ at' \in Nat \X Nat
    BY DEF Return, Running
<1>2. \A s \in Services : launcher'[s] # "live"
    BY DEF Return, Reached, BaseInv, TypeOK, Launched
<1>3. TypeOK'
    BY <1>1, <1>2 DEF Return, BaseInv, TypeOK
<1>4. Launched'
    BY <1>1, <1>2 DEF Launched, Passed
<1> QED
    BY <1>3, <1>4 DEF BaseInv

\* The next function, or the end.
LEMMA NextUnitKeepsBase ==
    ASSUME BaseInv, Running, UNCHANGED <<webPort, runs, cmd>>, has' \subseteq has \cup Installed,
           NextUnit
    PROVE  BaseInv'
    BY FunctionKeepsBase, ReturnKeepsBase DEF NextUnit

\* The next step, function, or the end.
LEMMA ProceedKeepsBase ==
    ASSUME BaseInv, Running, UNCHANGED <<webPort, runs, cmd>>, has' \subseteq has \cup Installed,
           Proceed, ~IsAt({"port"})
    PROVE  BaseInv'
<1>1. CASE at[2] < Len(Unit)
    BY <1>1, ForwardKeepsBase DEF Proceed, Unit
<1>2. CASE ~(at[2] < Len(Unit))
    BY <1>2, NextUnitKeepsBase DEF Proceed, Unit
<1> QED
    BY <1>1, <1>2

\* ChoosePort.
LEMMA PortKeepsBase ==
    ASSUME BaseInv, ChoosePort
    PROVE  BaseInv'
<1> DEFINE s == Current.name
           choice == preferOrFree(IF s = "api" THEN ApiPort ELSE webPort)
<1>1. Running /\ UNCHANGED <<webPort, runs, cmd, has>> /\ Current.op = "port"
    BY DEF ChoosePort, IsAt, host
<1>2. CASE Return(1)
    BY <1>1, <1>2, ReturnKeepsBase
<1>3. ASSUME NEW p \in choice, port' = [port EXCEPT ![s] = p], at' = <<at[1], at[2] + 1>>,
             UNCHANGED <<code, children, starting, listening>>
      PROVE  BaseInv'
    <2>1. /\ IsSuite(Unit) /\ s \in Services /\ Len(Unit) = 11 /\ at[2] = PortStep[s]
          /\ at[1] \in 1..Len(Units) /\ at[2] \in 1..11 /\ at[1] \in Nat
        BY <1>1, StepTypes, Place DEF BaseInv, TypeOK
    <2>2. at[2] \in {2, 3}
        BY <2>1, Positions DEF Services
    <2>3. p \in Nat /\ p > 0
        BY <1>3, PortsAssumption DEF preferOrFree, Free, BaseInv, TypeOK
    <2>4. /\ Running' /\ Units' = Units /\ at'[1] = at[1] /\ at'[2] = at[2] + 1
          /\ at' \in Nat \X Nat /\ at'[1] \in 1..Len(Units)
          /\ at'[2] \in 1..Len(Units[at'[1]])
        <3>1. Running' /\ at'[1] = at[1] /\ at'[2] = at[2] + 1 /\ at' \in Nat \X Nat
            BY <1>3, <2>1, <2>2 DEF Running
        <3>2. Units' = Units
            BY <1>1, SameProgram
        <3>3. at'[2] \in 1..Len(Unit) /\ Units[at'[1]] = Unit
            BY <2>1, <2>2, <3>1 DEF Unit
        <3> QED
            BY <2>1, <3>1, <3>2, <3>3
    <2>5. port' \in [Services -> Nat] /\ \A t \in Services : port'[t] = IF t = s THEN p ELSE port[t]
        BY <1>3, <2>1, <2>3 DEF BaseInv, TypeOK
    <2>6. TypeOK'
        BY <1>1, <1>3, <2>3, <2>4, <2>5 DEF BaseInv, TypeOK, children
    <2>7. ASSUME NEW t \in Services
          PROVE  /\ launcher'[t] = "live" => Passed(StartStep[t])' /\ t \in deferred'
                 /\ Passed(PortStep[t])' => port'[t] > 0
        <3>1. launcher[t] # "live"
            BY <2>2, Positions DEF BaseInv, Launched, Passed, Services
        <3>2. CASE t = s
            BY <1>3, <2>3, <2>5, <3>1, <3>2 DEF children
        <3>3. CASE t # s
            <4>1. Passed(PortStep[t])' => Passed(PortStep[t])
                BY <1>1, <2>1, <2>4, <3>3, Positions DEF Passed, Services, Unit
            <4> QED
                BY <1>3, <2>5, <3>1, <3>3, <4>1 DEF BaseInv, Launched, children
        <3> QED
            BY <3>2, <3>3
    <2>8. Launched'
        BY <2>7 DEF Launched
    <2> QED
        BY <2>6, <2>8 DEF BaseInv
<1> QED
    BY <1>2, <1>3 DEF ChoosePort

\* DeferKill.
LEMMA DeferKeepsBase ==
    ASSUME BaseInv, DeferKill
    PROVE  BaseInv'
<1>1. /\ Running /\ UNCHANGED <<webPort, runs, cmd, has>> /\ Current.op = "defer"
      /\ deferred' = deferred \cup {Current.name} /\ at' = <<at[1], at[2] + 1>>
      /\ UNCHANGED <<code, port, launcher, tracked, starting, listening>>
    BY DEF DeferKill, IsAt, host
<1>2. /\ Len(Unit) = 11 /\ at[2] = 4 /\ Current.name = KillProcesses
      /\ at[1] \in 1..Len(Units) /\ at[1] \in Nat
    BY <1>1, StepTypes, Place DEF BaseInv, TypeOK
<1>3. Units' = Units /\ at' \in Nat \X Nat /\ at'[1] = at[1] /\ at'[2] = 5
    BY <1>1, <1>2, SameProgram
<1>4. Running' /\ at'[1] \in 1..Len(Units) /\ at'[2] \in 1..Len(Units[at'[1]])
    <2>1. at' # <<0, 0>> /\ 5 \in 1..11 /\ Len(Units[at'[1]]) = 11
        BY <1>2, <1>3 DEF Unit
    <2> QED
        BY <1>2, <1>3, <2>1 DEF Running
<1>5. TypeOK'
    BY <1>1, <1>2, <1>3, <1>4 DEF BaseInv, TypeOK
<1>6. \A s \in Services : /\ Passed(PortStep[s])' => Passed(PortStep[s])
                          /\ Passed(StartStep[s]) => Passed(StartStep[s])'
    BY <1>1, <1>2, <1>3, <1>4, Positions DEF Passed, Services, Unit
<1>7. Launched'
    BY <1>1, <1>6 DEF BaseInv, Launched
<1> QED
    BY <1>5, <1>7 DEF BaseInv

\* StartServer: the child is started past the choice of its port.
LEMMA StartKeepsBase ==
    ASSUME BaseInv, StartServer
    PROVE  BaseInv'
<1> DEFINE s == Current.name
<1>1. Running /\ UNCHANGED <<webPort, runs, cmd, has>> /\ Current.op = "start"
    BY DEF StartServer, IsAt, host
<1>2. CASE Return(1)
    BY <1>1, <1>2, ReturnKeepsBase
<1>3. ASSUME launcher' = [launcher EXCEPT ![s] = "live"],
             tracked' = tracked \cup {s}, deferred' = deferred \cup {s},
             starting' = starting \cup {<<s, port[s], runs>>},
             at' = <<at[1], at[2] + 1>>, UNCHANGED <<code, port, listening>>
      PROVE  BaseInv'
    <2>1. /\ IsSuite(Unit) /\ s \in Services /\ Len(Unit) = 11 /\ at[2] = StartStep[s]
          /\ at[1] \in 1..Len(Units) /\ at[2] \in 1..11 /\ at[1] \in Nat
        BY <1>1, StepTypes, Place DEF BaseInv, TypeOK
    <2>2. at[2] \in {6, 9}
        BY <2>1, Positions DEF Services
    <2>3. \A t \in Services : Passed(PortStep[t])
        BY <1>1, <2>1, <2>2, Positions DEF Passed, Services, Unit
    <2>4. port[s] \in Nat /\ \A t \in Services : port[t] > 0
        BY <2>1, <2>3 DEF BaseInv, Launched, TypeOK
    <2>5. /\ Running' /\ Units' = Units /\ at'[1] = at[1] /\ at'[2] = at[2] + 1
          /\ at' \in Nat \X Nat /\ at'[1] \in 1..Len(Units)
          /\ at'[2] \in 1..Len(Units[at'[1]])
        <3>1. Running' /\ at'[1] = at[1] /\ at'[2] = at[2] + 1 /\ at' \in Nat \X Nat
            BY <1>3, <2>1, <2>2 DEF Running
        <3>2. Units' = Units
            BY <1>1, SameProgram
        <3>3. at'[2] \in 1..Len(Unit) /\ Units[at'[1]] = Unit
            BY <2>1, <2>2, <3>1 DEF Unit
        <3> QED
            BY <2>1, <3>1, <3>2, <3>3
    <2>6. starting' \cup listening' \subseteq Services \X Nat \X (0..MaxRuns)
        BY <1>3, <2>1, <2>4 DEF BaseInv, TypeOK
    <2>7. TypeOK'
        <3>1. tracked' \subseteq Services /\ deferred' \subseteq Services \cup {KillProcesses}
            BY <1>3, <2>1 DEF BaseInv, TypeOK
        <3> QED
            BY <1>1, <1>3, <2>4, <2>5, <2>6, <3>1 DEF BaseInv, TypeOK
    <2>8. ASSUME NEW t \in Services
          PROVE  /\ launcher'[t] = "live" => Passed(StartStep[t])' /\ t \in deferred'
                 /\ Passed(PortStep[t])' => port'[t] > 0
        <3>1. Passed(StartStep[t]) \/ t = s => Passed(StartStep[t])'
            BY <1>1, <2>1, <2>2, <2>5, Positions DEF Passed, Services, Unit
        <3>2. launcher'[t] = "live" => launcher[t] = "live" \/ t = s
            BY <1>3, <2>1 DEF BaseInv, TypeOK
        <3> QED
            BY <1>3, <2>4, <3>1, <3>2 DEF BaseInv, Launched
    <2>9. Launched'
        BY <2>8 DEF Launched
    <2> QED
        BY <2>7, <2>9 DEF BaseInv
<1> QED
    BY <1>2, <1>3 DEF StartServer

\* Invoke starts with the first step of the command, without children.
LEMMA InvokeKeepsBase ==
    ASSUME BaseInv, NEW c \in Commands, Invoke(c)
    PROVE  BaseInv'
<1>1. runs' = runs + 1 /\ runs' \in 0..MaxRuns /\ runs' > 0 /\ cmd' = c
    <2>1. runs \in 0..MaxRuns
        BY DEF BaseInv, TypeOK
    <2>2. runs' = runs + 1 /\ runs < MaxRuns /\ cmd' = c
        BY DEF Invoke
    <2> QED
        BY <2>1, <2>2, RunsAssumption
<1>2. CASE c = ""
    <2>1. at' = <<0, 0>> /\ code' = 2 /\ ~Running'
        BY <1>2 DEF Invoke, Running
    <2>2. TypeOK'
        BY <1>1, <2>1 DEF Invoke, BaseInv, TypeOK, host
    <2>3. Launched'
        BY <2>1 DEF Invoke, Launched, Passed
    <2> QED
        BY <2>2, <2>3 DEF BaseInv
<1>3. CASE c # ""
    <2>1. at' = <<1, 1>> /\ code' = 0
        BY <1>3 DEF Invoke
    <2>2. Units' = Program(c)
        BY <1>1 DEF Units, Programs
    <2>3. Shaped(Units')
        BY <2>2, ProgramsAreRight DEF Right
    <2>4. 1 \in 1..Len(Units')
        BY <2>3 DEF Shaped
    <2>5. 1 \in 1..Len(Units'[1])
        BY <2>3, <2>4, UnitLength
    <2>6. TypeOK'
        <3>1. at' \in Nat \X Nat /\ at'[1] = 1 /\ at'[2] = 1
            BY <2>1
        <3>2. /\ port' = [s \in Services |-> 0] /\ launcher' = [s \in Services |-> "none"]
              /\ UNCHANGED <<has, webPort, starting, listening>> /\ tracked' = {} /\ deferred' = {}
            BY DEF Invoke, host
        <3> QED
            BY <1>1, <2>1, <2>4, <2>5, <3>1, <3>2 DEF BaseInv, TypeOK
    <2>7. \A s \in Services : launcher'[s] # "live" /\ ~Passed(PortStep[s])'
        <3>1. \A s \in Services : launcher'[s] # "live"
            BY DEF Invoke
        <3>2. at'[2] = 1 /\ \A s \in Services : PortStep[s] \in {2, 3}
            BY <2>1, Positions DEF Services
        <3> QED
            BY <3>1, <3>2 DEF Passed
    <2>8. Launched'
        BY <2>7 DEF Launched
    <2> QED
        BY <2>6, <2>8 DEF BaseInv
<1> QED
    BY <1>2, <1>3

\* Interrupt ends the invocation and its children.
LEMMA InterruptKeepsBase ==
    ASSUME BaseInv, Interrupt, has' \subseteq has \cup Installed
    PROVE  BaseInv'
<1>1. at' = <<0, 0>> /\ ~Running' /\ at' \in Nat \X Nat
    BY DEF Interrupt, Running
<1>2. /\ launcher' \in [Services -> {"none", "live", "dead"}]
      /\ \A s \in Services : launcher'[s] # "live"
    BY DEF Interrupt, BaseInv, TypeOK
<1>3. starting' \subseteq starting /\ listening' \subseteq listening
    BY DEF Interrupt
<1>4. /\ starting' \cup listening' \subseteq Services \X Nat \X (0..MaxRuns)
      /\ \A v, w \in listening' : v[2] = w[2] => v = w
    BY <1>3 DEF BaseInv, TypeOK
<1>5. TypeOK'
    BY <1>1, <1>2, <1>4 DEF Interrupt, BaseInv, TypeOK
<1>6. Launched'
    BY <1>1, <1>2 DEF Launched, Passed
<1> QED
    BY <1>5, <1>6 DEF BaseInv

\* Bind and ServerFails: a server ends, or takes a port that nobody has.
LEMMA ServerKeepsBase ==
    ASSUME BaseInv, NEW w \in starting, Bind(w) \/ ServerFails(w)
    PROVE  BaseInv'
<1>1. UNCHANGED <<has, webPort, runs, cmd, at, code, port, launcher, tracked, deferred>>
    BY DEF Bind, ServerFails, host, children
<1>2. /\ starting' \subseteq starting
      /\ \/ listening' = listening
         \/ listening' = listening \cup {w} /\ ~Busy(w[2])
    BY DEF Bind, ServerFails
<1>3. starting' \cup listening' \subseteq Services \X Nat \X (0..MaxRuns)
    BY <1>2 DEF BaseInv, TypeOK
<1>4. \A v, x \in listening' : v[2] = x[2] => v = x
    BY <1>2 DEF BaseInv, TypeOK, Busy
<1>5. Running' = Running /\ Units' = Units
    BY <1>1, SameProgram DEF Running
<1>6. TypeOK'
    BY <1>1, <1>3, <1>4, <1>5 DEF BaseInv, TypeOK
<1>7. Launched'
    BY <1>1, <1>5 DEF BaseInv, Launched, Passed
<1> QED
    BY <1>6, <1>7 DEF BaseInv

\* What a failed command leaves is part of what it would have established.
LEMMA LeftoversAreFacts ==
    ASSUME TypeOK, Running, NEW part \in Leftovers
    PROVE  part \subseteq Installed
<1>1. part \subseteq Current.gives \/ part = {}
    BY DEF Leftovers
<1> QED
    BY <1>1, StepTypes

\* Every step keeps it.
LEMMA StepKeepsBase == BaseInv /\ [Next]_vars => BaseInv'
<1> SUFFICES ASSUME BaseInv, [Next]_vars PROVE BaseInv'
    OBVIOUS
<1>1. CASE UNCHANGED vars
    <2>1. /\ UNCHANGED <<has, webPort, runs, cmd, at, code, port, launcher, tracked, deferred>>
          /\ UNCHANGED <<starting, listening>>
        BY <1>1 DEF vars, host, net, children
    <2>2. Running' = Running /\ Units' = Units
        BY <2>1, SameProgram DEF Running
    <2> QED
        BY <2>1, <2>2 DEF BaseInv, TypeOK, Launched, Passed
<1>2. CASE \E c \in Commands : Invoke(c)
    BY <1>2, InvokeKeepsBase
<1>3. CASE Skip
    <2>1. Running /\ Proceed /\ UNCHANGED <<has, webPort, runs, cmd>> /\ ~IsAt({"port"})
        BY <1>3 DEF Skip, IsAt, host
    <2> QED
        BY <2>1, ProceedKeepsBase
<1>4. CASE Check
    <2>1. Running /\ UNCHANGED <<has, webPort, runs, cmd>> /\ ~IsAt({"port"})
        BY <1>4 DEF Check, IsAt, host
    <2>2. Proceed \/ Return(1)
        BY <1>4 DEF Check
    <2> QED
        BY <2>1, <2>2, ProceedKeepsBase, ReturnKeepsBase
<1>5. CASE EarlyReturn
    <2>1. Running /\ NextUnit /\ UNCHANGED <<has, webPort, runs, cmd>>
        BY <1>5 DEF EarlyReturn, IsAt, host
    <2> QED
        BY <2>1, NextUnitKeepsBase
<1>6. CASE Succeed
    <2>1. Running /\ Proceed /\ UNCHANGED <<webPort, runs, cmd>> /\ ~IsAt({"port"})
          /\ has' = has \cup Current.gives
        BY <1>6 DEF Succeed, IsAt
    <2>2. Current.gives \subseteq Installed
        BY <2>1, StepTypes DEF BaseInv
    <2> QED
        BY <2>1, <2>2, ProceedKeepsBase
<1>7. CASE CommandFails
    <2>1. Running /\ UNCHANGED <<webPort, runs, cmd>> /\ ~IsAt({"port"})
        BY <1>7 DEF CommandFails, IsAt
    <2>2. has' \subseteq has \cup Installed
        BY <1>7, <2>1, LeftoversAreFacts DEF CommandFails, BaseInv
    <2>3. Proceed \/ Return(1)
        BY <1>7 DEF CommandFails
    <2> QED
        BY <2>1, <2>2, <2>3, ProceedKeepsBase, ReturnKeepsBase
<1>8. CASE ChoosePort
    BY <1>8, PortKeepsBase
<1>9. CASE StartServer
    BY <1>9, StartKeepsBase
<1>10. CASE Answered \/ WaitTimesOut
    <2>1. Running /\ UNCHANGED <<has, webPort, runs, cmd>> /\ ~IsAt({"port"})
        BY <1>10 DEF Answered, WaitTimesOut, IsAt, host
    <2>2. Proceed \/ Return(1)
        BY <1>10 DEF Answered, WaitTimesOut
    <2> QED
        BY <2>1, <2>2, ProceedKeepsBase, ReturnKeepsBase
<1>11. CASE Interrupt
    <2>1. Running /\ \E part \in Leftovers : has' = has \cup part
        BY <1>11 DEF Interrupt
    <2>2. has' \subseteq has \cup Installed
        BY <2>1, LeftoversAreFacts DEF BaseInv
    <2> QED
        BY <1>11, <2>2, InterruptKeepsBase
<1>12. CASE \E w \in starting : Bind(w) \/ ServerFails(w)
    BY <1>12, ServerKeepsBase
<1>13. CASE AtRest
    BY <1>1, <1>13 DEF AtRest
<1>14. CASE DeferKill
    BY <1>14, DeferKeepsBase
<1> QED
    BY <1>1, <1>2, <1>3, <1>4, <1>5, <1>6, <1>7, <1>8, <1>9, <1>10, <1>11, <1>12, <1>13, <1>14
       DEF Next, Advance

\* Facts, places in programs, ports and servers stay what they are: in
\* particular a port never has two listeners, and a child has its port.
THEOREM ToolTyping == Spec => []TypeOK
<1>1. BaseInv => TypeOK
    BY DEF BaseInv
<1> QED
    BY <1>1, BaseStarts, StepKeepsBase, PTL DEF Spec

\* Launched is an invariant.
LEMMA BaseInvariant == Spec => []BaseInv
    BY BaseStarts, StepKeepsBase, PTL DEF Spec

\* No child of a web suite outlives it: not when it succeeds, and not when a step
\* fails, times out or finds no port.  At each of its returns every child that it
\* has started has a deferred kill of its own.
THEOREM ChildrenAreKilled == Spec => []SuiteCleansUp
<1>1. BaseInv => SuiteCleansUp
    BY DEF BaseInv, Launched, Passed, SuiteCleansUp
<1> QED
    BY <1>1, BaseInvariant, PTL

-----------------------------------------------------------------------------
(* Exit codes.                                                             *)

\* What is done stays done, since no step takes a fact away.
LEMMA DoneStays ==
    ASSUME NEW unit, NEW f, NEW g, f \subseteq g
    PROVE  /\ \A step : StepDone(step, f) => StepDone(step, g)
           /\ UnitDone(unit, f) => UnitDone(unit, g)
    BY DEF StepDone, UnitDone

\* The functions behind stay done while the program goes on.
LEMMA BehindStays ==
    ASSUME BaseInv, Done, Running, cmd' = cmd, has \subseteq has'
    PROVE  /\ Units' = Units
           /\ \A u \in 1..(at[1] - 1) : UnitDone(Units[u], has')
           /\ \A k \in 1..(at[2] - 1) : StepDone(Unit[k], has')
    BY SameProgram, DoneStays DEF Done, Unit

\* A function that is done, with all those before it, is followed by the next
\* one or by exit code 0.
LEMMA NextUnitKeepsDone ==
    ASSUME BaseInv, Done, Running, UNCHANGED <<runs, cmd>>, has \subseteq has', NextUnit,
           UnitDone(Unit, has')
    PROVE  Done'
<1>1. /\ Units' = Units /\ at[1] \in 1..Len(Units) /\ at[1] \in Nat /\ Len(Units) \in Nat
      /\ \A u \in 1..(at[1] - 1) : UnitDone(Units[u], has')
    BY BehindStays, Place DEF Shaped, BaseInv
<1>2. \A u \in 1..at[1] : UnitDone(Units[u], has')
    BY <1>1 DEF Unit
<1>3. CASE at[1] < Len(Units)
    <2>1. at' = <<at[1] + 1, 1>> /\ Running'
        BY <1>1, <1>3 DEF NextUnit, Running
    <2>2. at'[1] - 1 = at[1] /\ at'[2] - 1 = 0
        BY <1>1, <2>1
    <2> QED
        BY <1>1, <1>2, <2>1, <2>2 DEF Done
<1>4. CASE ~(at[1] < Len(Units))
    <2>1. ~Running'
        BY <1>4 DEF NextUnit, Return, Running
    <2>2. at[1] = Len(Units)
        BY <1>1, <1>4
    <2> QED
        BY <1>1, <1>2, <2>1, <2>2 DEF Done
<1> QED
    BY <1>3, <1>4

\* A step that is done, with all those before it, is followed by the next one,
\* by the next function or by exit code 0.
LEMMA ProceedKeepsDone ==
    ASSUME BaseInv, Done, Running, UNCHANGED <<runs, cmd>>, has \subseteq has',
           \/ Proceed
           \/ at' = <<at[1], at[2] + 1>>,
           StepDone(Current, has')
    PROVE  Done'
<1>1. /\ Units' = Units /\ at[2] \in 1..Len(Unit) /\ at[1] \in Nat /\ at[2] \in Nat
      /\ Len(Unit) \in Nat /\ Current = Unit[at[2]]
      /\ \A u \in 1..(at[1] - 1) : UnitDone(Units[u], has')
      /\ \A k \in 1..(at[2] - 1) : StepDone(Unit[k], has')
    BY BehindStays, Place, UnitLength DEF BaseInv, TypeOK, Unit
<1>2. \A k \in 1..at[2] : StepDone(Unit[k], has')
    BY <1>1
<1>3. CASE at' = <<at[1], at[2] + 1>>
    <2>1. Running' /\ at'[1] = at[1] /\ at'[2] - 1 = at[2]
        BY <1>1, <1>3 DEF Running
    <2> QED
        BY <1>1, <1>2, <2>1 DEF Done, Unit
<1>4. CASE Proceed /\ ~(at[2] < Len(Unit))
    <2>1. NextUnit
        BY <1>4 DEF Proceed, Unit
    <2>2. UnitDone(Unit, has')
        <3>1. at[2] = Len(Unit)
            BY <1>1, <1>4
        <3> QED
            BY <1>2, <3>1 DEF UnitDone
    <2> QED
        BY <2>1, <2>2, NextUnitKeepsDone
<1>5. CASE Proceed /\ at[2] < Len(Unit)
    BY <1>3, <1>5 DEF Proceed, Unit
<1> QED
    BY <1>3, <1>4, <1>5

\* A return with an error promises nothing.
LEMMA ErrorKeepsDone ==
    ASSUME at' = <<0, 0>>, code' # 0
    PROVE  Done'
    BY DEF Done, Running

\* No step takes a fact away.
LEMMA FactsStay == [Next]_vars => has \subseteq has'
<1> SUFFICES ASSUME [Next]_vars PROVE has \subseteq has'
    OBVIOUS
<1> USE DEF host
<1>1. CASE UNCHANGED vars
    BY <1>1 DEF vars
<1>2. CASE \E c \in Commands : Invoke(c)
    BY <1>2 DEF Invoke
<1>3. CASE Advance
    BY <1>3 DEF Advance, Skip, Check, EarlyReturn, Succeed, CommandFails, ChoosePort, StartServer,
       DeferKill, Answered, WaitTimesOut
<1>4. CASE Interrupt
    BY <1>4 DEF Interrupt
<1>5. CASE \E w \in starting : Bind(w) \/ ServerFails(w)
    BY <1>5 DEF Bind, ServerFails
<1>6. CASE AtRest
    BY <1>6 DEF AtRest, vars
<1> QED
    BY <1>1, <1>2, <1>3, <1>4, <1>5, <1>6 DEF Next

\* Every step keeps Done.
LEMMA StepKeepsDone == BaseInv /\ Done /\ [Next]_vars => Done'
<1> SUFFICES ASSUME BaseInv, Done, [Next]_vars PROVE Done'
    OBVIOUS
<1> has \subseteq has'
    BY FactsStay
<1>1. CASE UNCHANGED <<has, at, runs, cmd, code>>
    <2>1. Running' = Running /\ Units' = Units
        BY <1>1, SameProgram DEF Running
    <2> QED
        BY <1>1, <2>1 DEF Done
<1>2. ASSUME NEW c \in Commands, Invoke(c)
      PROVE  Done'
    <2>1. CASE c = ""
        <3>1. at' = <<0, 0>> /\ code' = 2
            BY <1>2, <2>1 DEF Invoke
        <3> QED
            BY <3>1, ErrorKeepsDone
    <2>2. CASE c # ""
        <3>1. at' = <<1, 1>>
            BY <1>2, <2>2 DEF Invoke
        <3>2. at'[1] - 1 = 0 /\ at'[2] - 1 = 0
            BY <3>1
        <3>3. Running'
            BY <3>1 DEF Running
        <3> QED
            BY <3>2, <3>3 DEF Done
    <2> QED
        BY <2>1, <2>2
<1>3. CASE Skip
    <2>1. Running /\ Proceed /\ UNCHANGED <<runs, cmd>>
        BY <1>3 DEF Skip
    <2>2. StepDone(Current, has')
        BY <1>3 DEF Skip, Applies, StepDone
    <2> QED
        BY <2>1, <2>2, ProceedKeepsDone
<1>4. CASE Check
    <2>1. Running /\ UNCHANGED <<has, runs, cmd>> /\ Current.op = "need"
        BY <1>4 DEF Check, IsAt, host
    <2>2. CASE Possible /\ Proceed
        <3>1. StepDone(Current, has')
            BY <2>1, <2>2, StepTypes DEF Possible, StepDone, BaseInv
        <3> QED
            BY <2>1, <2>2, <3>1, ProceedKeepsDone
    <2>3. CASE Return(1)
        BY <2>3, ErrorKeepsDone DEF Return
    <2> QED
        BY <1>4, <2>2, <2>3 DEF Check
<1>5. CASE EarlyReturn
    <2>1. Running /\ NextUnit /\ UNCHANGED <<has, runs, cmd>> /\ Current.op = "return"
          /\ Current.if \subseteq has
        BY <1>5 DEF EarlyReturn, IsAt, Applies, host
    <2>2. UnitDone(Unit, has')
        BY <2>1, Place DEF BaseInv, UnitDone
    <2> QED
        BY <2>1, <2>2, NextUnitKeepsDone
<1>6. CASE Succeed
    <2>1. Running /\ Proceed /\ UNCHANGED <<runs, cmd>>
          /\ Current.uses \subseteq has /\ has' = has \cup Current.gives
        BY <1>6 DEF Succeed, IsAt, Possible
    <2>2. StepDone(Current, has')
        BY <2>1 DEF StepDone
    <2> QED
        BY <2>1, <2>2, ProceedKeepsDone
<1>7. CASE CommandFails
    <2>1. Running /\ UNCHANGED <<runs, cmd>>
        BY <1>7 DEF CommandFails, IsAt
    <2>2. CASE Current.op = "try"
        <3>1. Proceed /\ StepDone(Current, has')
            BY <1>7, <2>2 DEF CommandFails, StepDone
        <3> QED
            BY <2>1, <3>1, ProceedKeepsDone
    <2>3. CASE Current.op # "try"
        BY <1>7, <2>3, ErrorKeepsDone DEF CommandFails, Return
    <2> QED
        BY <2>2, <2>3
<1>8. CASE ChoosePort \/ DeferKill \/ StartServer \/ Answered \/ WaitTimesOut
    <2>1. Running /\ UNCHANGED <<runs, cmd>> /\ Current.op \in {"port", "defer", "start", "wait"}
        BY <1>8 DEF ChoosePort, DeferKill, StartServer, Answered, WaitTimesOut, IsAt
    <2>2. StepDone(Current, has')
        BY <2>1 DEF StepDone
    <2>3. Return(1) \/ Proceed \/ at' = <<at[1], at[2] + 1>>
        BY <1>8 DEF ChoosePort, DeferKill, StartServer, Answered, WaitTimesOut
    <2>4. CASE Return(1)
        BY <2>4, ErrorKeepsDone DEF Return
    <2>5. CASE Proceed \/ at' = <<at[1], at[2] + 1>>
        BY <2>1, <2>2, <2>5, ProceedKeepsDone
    <2> QED
        BY <2>3, <2>4, <2>5
<1>9. CASE Interrupt
    BY <1>9, ErrorKeepsDone DEF Interrupt
<1>10. CASE \E w \in starting : Bind(w) \/ ServerFails(w)
    BY <1>1, <1>10 DEF Bind, ServerFails, host
<1>11. CASE UNCHANGED vars \/ AtRest
    BY <1>1, <1>11 DEF vars, host, AtRest
<1> QED
    BY <1>2, <1>3, <1>4, <1>5, <1>6, <1>7, <1>8, <1>9, <1>10, <1>11 DEF Next, Advance

\* Exit code 0 means that what the command is for is done: no error on the way
\* is lost, whatever commands ran, failed or were interrupted before.
THEOREM ExitCodeIsHonest == Spec => []ExitZeroMeansDone
<1>1. Init => Done
    <2>1. Init => runs = 0 /\ ~Running
        BY DEF Init, Running
    <2> QED
        BY <2>1 DEF Done
<1>2. Spec => []Done
    BY <1>1, BaseStarts, StepKeepsBase, StepKeepsDone, PTL DEF Spec
<1>3. BaseInv /\ Done => ExitZeroMeansDone
    <2> SUFFICES ASSUME BaseInv, Done, ~Running, runs > 0, code = 0
                 PROVE  Promise(cmd) \subseteq has
        BY DEF ExitZeroMeansDone
    <2>1. Units = Program(cmd)
        BY DEF BaseInv, TypeOK, Units, Programs
    <2>2. \A u \in 1..Len(Program(cmd)) : UnitDone(Program(cmd)[u], has)
        BY <2>1 DEF Done
    <2> QED
        BY <2>2, ProgramsAreRight DEF Right
<1> QED
    BY <1>2, <1>3, BaseInvariant, PTL

-----------------------------------------------------------------------------
(* The servers that a suite talks to.                                      *)

ToolInv == BaseInv /\ Servers

\* It holds in the initial states.
LEMMA ServersStart == Init => Servers
<1> SUFFICES ASSUME Init PROVE Servers
    OBVIOUS
<1>1. ~Running /\ starting = {} /\ runs = 0
    BY DEF Init, Running
<1>2. \A w \in listening : w[3] = 0
    <2>1. listening \subseteq {<<"api", ApiPort, 0>>}
        BY DEF Init
    <2> QED
        BY <2>1
<1> QED
    BY <1>1, <1>2 DEF Servers, Passed

\* A step forward that leaves servers and ports alone, and that does not end a
\* choice or a wait.
LEMMA ForwardKeepsServers ==
    ASSUME ToolInv, Running, UNCHANGED <<runs, cmd, port, launcher, starting, listening>>,
           at' = <<at[1], at[2] + 1>>, ~IsAt({"port"}), ~IsAt({"wait"})
    PROVE  Servers'
<1>1. /\ Units' = Units /\ at[1] \in Nat /\ at[2] \in Nat
      /\ at'[1] = at[1] /\ at'[2] = at[2] + 1
    BY SameProgram DEF ToolInv, BaseInv, TypeOK
<1>2. Running'
    BY <1>1 DEF Running
<1>3. \A s \in Services : IsSuite(Unit) => at[2] # PortStep[s] /\ at[2] # WaitStep[s]
    BY NotSkipped DEF ToolInv, BaseInv
<1>4. \A s \in Services : /\ Passed(PortStep[s])' => Passed(PortStep[s])
                          /\ Passed(WaitStep[s])' => Passed(WaitStep[s])
                          /\ Passed(StartStep[s]) => Passed(StartStep[s])'
    BY <1>1, <1>2, <1>3, Positions DEF Passed, Services, Unit
<1>5. \A w \in starting \cup listening : w[1] \in Services
    BY DEF ToolInv, BaseInv, TypeOK
<1> QED
    BY <1>2, <1>4, <1>5 DEF ToolInv, Servers, net, children

\* A step to the next function: no server is left from a suite.
LEMMA FunctionKeepsServers ==
    ASSUME ToolInv, Running, UNCHANGED <<runs, cmd, net>>,
           at' = <<at[1] + 1, 1>>, at[1] < Len(Units)
    PROVE  Servers'
<1>1. Units' = Units /\ Running' /\ ~IsSuite(Unit) /\ at'[2] = 1
    BY SameProgram, FunctionStarts DEF ToolInv, BaseInv
<1>2. \A k : ~Passed(k)
    BY <1>1 DEF Passed, Unit
<1>3. \A s \in Services : ~Passed(PortStep[s])' /\ ~Passed(WaitStep[s])'
    BY <1>1, Positions DEF Passed, Services
<1>4. \A w \in starting \cup listening : w[3] # runs
    BY <1>2 DEF ToolInv, Servers
<1> QED
    BY <1>1, <1>3, <1>4 DEF ToolInv, Servers, net, children

\* A return: what was starting is killed with its launcher.
LEMMA ReturnKeepsServers ==
    ASSUME ToolInv, ~LateBind, UNCHANGED <<runs, cmd>>, NEW exit \in {0, 1}, Return(exit)
    PROVE  Servers'
<1>1. ~Running' /\ listening' = listening
    BY DEF Return, Running
<1>2. ASSUME NEW w \in starting PROVE w \notin starting'
    <2>1. w[1] \in Services /\ launcher[w[1]] = "live" /\ w[1] \in deferred
        BY DEF ToolInv, BaseInv, TypeOK, Servers, Launched
    <2>2. launcher'[w[1]] = "dead"
        BY <2>1 DEF Return, Reached
    <2> QED
        BY <2>2 DEF Return
<1>3. starting' = {}
    BY <1>2 DEF Return
<1> QED
    BY <1>1, <1>3 DEF ToolInv, Servers, Passed

\* The next step, function, or the end.
LEMMA ProceedKeepsServers ==
    ASSUME ToolInv, ~LateBind, Running, UNCHANGED <<runs, cmd>>, Proceed,
           ~IsAt({"port"}), ~IsAt({"wait"})
    PROVE  Servers'
    BY ForwardKeepsServers, FunctionKeepsServers, ReturnKeepsServers
       DEF Proceed, NextUnit, net, children

\* ChoosePort: nobody listens on a port that is chosen.
LEMMA PortKeepsServers ==
    ASSUME ToolInv, ~LateBind, ChoosePort
    PROVE  Servers'
<1> DEFINE s == Current.name
           choice == preferOrFree(IF s = "api" THEN ApiPort ELSE webPort)
<1>1. Running /\ UNCHANGED <<runs, cmd>> /\ Current.op = "port"
    BY DEF ChoosePort, IsAt
<1>2. CASE Return(1)
    BY <1>1, <1>2, ReturnKeepsServers
<1>3. ASSUME NEW p \in choice, port' = [port EXCEPT ![s] = p], at' = <<at[1], at[2] + 1>>,
             UNCHANGED <<code, children, starting, listening>>
      PROVE  Servers'
    <2>1. /\ IsSuite(Unit) /\ s \in Services /\ at[2] = PortStep[s]
          /\ at[1] \in Nat /\ at[2] \in Nat
        BY <1>1, StepTypes, Place DEF ToolInv, BaseInv, TypeOK
    <2>2. at[2] \in {2, 3}
        BY <2>1, Positions DEF Services
    <2>3. /\ Units' = Units /\ at'[1] = at[1] /\ at'[2] = at[2] + 1
        BY <1>1, <1>3, <2>1, SameProgram
    <2>4. Running'
        BY <2>1, <2>3 DEF Running
    <2>5. \A w \in listening : w[2] # p
        BY <1>3 DEF preferOrFree, Free, Busy
    <2>6. \A t \in Services : port'[t] = IF t = s THEN p ELSE port[t]
        BY <1>3, <2>1 DEF ToolInv, BaseInv, TypeOK
    <2>7. \A w \in starting \cup listening : w[1] \in Services /\ w[3] <= runs
        BY DEF ToolInv, BaseInv, TypeOK, Servers
    <2>8. \A t \in Services : ~Passed(StartStep[t])
        BY <2>2, Positions DEF Passed, Services
    <2>9. starting = {} /\ \A w \in listening : w[3] # runs
        BY <1>1, <2>7, <2>8 DEF ToolInv, Servers
    <2>10. \A t \in Services : /\ t # s /\ Passed(PortStep[t])' => Passed(PortStep[t])
                               /\ ~Passed(WaitStep[t])'
        BY <1>1, <2>1, <2>2, <2>3, <2>4, Positions DEF Passed, Services, Unit
    <2>11. \A t \in Services :
               Passed(PortStep[t])' => \A w \in listening : w[2] = port'[t] => w[3] = runs
        BY <2>5, <2>6, <2>10 DEF ToolInv, Servers
    <2> QED
        BY <1>1, <1>3, <2>7, <2>9, <2>10, <2>11 DEF Servers
<1> QED
    BY <1>2, <1>3 DEF ChoosePort

\* StartServer: the server is of this run, on the port of its service.
LEMMA StartKeepsServers ==
    ASSUME ToolInv, ~LateBind, StartServer
    PROVE  Servers'
<1> DEFINE s == Current.name
<1>1. Running /\ UNCHANGED <<runs, cmd>> /\ Current.op = "start"
    BY DEF StartServer, IsAt
<1>2. CASE Return(1)
    BY <1>1, <1>2, ReturnKeepsServers
<1>3. ASSUME launcher' = [launcher EXCEPT ![s] = "live"],
             starting' = starting \cup {<<s, port[s], runs>>},
             at' = <<at[1], at[2] + 1>>, UNCHANGED <<code, port, listening>>
      PROVE  Servers'
    <2>1. /\ IsSuite(Unit) /\ s \in Services /\ at[2] = StartStep[s]
          /\ at[1] \in Nat /\ at[2] \in Nat /\ runs \in Nat
        BY <1>1, StepTypes, Place, RunsAssumption DEF ToolInv, BaseInv, TypeOK
    <2>2. at[2] \in {6, 9}
        BY <2>1, Positions DEF Services
    <2>3. Units' = Units /\ at'[1] = at[1] /\ at'[2] = at[2] + 1
        BY <1>1, <1>3, <2>1, SameProgram
    <2>4. Running'
        BY <2>1, <2>3 DEF Running
    <2>5. \A t \in Services : /\ Passed(PortStep[t])
                              /\ Passed(WaitStep[t])' => Passed(WaitStep[t])
                              /\ Passed(StartStep[t]) \/ t = s => Passed(StartStep[t])'
        BY <1>1, <2>1, <2>2, <2>3, <2>4, Positions DEF Passed, Services, Unit
    <2>6. \A w \in starting \cup listening : w[1] \in Services
        BY DEF ToolInv, BaseInv, TypeOK
    <2>7. \A w \in starting' : w \in starting \/ (w[1] = s /\ w[2] = port[s] /\ w[3] = runs)
        BY <1>3
    <2>8. \A w \in starting' :
              Running' /\ w[3] = runs /\ w[2] = port[w[1]] /\ launcher'[w[1]] = "live"
        BY <1>3, <2>1, <2>4, <2>6, <2>7 DEF ToolInv, BaseInv, TypeOK, Servers
    <2>9. \A w \in starting' \cup listening :
              w[3] <= runs /\ (w[3] = runs => Passed(StartStep[w[1]])')
        BY <1>1, <2>1, <2>5, <2>6, <2>7 DEF ToolInv, Servers
    <2>10. \A t \in Services :
              /\ \A w \in listening : w[2] = port[t] => w[3] = runs
              /\ Passed(WaitStep[t])' => \E w \in listening : w[1] = t /\ w[2] = port[t]
        BY <2>5 DEF ToolInv, Servers
    <2> QED
        BY <1>1, <1>3, <2>8, <2>9, <2>10 DEF Servers
<1> QED
    BY <1>2, <1>3 DEF StartServer

\* Answered: who answers is the service that the suite waits for.
LEMMA AnswerKeepsServers ==
    ASSUME ToolInv, ~LateBind, Answered
    PROVE  Servers'
<1> DEFINE s == Current.name
<1>1. Running /\ UNCHANGED <<runs, cmd>> /\ Current.op = "wait"
    BY DEF Answered, IsAt
<1>2. /\ IsSuite(Unit) /\ s \in Services /\ at[2] = WaitStep[s] /\ Len(Unit) = 11
      /\ at[1] \in Nat /\ at[2] \in Nat
    BY <1>1, StepTypes DEF ToolInv, BaseInv, TypeOK
<1>3. at[2] \in {7, 10}
    BY <1>2, Positions DEF Services
<1>4. UNCHANGED net /\ at' = <<at[1], at[2] + 1>>
    BY <1>2, <1>3 DEF Answered, Proceed, Unit
<1>5. Units' = Units /\ at'[1] = at[1] /\ at'[2] = at[2] + 1
    BY <1>1, <1>2, <1>4, SameProgram
<1>6. Running'
    BY <1>2, <1>5 DEF Running
<1>7. \A t \in Services : /\ Passed(PortStep[t])
                          /\ t # s /\ Passed(WaitStep[t])' => Passed(WaitStep[t])
                          /\ Passed(StartStep[t]) => Passed(StartStep[t])'
    BY <1>1, <1>2, <1>3, <1>5, <1>6, Positions DEF Passed, Services, Unit
<1>8. \A w \in starting \cup listening : w[1] \in Services
    BY DEF ToolInv, BaseInv, TypeOK
<1>9. PICK w \in listening : w[2] = port[s] /\ (w[1] = "web" \/ s = "api")
    BY DEF Answered, Answers
<1>10. w[1] = s
    <2>1. w[3] = runs
        BY <1>2, <1>7, <1>9 DEF ToolInv, Servers
    <2>2. Passed(StartStep[w[1]])
        BY <1>1, <2>1, <1>9 DEF ToolInv, Servers
    <2>3. w[1] = "web" => at[2] > 9
        BY <2>2, Positions DEF Passed
    <2>4. s = "api" => at[2] = 7
        BY <1>2, Positions
    <2> QED
        BY <1>2, <1>8, <1>9, <2>3, <2>4 DEF Services
<1>11. \A t \in Services : Passed(WaitStep[t])' => \E x \in listening : x[1] = t /\ x[2] = port[t]
    BY <1>7, <1>9, <1>10 DEF ToolInv, Servers
<1> QED
    BY <1>1, <1>4, <1>6, <1>7, <1>8, <1>11 DEF ToolInv, Servers, net, children

\* Bind and ServerFails.
LEMMA ServerKeepsServers ==
    ASSUME ToolInv, NEW w \in starting, Bind(w) \/ ServerFails(w)
    PROVE  Servers'
<1>1. UNCHANGED <<runs, cmd, at, port, launcher>>
    BY DEF Bind, ServerFails, children
<1>2. /\ starting' \subseteq starting /\ listening \subseteq listening'
      /\ listening' \subseteq listening \cup {w}
    BY DEF Bind, ServerFails
<1>3. Running' = Running /\ Units' = Units
    BY <1>1, SameProgram DEF Running
<1>4. \A k : Passed(k)' = Passed(k)
    BY <1>1, <1>3 DEF Passed
<1>5. w[3] = runs /\ w[2] = port[w[1]]
    BY DEF ToolInv, Servers
<1> QED
    BY <1>1, <1>2, <1>3, <1>4, <1>5 DEF ToolInv, Servers

\* Every step keeps it.
LEMMA StepKeepsServers ==
    ASSUME ~LateBind
    PROVE  ToolInv /\ [Next]_vars => Servers'
<1> SUFFICES ASSUME ToolInv, [Next]_vars PROVE Servers'
    OBVIOUS
<1>1. CASE UNCHANGED vars \/ AtRest
    <2>1. UNCHANGED <<runs, cmd, at, port, launcher, starting, listening>>
        BY <1>1 DEF vars, net, children, AtRest
    <2>2. Running' = Running /\ Units' = Units
        BY <2>1, SameProgram DEF Running
    <2>3. \A k : Passed(k)' = Passed(k)
        BY <2>1, <2>2 DEF Passed
    <2> QED
        BY <2>1, <2>2, <2>3 DEF ToolInv, Servers
<1>2. ASSUME NEW c \in Commands, Invoke(c)
      PROVE  Servers'
    <2>1. /\ ~Running /\ runs' = runs + 1 /\ at' \in {<<0, 0>>, <<1, 1>>}
          /\ UNCHANGED <<starting, listening>>
        BY <1>2 DEF Invoke
    <2>2. at'[2] \in {0, 1}
        BY <2>1
    <2>3. \A s \in Services : ~Passed(PortStep[s])' /\ ~Passed(WaitStep[s])'
        BY <2>2, Positions DEF Passed, Services
    <2>4. starting' = {}
        BY <2>1 DEF ToolInv, Servers
    <2>5. \A w \in listening : w[3] \in Nat /\ w[3] <= runs /\ runs \in Nat
        BY RunsAssumption DEF ToolInv, BaseInv, TypeOK, Servers
    <2>6. \A w \in listening : w[3] <= runs' /\ w[3] # runs'
        BY <2>1, <2>5
    <2> QED
        BY <2>1, <2>3, <2>4, <2>6 DEF Servers
<1>3. CASE Skip \/ Succeed
    <2>1. Running /\ Proceed /\ UNCHANGED <<runs, cmd>> /\ ~IsAt({"port"}) /\ ~IsAt({"wait"})
        BY <1>3 DEF Skip, Succeed, IsAt
    <2> QED
        BY <2>1, ProceedKeepsServers
<1>4. CASE Check \/ CommandFails
    <2>1. Running /\ UNCHANGED <<runs, cmd>> /\ ~IsAt({"port"}) /\ ~IsAt({"wait"})
        BY <1>4 DEF Check, CommandFails, IsAt
    <2>2. Proceed \/ Return(1)
        BY <1>4 DEF Check, CommandFails
    <2> QED
        BY <2>1, <2>2, ProceedKeepsServers, ReturnKeepsServers
<1>5. CASE EarlyReturn
    <2>1. Running /\ NextUnit /\ UNCHANGED <<runs, cmd>>
        BY <1>5 DEF EarlyReturn, IsAt
    <2> QED
        BY <2>1, FunctionKeepsServers, ReturnKeepsServers DEF NextUnit
<1>6. CASE ChoosePort
    BY <1>6, PortKeepsServers
<1>7. CASE StartServer
    BY <1>7, StartKeepsServers
<1>8. CASE Answered
    BY <1>8, AnswerKeepsServers
<1>9. CASE WaitTimesOut
    BY <1>9, ReturnKeepsServers DEF WaitTimesOut
<1>10. CASE Interrupt
    <2>1. ~Running' /\ runs' = runs
        BY <1>10 DEF Interrupt, Running
    <2>2. starting' = {} /\ listening' \subseteq listening
        BY <1>10 DEF Interrupt, ToolInv, Servers
    <2> QED
        BY <2>1, <2>2 DEF ToolInv, Servers, Passed
<1>11. CASE \E w \in starting : Bind(w) \/ ServerFails(w)
    BY <1>11, ServerKeepsServers
<1>12. CASE DeferKill
    <2>1. /\ Running /\ UNCHANGED <<runs, cmd, port, launcher, starting, listening>>
          /\ at' = <<at[1], at[2] + 1>> /\ Current.op = "defer"
        BY <1>12 DEF DeferKill, IsAt
    <2>2. ~IsAt({"port"}) /\ ~IsAt({"wait"})
        BY <2>1 DEF IsAt
    <2> QED
        BY <2>1, <2>2, ForwardKeepsServers
<1> QED
    BY <1>1, <1>2, <1>3, <1>4, <1>5, <1>6, <1>7, <1>8, <1>9, <1>10, <1>11, <1>12 DEF Next, Advance

\* Cypress talks to the servers of its own invocation, whoever listened on the
\* preferred ports before and whatever earlier invocations left: provided that no
\* server binds its port after its launcher was killed.
THEOREM CypressMeetsItsOwn ==
    ASSUME ~LateBind
    PROVE  Spec => []OwnServers
<1>1. Init => ToolInv
    BY BaseStarts, ServersStart DEF ToolInv
<1>2. ToolInv /\ [Next]_vars => ToolInv'
    BY StepKeepsBase, StepKeepsServers DEF ToolInv
<1>3. ToolInv => OwnServers
    <2> SUFFICES ASSUME ToolInv, Running, Current.name = "cypress",
                        NEW w \in listening, NEW s \in Services, w[2] = port[s]
                 PROVE  w[1] = s /\ w[3] = runs
        BY DEF OwnServers
    <2>1. Passed(PortStep[s]) /\ Passed(WaitStep[s])
        BY StepTypes, Positions DEF ToolInv, BaseInv, Passed, Services, Unit
    <2>2. w[3] = runs
        BY <2>1 DEF ToolInv, Servers
    <2>3. PICK x \in listening : x[1] = s /\ x[2] = port[s]
        BY <2>1 DEF ToolInv, Servers
    <2>4. x = w
        BY <2>3 DEF ToolInv, BaseInv, TypeOK
    <2> QED
        BY <2>2, <2>3, <2>4
<1> QED
    BY <1>1, <1>2, <1>3, PTL DEF Spec

=============================================================================

------------------------------- MODULE Server -------------------------------
(***************************************************************************)
(* The life of the modeld process: main in src/cmd/modeld/main.go merges   *)
(* flags and configuration file, scans the models directory, builds the    *)
(* manager, runs Preflight, serves, and shuts down on a signal.            *)
(*                                                                         *)
(* The start-up inputs (command line, file, directory, upstream server,    *)
(* llama_bin, sizes) are chosen by Init.  While the server is up, /infer   *)
(* handlers run, each reduced to being there or not and, in spawn mode, to *)
(* its hold on the lock of the adapter, for which main waits when it shuts *)
(* down.  What shutdown means for the processes is in module SpawnManager. *)
(***************************************************************************)
EXTENDS Integers, Sequences, FiniteSets, SequencesExt

CONSTANTS
    Given,          \* options that flags and file may set
    IdSeq,          \* model ids (file names) in directory order
    Faults,         \* what start-up may find wrong: "bin", "budget" or neither
    Handlers,       \* /infer handlers
    Nobody,         \* the holder of an unlocked a.mu
    MaxRequests     \* bound: number of /infer requests

ASSUME IdsAssumption == IdSeq \in Seq(STRING) /\ "" \notin ToSet(IdSeq) /\ Len(IdSeq) > 0
ASSUME RequestsAssumption == MaxRequests \in Nat
ASSUME NobodyAssumption == Nobody \notin Handlers

VARIABLES
    flag,           \* flag[o]: the command line's value, Unset without one
    fileGiven,      \* --config names a file
    file,           \* file[o]: the file's value, the zero value without one
    dir,            \* ids of the *.gguf files in the models directory
    broken,         \* ids whose path does not lead to a regular file
    upstream,       \* the llama server of --llama-url
    binRuns,        \* llama_bin is a program that starts and serves the model
    fits,           \* the estimate of the default model and the margin fit the budget
    mpc,            \* next step of main
    opt,            \* the options after the merge
    reg,            \* the ids in the registry
    adapter,        \* m.adapter
    active,         \* handlers that run
    amu,            \* who holds the adapter's a.mu
    stuck,          \* its holder has locked it once more, and sleeps for ever
    baseDone,       \* the base context is canceled
    requests        \* number of requests so far

inputs == <<flag, fileGiven, file, dir, broken, upstream, binRuns, fits>>
setup == <<opt, reg, adapter>>
lock == <<amu, stuck>>
live == <<active, lock, baseDone, requests>>
vars == <<inputs, mpc, setup, live>>

-----------------------------------------------------------------------------
(* Options.  Booleans are written "true" and "false".                      *)

Ids == ToSet(IdSeq)
Unset == "unset"
Bool == {"true", "false"}

\* Durations of --infer-timeout, in milliseconds, and of the field infer_timeout,
\* which may be anything.
Millis == [zero |-> 0, half |-> 500, one |-> 1000, almostTwo |-> 1999, negative |-> -1000]
Durations == DOMAIN Millis \cup {"", "invalid"}

Vals == [default_model |-> Ids \cup {""}, llama_url |-> {"", "url"}, llama_bin |-> {"", "bin"},
         spawn_llama |-> Bool, llama_use_openai |-> Bool, infer_timeout |-> Durations]
Options == DOMAIN Vals

ASSUME GivenAssumption == Given \subseteq Options

\* The zero value of a field of Config, and the default of a flag.
Zero(o) == IF Vals[o] = Bool THEN "false" ELSE ""
Default(o) ==
    IF o = "llama_use_openai" THEN "true" ELSE IF o = "infer_timeout" THEN "zero" ELSE Zero(o)

\* flag.Parse refuses what is not a duration.
FlagVals(o) == IF o = "infer_timeout" THEN DOMAIN Millis ELSE Vals[o]

\* Fields that main does not look at, or for which Config has none.
FlagOnly == {"llama_bin", "spawn_llama"}

\* Strings of the file count when they are not empty, durations when they
\* parse, booleans always.
Merge(o) ==
    IF flag[o] # Unset THEN flag[o]
    ELSE IF ~fileGiven \/ o \in FlagOnly \/ file[o] = "invalid" THEN Default(o)
    ELSE IF Vals[o] = Bool \/ file[o] # Zero(o) THEN file[o] ELSE Default(o)

\* What a client of the upstream server can call a model.
ById(m) == <<"id", m>>
ByPath(m) == <<"path", m>>
Names == {ById(m) : m \in Ids} \cup {ByPath(m) : m \in Ids}

TypeOK ==
    /\ mpc \in {"merge", "scan", "build", "preflight", "serving", "canceled",
                "stopped", "draining", "exited", "fatal"}
    /\ opt \in [Options -> UNION {Vals[o] : o \in Options}]
    /\ \A o \in Options : opt[o] \in FlagVals(o)
    /\ reg \subseteq Ids
    /\ adapter \in {"none", "server", "spawn"}
    /\ adapter = "spawn" => opt.llama_bin # ""
    /\ adapter = "server" => opt.llama_url # ""
    /\ active \subseteq Handlers
    /\ amu \in active \cup {Nobody}
    /\ stuck \in BOOLEAN
    /\ stuck => amu # Nobody
    /\ amu # Nobody => adapter = "spawn"
    /\ baseDone \in BOOLEAN
    /\ requests \in 0..MaxRequests

\* The settings in which option o has one of the values of choice[o].
Settings(choice) ==
    [default_model : choice.default_model, llama_url : choice.llama_url, llama_bin : choice.llama_bin,
     spawn_llama : choice.spawn_llama, llama_use_openai : choice.llama_use_openai,
     infer_timeout : choice.infer_timeout]

\* Config has a field for every option but spawn_llama.
Init ==
    /\ flag \in Settings([o \in Options |-> IF o \in Given THEN FlagVals(o) \cup {Unset} ELSE {Unset}])
    /\ fileGiven \in BOOLEAN
    /\ file \in Settings([o \in Options |-> IF fileGiven /\ o \in Given \ {"spawn_llama"}
                                           THEN Vals[o] ELSE {Zero(o)}])
    /\ dir \in SUBSET Ids
    /\ broken \in SUBSET dir
    /\ upstream \in [up : {TRUE}, names : SUBSET Names] \cup {[up |-> FALSE, names |-> {}]}
    /\ binRuns \in IF "bin" \in Faults THEN BOOLEAN ELSE {TRUE}
    /\ fits \in IF "budget" \in Faults THEN BOOLEAN ELSE {TRUE}
    /\ mpc = "merge"
    /\ opt = [o \in Options |-> Default(o)]
    /\ reg = {}
    /\ adapter = "none"
    /\ active = {}
    /\ amu = Nobody
    /\ stuck = FALSE
    /\ baseDone = FALSE
    /\ requests = 0

-----------------------------------------------------------------------------
(* Start-up.                                                               *)

MergeConfig ==
    /\ mpc = "merge"
    /\ opt' = [o \in Options |-> Merge(o)]
    /\ mpc' = "scan"
    /\ UNCHANGED <<inputs, reg, adapter, live>>

\* reg[0]: the registry is in directory order.
FirstOf(ids) == IdSeq[Min({k \in DOMAIN IdSeq : IdSeq[k] \in ids})]

\* Mutation: an empty --default-model counts as none.
ScanModels_IgnoresFlag ==
    /\ mpc = "scan"
    /\ reg' = dir
    /\ opt' = IF opt.default_model = "" /\ dir # {}
              THEN [opt EXCEPT !.default_model = FirstOf(dir)] ELSE opt
    /\ mpc' = "build"
    /\ UNCHANGED <<inputs, adapter, live>>

\* The registry has every model of the directory; without a default model the
\* first one is taken, unless the flag was given.
ScanModels ==
    /\ mpc = "scan"
    /\ reg' = dir
    /\ opt' = IF flag.default_model = Unset /\ opt.default_model = "" /\ dir # {}
              THEN [opt EXCEPT !.default_model = FirstOf(dir)] ELSE opt
    /\ mpc' = "build"
    /\ UNCHANGED <<inputs, adapter, live>>

\* The file does not load, the directory cannot be read, or the events file
\* cannot be opened: log.Fatalf.
StartFails ==
    /\ mpc \in {"scan", "build"} \/ (mpc = "merge" /\ fileGiven)
    /\ mpc' = "fatal"
    /\ UNCHANGED <<inputs, setup, live>>

\* Mutation: --spawn-llama is enough for spawn mode.
SelectAdapter_NoBin ==
    IF opt.spawn_llama = "true" THEN "spawn"
    ELSE IF opt.llama_url # "" THEN "server" ELSE "none"

\* NewWithConfig: spawn mode wins over server mode.
SelectAdapter ==
    IF opt.spawn_llama = "true" /\ opt.llama_bin # "" THEN "spawn"
    ELSE IF opt.llama_url # "" THEN "server" ELSE "none"

BuildManager ==
    /\ mpc = "build"
    /\ adapter' = SelectAdapter
    /\ mpc' = "preflight"
    /\ UNCHANGED <<inputs, opt, reg, live>>

default == opt.default_model
Registered(m) == m \in reg

\* Every check is OK.  An upstream server that lists no model, or answers
\* something else, is not asked about the default model.
Preflight ==
    /\ adapter # "none"
    /\ adapter = "server" => upstream.up
    /\ default # ""
    /\ Registered(default)
    /\ adapter # "server" => default \notin broken
    /\ adapter = "server" /\ upstream.names # {} => ById(default) \in upstream.names

RunPreflight ==
    /\ mpc = "preflight"
    /\ mpc' = IF Preflight THEN "serving" ELSE "fatal"
    /\ UNCHANGED <<inputs, setup, live>>

\* Integer division that truncates toward zero.
Truncate(n, d) == IF n < 0 THEN -((-n) \div d) ELSE n \div d

\* httpapi.inferTimeout, in seconds: 0 stands for none.
SetInferTimeoutSeconds(sec) == IF sec < 0 THEN 0 ELSE sec
inferTimeout ==
    LET ms == Millis[opt.infer_timeout]
    IN  IF ms # 0 THEN SetInferTimeoutSeconds(Truncate(ms, 1000)) ELSE 0

-----------------------------------------------------------------------------
(* Requests.                                                               *)

\* The address cannot be bound: the serving goroutine ends the process.
ListenFails ==
    /\ mpc \in {"serving", "canceled", "stopped"} /\ requests = 0
    /\ mpc' = "fatal"
    /\ UNCHANGED <<inputs, setup, live>>

\* The listener is closed by srv.Shutdown, after StopAllInstances.
Arrive(h) ==
    /\ mpc \in {"serving", "canceled", "stopped"}
    /\ h \notin active
    /\ requests < MaxRequests
    /\ requests' = requests + 1
    /\ active' = active \cup {h}
    /\ UNCHANGED <<inputs, mpc, setup, lock, baseDone>>

Runs(h) == h \in active /\ mpc \notin {"exited", "fatal"}

\* The request ends: done, failed or canceled.
Respond(h) ==
    /\ Runs(h) /\ amu # h
    /\ active' = active \ {h}
    /\ UNCHANGED <<inputs, mpc, setup, lock, baseDone, requests>>

\* ensureProcess and Stop lock a.mu, which lasts for a few statements ...
LockAdapter(h) ==
    /\ Runs(h) /\ adapter = "spawn" /\ amu = Nobody
    /\ amu' = h
    /\ UNCHANGED <<inputs, mpc, setup, active, stuck, baseDone, requests>>

UnlockAdapter(h) ==
    /\ Runs(h) /\ amu = h /\ ~stuck
    /\ amu' = Nobody
    /\ UNCHANGED <<inputs, mpc, setup, active, stuck, baseDone, requests>>

\* ... unless ensureProcess found an entry that does not answer and calls
\* Stop with the lock held.  Module Subprocess tells when it does.
RelockAdapter(h) ==
    /\ Runs(h) /\ amu = h /\ ~stuck
    /\ stuck' = TRUE
    /\ UNCHANGED <<inputs, mpc, setup, active, amu, baseDone, requests>>

-----------------------------------------------------------------------------
(* Shutdown.                                                               *)

\* SIGINT or SIGTERM: baseCancel().
Signal ==
    /\ mpc = "serving"
    /\ baseDone' = TRUE
    /\ mpc' = "canceled"
    /\ UNCHANGED <<inputs, setup, active, lock, requests>>

\* mgr.StopAllInstances() returns.  In spawn mode it locks a.mu, to list the
\* processes and twice for each of them; this step is the last time.  What it
\* waits for besides is bounded: SIGTERM, two seconds, SIGKILL.
StopAllInstances ==
    /\ mpc = "canceled"
    /\ adapter = "spawn" => amu = Nobody
    /\ mpc' = "stopped"
    /\ UNCHANGED <<inputs, setup, live>>

\* srv.Shutdown closes the listener ...
CloseListener ==
    /\ mpc = "stopped"
    /\ mpc' = "draining"
    /\ UNCHANGED <<inputs, setup, live>>

\* Mutation: there is no shutdown timeout.
Exit_NoTimeout ==
    /\ mpc = "draining"
    /\ active = {}
    /\ mpc' = "exited"
    /\ UNCHANGED <<inputs, setup, live>>

\* ... and returns when no handler is active, or after the timeout.  main
\* returns either way.
Exit ==
    /\ mpc = "draining"
    /\ mpc' = "exited"
    /\ UNCHANGED <<inputs, setup, live>>

MainStep ==
    \/ MergeConfig \/ ScanModels \/ StartFails \/ BuildManager \/ RunPreflight
    \/ StopAllInstances \/ CloseListener \/ Exit

\* The process is over, or main waits for a lock that nobody will give back.
AtRest ==
    /\ mpc \in {"exited", "fatal"} \/ (mpc = "canceled" /\ stuck)
    /\ UNCHANGED vars

HandlerStep(h) ==
    Arrive(h) \/ Respond(h) \/ LockAdapter(h) \/ UnlockAdapter(h) \/ RelockAdapter(h)

Next ==
    \/ MainStep \/ Signal \/ ListenFails \/ AtRest
    \/ \E h \in Handlers : HandlerStep(h)

Spec == Init /\ [][Next]_vars

\* main runs and its timers fire.  Handlers owe nothing, but the statements
\* that follow a Lock; and a mutex is not withheld for ever from a goroutine
\* that waits for it.
FairSpec ==
    /\ Spec
    /\ WF_vars(MainStep) /\ SF_vars(StopAllInstances)
    /\ \A h \in Handlers : WF_vars(UnlockAdapter(h) \/ RelockAdapter(h))

-----------------------------------------------------------------------------
(* Properties.                                                             *)

\* What Infer answers to a request that names no model, the first one: the
\* registry, the budget, in spawn mode the process, then the adapter.
FirstInfer ==
    IF default = "" \/ ~Registered(default) THEN "notFound"
    ELSE IF ~fits THEN "budgetExceeded"
    ELSE IF adapter = "spawn" /\ ~binRuns THEN "spawnFails"
    ELSE IF adapter = "none" THEN "unavailable" ELSE "generates"

\* sanity.go: "Preflight runs a series of non-destructive checks to validate
\* that inference can run": a server that starts can answer a request that
\* names no model.
PreflightSound ==
    mpc \in {"serving", "canceled", "stopped", "draining"} => FirstInfer = "generates"

\* main.go: "Determine which flags were explicitly set to give CLI precedence
\* over config file": neither the file nor the directory replaces, on the way
\* to serving, what the command line says, be it the empty string.
FlagsWin ==
    mpc \notin {"merge", "fatal"} =>
        \A o \in Options : flag[o] # Unset => opt[o] = flag[o]

\* After a signal the process ends, however long the handlers run; but not
\* when one of them has locked a.mu twice.
ShutdownEnds == mpc = "canceled" ~> mpc \in {"exited", "fatal"} \/ stuck

\* config/loader.go: 'Zero values mean "unspecified" and will be replaced by
\* defaults in main.'
ZeroIsUnspecified ==
    mpc = "scan" => \A o \in Options :
        fileGiven /\ flag[o] = Unset /\ file[o] = Zero(o) => opt[o] = Default(o)

\* main.go: a field of the file is applied unless its flag was set.
FileIsApplied ==
    mpc = "scan" => \A o \in Options \ {"spawn_llama"} :
        fileGiven /\ flag[o] = Unset /\ file[o] # Zero(o) => opt[o] = file[o]

\* main.go: --infer-timeout is the "Max duration for /infer request before
\* cancellation (0=disabled)": one that is positive is in force.
InferTimeoutKept ==
    mpc = "serving" /\ Millis[opt.infer_timeout] > 0 =>
        inferTimeout > 0 /\ inferTimeout * 1000 <= Millis[opt.infer_timeout]

\* docs/build-and-run.md: without an adapter "inference endpoints will return a
\* dependency-unavailable error (503)".
NoAdapterServes ==
    [][mpc = "preflight" /\ adapter = "none" /\ Registered(default) /\ default \notin broken
          => mpc' = "serving"]_vars

\* The model that a request to the upstream server names (Infer passes the
\* path of the model to Start) is one that this server listed for Preflight.
UpstreamKnowsModel ==
    mpc = "serving" /\ adapter = "server" /\ upstream.names # {}
        => ByPath(default) \in upstream.names

-----------------------------------------------------------------------------
(* The inductive invariant behind TypeOK and FlagsWin.                     *)

\* The start-up inputs are what flag.Parse, the loader and ReadDir let through.
InputsOK ==
    /\ fileGiven \in BOOLEAN
    /\ \A o \in Options : flag[o] \in FlagVals(o) \cup {Unset} /\ file[o] \in Vals[o]
    /\ dir \subseteq Ids /\ broken \subseteq dir

\* Handlers and their lock come after the adapter.
Early == mpc \in {"merge", "scan", "build"} => adapter = "none"

ServerInv == TypeOK /\ InputsOK /\ FlagsWin /\ Early
=============================================================================

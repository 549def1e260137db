---------------------------- MODULE ServerProofs ----------------------------
(* Proofs about module Server, for any options that flags and file set, any *)
(* directory, any upstream server and any number of requests.               *)
EXTENDS Server, WellFoundedInduction, TLAPS

-----------------------------------------------------------------------------
(* The options.                                                            *)

\* The six options, and the values of each.
LEMMA OptionTable ==
    /\ Options = {"default_model", "llama_url", "llama_bin", "spawn_llama",
                  "llama_use_openai", "infer_timeout"}
    /\ Vals["default_model"] = Ids \cup {""}
    /\ Vals["llama_url"] = {"", "url"} /\ Vals["llama_bin"] = {"", "bin"}
    /\ Vals["spawn_llama"] = Bool /\ Vals["llama_use_openai"] = Bool
    /\ Vals["infer_timeout"] = Durations
    BY DEF Options, Vals

\* A boolean option is one of two: the empty string is a value of the others.
LEMMA BooleanOptions ==
    ASSUME NEW o \in Options
    PROVE  Vals[o] = Bool <=> o \in {"spawn_llama", "llama_use_openai"}
<1>1. "" \notin Bool
    BY DEF Bool
<1>2. "" \in Durations
    BY DEF Durations
<1> QED
    BY <1>1, <1>2, OptionTable

\* The durations that a flag can have.
LEMMA DurationTable ==
    DOMAIN Millis = {"zero", "half", "one", "almostTwo", "negative"}
    BY DEF Millis

\* A default is a value that the flag could have been given.
LEMMA DefaultIsValue ==
    ASSUME NEW o \in Options
    PROVE  Default(o) \in FlagVals(o) /\ Zero(o) \in Vals[o]
    BY OptionTable, BooleanOptions, DurationTable DEF Default, Zero, FlagVals, Bool, Durations

\* So is what the merge of flags and file comes to: an invalid duration of the
\* file is dropped, an empty one counts as none.
LEMMA MergeIsValue ==
    ASSUME InputsOK, NEW o \in Options
    PROVE  Merge(o) \in FlagVals(o)
<1>1. CASE o = "infer_timeout"
    <2>1. Vals[o] # Bool /\ Zero(o) = ""
        BY <1>1, BooleanOptions DEF Zero
    <2> QED
        BY <1>1, <2>1, DefaultIsValue, OptionTable, DurationTable
           DEF InputsOK, Merge, FlagVals, Durations
<1>2. CASE o # "infer_timeout"
    BY <1>2, DefaultIsValue DEF InputsOK, Merge, FlagVals
<1> QED
    BY <1>1, <1>2

\* A value of a flag is a value of the option.
LEMMA FlagValsInVals ==
    ASSUME NEW o \in Options
    PROVE  FlagVals(o) \subseteq Vals[o]
    BY OptionTable DEF FlagVals, Durations

-----------------------------------------------------------------------------
(* The first model of a directory.                                         *)

\* A set of natural numbers that is not empty has a least element.
LEMMA LeastNatural ==
    ASSUME NEW S, S \subseteq Nat, S # {}
    PROVE  Min(S) \in S
<1>1. PICK k \in S : \A j \in S : ~(<<j, k>> \in OpToRel(<, Nat))
    BY NatLessThanWellFounded, WFMin
<1>2. \A j \in S : ~(j < k)
    BY <1>1, Zenon DEF OpToRel
<1>3. \A j \in S : k <= j
    BY <1>2
<1> QED
    BY <1>3 DEF Min

\* The model that main takes for the default one is in the directory.
LEMMA FirstIsThere ==
    ASSUME NEW ids, ids \subseteq Ids, ids # {}
    PROVE  FirstOf(ids) \in ids
<1> DEFINE S == {k \in DOMAIN IdSeq : IdSeq[k] \in ids}
<1>0. DOMAIN IdSeq \subseteq Nat
    <2>1. \A T : \A s \in Seq(T) : DOMAIN s \subseteq Nat
        OBVIOUS
    <2> QED
        BY <2>1, IdsAssumption
<1>1. S \subseteq Nat
    BY <1>0
<1>2. S # {}
    BY IdsAssumption DEF Ids, ToSet
<1>3. Min(S) \in S
    BY <1>1, <1>2, LeastNatural
<1> QED
    BY <1>3 DEF FirstOf

-----------------------------------------------------------------------------
(* The invariant.                                                          *)

\* The start-up inputs are of their kinds from the start.
LEMMA InitInputs == Init => InputsOK
<1> SUFFICES ASSUME Init
             PROVE  InputsOK
    OBVIOUS
<1> DEFINE F == [o \in Options |-> IF o \in Given THEN FlagVals(o) \cup {Unset} ELSE {Unset}]
           G == [o \in Options |-> IF fileGiven /\ o \in Given \ {"spawn_llama"}
                                   THEN Vals[o] ELSE {Zero(o)}]
<1>1. flag \in Settings(F) /\ file \in Settings(G)
    BY DEF Init
<1>2. \A o \in Options : F[o] \subseteq FlagVals(o) \cup {Unset} /\ G[o] \subseteq Vals[o]
    BY DefaultIsValue
<1> HIDE DEF F, G
<1>3. \A o \in Options : flag[o] \in F[o] /\ file[o] \in G[o]
    BY <1>1, OptionTable DEF Settings
<1> QED
    BY <1>2, <1>3 DEF Init, InputsOK

\* What the command line says survives the merge.
LEMMA FlagIsMerged ==
    ASSUME NEW o \in Options, flag[o] # Unset
    PROVE  Merge(o) = flag[o]
    BY DEF Merge

\* Every step keeps it.
LEMMA StepKeepsInv == ServerInv /\ [Next]_vars => ServerInv'
<1> SUFFICES ASSUME ServerInv, [Next]_vars
             PROVE  ServerInv'
    OBVIOUS
<1> DEFINE AnyVal == UNION {Vals[o] : o \in Options}
           Rest == TypeOK' /\ FlagsWin' /\ Early'
<1>1. InputsOK'
    BY DEF ServerInv, InputsOK, Next, MainStep, MergeConfig, ScanModels, StartFails, BuildManager,
           RunPreflight, StopAllInstances, CloseListener, Exit, Signal, ListenFails, AtRest,
           HandlerStep, Arrive, Respond, LockAdapter, UnlockAdapter, RelockAdapter, vars, inputs
<1>2. ASSUME MergeConfig
      PROVE  Rest
    <2>1. \A o \in Options : Merge(o) \in FlagVals(o) /\ Merge(o) \in AnyVal
        BY MergeIsValue, FlagValsInVals DEF ServerInv
    <2>2. FlagsWin'
        BY <1>2, FlagIsMerged DEF MergeConfig, FlagsWin, inputs
    <2>3. adapter = "none"
        BY <1>2 DEF MergeConfig, ServerInv, Early
    <2> QED
        BY <1>2, <2>1, <2>2, <2>3 DEF MergeConfig, ServerInv, TypeOK, Early, live, lock
<1>3. ASSUME ScanModels
      PROVE  Rest
    <2>1. dir # {} => FirstOf(dir) \in Ids
        BY FirstIsThere DEF ServerInv, InputsOK
    <2>2. /\ "default_model" \in Options /\ Ids \subseteq FlagVals("default_model")
          /\ Ids \subseteq AnyVal
        BY OptionTable DEF FlagVals
    <2>3. opt' \in [Options -> AnyVal] /\ \A o \in Options : opt'[o] \in FlagVals(o)
        BY <1>3, <2>1, <2>2 DEF ScanModels, ServerInv, TypeOK
    <2>4. FlagsWin'
        <3>1. /\ UNCHANGED flag /\ \A o \in Options : flag[o] # Unset => opt[o] = flag[o]
              /\ \A o \in Options : flag[o] # Unset => opt'[o] = opt[o]
            BY <1>3, <2>2 DEF ScanModels, ServerInv, TypeOK, FlagsWin, inputs
        <3> QED
            BY <3>1 DEF FlagsWin
    <2>5. adapter = "none"
        BY <1>3 DEF ScanModels, ServerInv, Early
    <2> QED
        BY <1>3, <2>3, <2>4, <2>5 DEF ScanModels, ServerInv, TypeOK, InputsOK, Early, live, lock
<1>4. ASSUME BuildManager
      PROVE  Rest
    <2>1. FlagsWin' /\ Early'
        BY <1>4 DEF BuildManager, ServerInv, FlagsWin, Early, inputs
    <2>2. /\ adapter' \in {"none", "server", "spawn"} /\ ~stuck
          /\ adapter' = "spawn" => opt.llama_bin # ""
          /\ adapter' = "server" => opt.llama_url # ""
          /\ amu = Nobody
        BY <1>4 DEF BuildManager, SelectAdapter, ServerInv, TypeOK, Early
    <2> QED
        BY <1>4, <2>1, <2>2 DEF BuildManager, ServerInv, TypeOK, live, lock
<1>5. ASSUME RunPreflight \/ StartFails \/ StopAllInstances \/ CloseListener \/ Exit
             \/ Signal \/ ListenFails \/ AtRest \/ UNCHANGED vars
      PROVE  Rest
    <2>1. /\ UNCHANGED <<flag, opt, reg, adapter, active, amu, stuck, requests>>
          /\ \/ UNCHANGED mpc
             \/ /\ mpc' \in {"fatal", "serving", "stopped", "draining", "exited", "canceled"}
                /\ mpc' # "fatal" => mpc \notin {"merge", "fatal"}
          /\ baseDone' = baseDone \/ baseDone' = TRUE
        BY <1>5
           DEF RunPreflight, StartFails, StopAllInstances, CloseListener, Exit, Signal,
               ListenFails, AtRest, vars, inputs, setup, live, lock
    <2>2. FlagsWin' /\ Early'
        BY <2>1 DEF ServerInv, FlagsWin, Early
    <2> QED
        BY <2>1, <2>2 DEF ServerInv, TypeOK
<1>6. ASSUME NEW h \in Handlers, HandlerStep(h)
      PROVE  Rest
    <2>1. /\ UNCHANGED <<flag, mpc, opt, reg, adapter, baseDone>>
          /\ requests' = requests \/ (requests < MaxRequests /\ requests' = requests + 1)
        BY <1>6
           DEF HandlerStep, Arrive, Respond, LockAdapter, UnlockAdapter, RelockAdapter,
               inputs, setup, lock
    <2>2. FlagsWin' /\ Early'
        BY <2>1 DEF ServerInv, FlagsWin, Early
    <2>3. /\ active' \subseteq Handlers /\ amu' \in active' \cup {Nobody} /\ stuck' \in BOOLEAN
          /\ (stuck' => amu' # Nobody) /\ (amu' # Nobody => adapter = "spawn")
        <3>0. /\ active \subseteq Handlers /\ amu \in active \cup {Nobody} /\ stuck \in BOOLEAN
              /\ (stuck => amu # Nobody) /\ (amu # Nobody => adapter = "spawn")
            BY DEF ServerInv, TypeOK
        <3> USE <3>0 DEF Runs, lock
        <3>1. CASE Arrive(h) \/ Respond(h)
            BY <3>1 DEF Arrive, Respond
        <3>2. CASE LockAdapter(h)
            BY <3>2, NobodyAssumption DEF LockAdapter
        <3>3. CASE UnlockAdapter(h)
            BY <3>3 DEF UnlockAdapter
        <3>4. CASE RelockAdapter(h)
            BY <3>4, NobodyAssumption DEF RelockAdapter
        <3> QED
            BY <1>6, <3>1, <3>2, <3>3, <3>4 DEF HandlerStep
    <2>4. requests' \in 0..MaxRequests
        <3>1. requests \in 0..MaxRequests
            BY DEF ServerInv, TypeOK
        <3> QED
            BY <2>1, <3>1, RequestsAssumption
    <2> QED
        BY <2>1, <2>2, <2>3, <2>4 DEF ServerInv, TypeOK
<1> QED
    BY <1>1, <1>2, <1>3, <1>4, <1>5, <1>6 DEF Next, MainStep, ServerInv

\* It holds in every state, whatever the inputs were.
THEOREM ServerInvariant == Spec => []ServerInv
<1>0. \A o \in Options : Default(o) \in FlagVals(o) /\ Default(o) \in Vals[o]
    BY DefaultIsValue, FlagValsInVals
<1>1. Init => TypeOK
    <2> SUFFICES ASSUME Init
                 PROVE  TypeOK
        OBVIOUS
    <2>1. opt \in [Options -> UNION {Vals[o] : o \in Options}]
        BY <1>0 DEF Init
    <2>2. \A o \in Options : opt[o] \in FlagVals(o)
        BY <1>0 DEF Init
    <2>3. /\ mpc = "merge" /\ reg = {} /\ adapter = "none" /\ active = {} /\ requests = 0
          /\ amu = Nobody
        BY DEF Init
    <2>4. baseDone = FALSE /\ stuck = FALSE
        BY DEF Init
    <2>5. requests \in 0..MaxRequests
        BY <2>3, RequestsAssumption
    <2> QED
        BY <2>1, <2>2, <2>3, <2>4, <2>5 DEF TypeOK
<1>2. Init => FlagsWin /\ Early
    BY DEF Init, FlagsWin, Early
<1>3. Init => ServerInv
    BY <1>1, <1>2, InitInputs DEF ServerInv
<1> QED
    BY <1>3, StepKeepsInv, PTL DEF Spec

\* The options of main stay values that their flags could have been given,
\* through the merge and the choice of a default model; an adapter is built
\* only with what it needs to run; and a.mu is held by a handler that is there.
THEOREM ServerTyping == Spec => []TypeOK
<1>1. ServerInv => TypeOK
    BY DEF ServerInv
<1> QED
    BY <1>1, ServerInvariant, PTL

\* Whatever the file and the directory hold, an option that was given on the
\* command line is in force as it was given, from the merge to the exit.
THEOREM FlagsStayInForce == Spec => []FlagsWin
<1>1. ServerInv => FlagsWin
    BY DEF ServerInv
<1> QED
    BY <1>1, ServerInvariant, PTL
=============================================================================

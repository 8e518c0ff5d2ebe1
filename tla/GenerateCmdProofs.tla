-------------------------- MODULE GenerateCmdProofs --------------------------
(***************************************************************************)
(* Theorems about the statistics collector, alone and inside the generate  *)
(* command, for any number of ticks, any heap and any command line.        *)
(***************************************************************************)
EXTENDS GenerateCmd, TLAPS

\* Stop is only called on a running collector, the goroutine only leaves its
\* loop when stopChan is closed, and the report is made when it has ended.
CollectorInv ==
  /\ CollectorTypeOK
  /\ collect = "none" => stop = "none"
  /\ stop = "none" => ~stopChan
  /\ stop # "returned" => report = None
  /\ stop = "returned" => collect = "ended"
  /\ collect \in {"loop", "last"} => Len(samples) >= 1
  /\ collect \in {"last", "ended"} => stopChan
  /\ collect = "ended" => Len(samples) >= 2 /\ samples[Len(samples)].late
  /\ report # None => report = Summary(samples)

Taken == [heap : Heaps, late : BOOLEAN]

LEMMA CollectorInitInv == CollectorInit => CollectorInv
<1> SUFFICES ASSUME CollectorInit PROVE CollectorInv
  OBVIOUS
<1>1. samples \in Seq(Taken)
  BY DEF CollectorInit
<1> QED
  BY <1>1 DEF CollectorInit, CollectorInv, CollectorTypeOK, Taken

\* A sample is one more, and was taken late if stopChan was closed.
LEMMA SampleAppends ==
  ASSUME CollectorInv, Sample
  PROVE  /\ samples' \in Seq(Taken) /\ Len(samples) \in Nat
         /\ Len(samples') = Len(samples) + 1
         /\ samples'[Len(samples')].late = stopChan
<1>1. PICK h \in Heaps : samples' = Append(samples, [heap |-> h, late |-> stopChan])
  BY DEF Sample
<1>2. samples \in Seq(Taken) /\ [heap |-> h, late |-> stopChan] \in Taken
  BY DEF CollectorInv, CollectorTypeOK, Taken
<1> QED
  BY <1>1, <1>2

LEMMA CollectorStepInv ==
  ASSUME CollectorInv, [CollectorNext]_collectorVars
  PROVE  CollectorInv'
<1> USE DEF CollectorInv, CollectorTypeOK
<1>1. CASE Start
  BY <1>1 DEF Start
<1>2. CASE FirstSample
  <2>1. Sample /\ collect' = "loop" /\ report = None /\ UNCHANGED <<stopChan, stop, report>>
    BY <1>2 DEF FirstSample
  <2> QED
    BY <2>1, SampleAppends, <1>2 DEF FirstSample, Taken
<1>3. CASE Tick
  <2>1. Sample /\ collect = "loop" /\ report = None /\ UNCHANGED <<collect, stopChan, stop, report>>
    BY <1>3 DEF Tick
  <2> QED
    BY <2>1, SampleAppends DEF Taken
<1>4. CASE SeeStop
  BY <1>4 DEF SeeStop
<1>5. CASE LastSample
  <2>1. /\ Sample /\ collect = "last" /\ collect' = "ended" /\ stopChan /\ report = None
        /\ UNCHANGED <<stopChan, stop, report>>
    BY <1>5 DEF LastSample
  <2>2. samples' \in Seq(Taken) /\ Len(samples) \in Nat /\ Len(samples) >= 1
    BY <2>1, SampleAppends
  <2>3. Len(samples') >= 2
    <3>1. Len(samples') = Len(samples) + 1
      BY <2>1, SampleAppends
    <3> QED
      BY <2>2, <3>1
  <2>4. samples'[Len(samples')].late
    BY <2>1, SampleAppends
  <2> QED
    BY <2>1, <2>2, <2>3, <2>4 DEF Taken
<1>6. CASE BeginStop
  BY <1>6 DEF BeginStop
<1>7. CASE EndStop
  <2>1. /\ collect = "ended" /\ stop' = "returned" /\ report' = Summary(samples)
        /\ UNCHANGED <<collect, stopChan, samples>>
    BY <1>7 DEF EndStop
  <2>2. report' = Summary(samples')
    BY <2>1
  <2> QED
    BY <2>1, <2>2
<1>8. CASE UNCHANGED collectorVars
  BY <1>8 DEF collectorVars
<1> QED
  BY <1>1, <1>2, <1>3, <1>4, <1>5, <1>6, <1>7, <1>8 DEF CollectorNext, Collecting

-----------------------------------------------------------------------------
\* What the command does to its collector are steps of the collector.
LEMMA CommandStepsCollector == [Next]_vars => [CollectorNext]_collectorVars
<1> SUFFICES ASSUME [Next]_vars PROVE CollectorNext \/ UNCHANGED collectorVars
  OBVIOUS
<1>1. CASE \E s \in Range(Steps) : Pass(s) \/ Failure(s)
  BY <1>1 DEF Pass, Failure
<1>2. CASE SetupTelemetry \/ StartStats \/ NoStats \/ StartProfile \/ OpenInput
  BY <1>2 DEF SetupTelemetry, StartStats, NoStats, StartProfile, OpenInput, CollectorNext
<1>3. CASE \E f \in Formats : OpenOutput(f)
  BY <1>3 DEF OpenOutput
<1>4. CASE NoOutput \/ BeginParse \/ ParseSucceeds \/ ParseFails \/ HeapProfile
  BY <1>4 DEF NoOutput, BeginParse, ParseSucceeds, ParseFails, HeapProfile
<1>5. CASE StopStats \/ SaveStats \/ Unwind \/ Exit
  BY <1>5 DEF StopStats, SaveStats, Unwind, Exit, CollectorNext
<1>6. CASE Sampling \/ Kill \/ UNCHANGED vars
  BY <1>6 DEF Sampling, Kill, vars, CollectorNext
<1> QED
  BY <1>1, <1>2, <1>3, <1>4, <1>5, <1>6 DEF Next, Command

\* Inside the command the collector behaves as it does alone: nothing else
\* touches it (main.go:186-208).
THEOREM CommandImplementsCollector == Spec => CollectorSpec
<1>1. Init => CollectorInit
  BY DEF Init
<1> QED
  BY <1>1, CommandStepsCollector, PTL DEF Spec, CollectorSpec

\* What Stop reports is about every sample, at least two of them, and the
\* last was taken after the work, whatever ticks fire and however late the
\* goroutine sees that stopChan is closed (collector.go:103-114, 161-176).
THEOREM ReportAlwaysComplete == CollectorSpec => []ReportComplete
<1>1. CollectorInv => ReportComplete
  BY DEF CollectorInv, ReportComplete
<1> QED
  BY <1>1, CollectorInitInv, CollectorStepInv, PTL DEF CollectorSpec

\* The same of the collector the generate command starts and stops.
THEOREM CommandReportComplete == Spec => []ReportComplete
BY CommandImplementsCollector, ReportAlwaysComplete, PTL

-----------------------------------------------------------------------------
Resources == {<<"telemetry">>, <<"stats">>, <<"profile">>}
               \cup {<<"input", k>> : k \in Nat} \cup {<<"output", f>> : f \in Formats}
StepNames == {"flags", "telemetry", "stats", "profile", "inputs", "db", "geogen",
              "v1", "v2", "parse", "parsing", "heap", "flush", "return"}
\* The steps that come after the inputs.
Later == {"db", "geogen", "v1", "v2", "parse", "parsing", "heap", "flush"}
Deferred == {defers[i] : i \in 1..Len(defers)}

\* Only the telemetry is deferred before the collector, so it alone runs after.
BelowStats == \A i, j \in 1..Len(defers) :
                i < j /\ defers[i] = <<"stats">> => defers[j] = <<"telemetry">>

\* The outputs are what a parsing that succeeds leaves.
Whole == \A f \in flags.outputs :
           files[Path(f)] = IF flags.onePath /\ flags.outputs = Formats
                              THEN "mixed" ELSE "whole"

\* What has been acquired is leaked or will be released by a deferred call; the
\* collector runs until its own deferred call is the next and has returned, and
\* that is when all but the telemetry has been; an error leads to the return
\* and nowhere else.
CmdInv ==
  /\ flags \in Flags /\ step \in StepNames /\ err \in BOOLEAN
  /\ exit \in {"running", "ok", "error", "fatal", "killed"}
  /\ inputs \in Nat
  /\ DOMAIN files = Formats
  /\ step # "return" => ~err
  /\ step \in Later => inputs = flags.inputs
  /\ defers \in Seq(Resources)
  /\ held \ Leaked \subseteq Deferred
  /\ BelowStats
  /\ step \in {"flags", "telemetry"} => defers = <<>>
  /\ step = "stats" => Deferred \subseteq {<<"telemetry">>}
  /\ stop # "none" => Deferred \subseteq {<<"telemetry">>, <<"stats">>}
  /\ collect # "none" /\ stop # "returned" => <<"stats">> \in held
  /\ stop # "none" => step = "return"
  /\ stop = "waiting" => defers # <<>> /\ Head(defers) = <<"stats">>
  /\ exit \in {"ok", "error"} => defers = <<>> /\ step = "return"
  /\ exit = "ok" => ~err
  /\ step \in {"heap", "flush"} \/ (step = "return" /\ ~err) => Whole

LEMMA StepsDiffer ==
  /\ DOMAIN Steps = 1..14
  /\ \A i, j \in 1..14 : Steps[i] = Steps[j] => i = j
BY DEF Steps

\* The step after the one at place k is the one at place k + 1.
LEMMA AfterPlace ==
  ASSUME NEW k \in 1..13
  PROVE  After(Steps[k]) = Steps[k + 1]
<1> DEFINE place == CHOOSE i \in DOMAIN Steps : Steps[i] = Steps[k]
<1>1. \E i \in DOMAIN Steps : Steps[i] = Steps[k]
  BY StepsDiffer
<1>2. place \in DOMAIN Steps /\ Steps[place] = Steps[k]
  BY <1>1
<1>3. place = k
  BY <1>2, StepsDiffer
<1>4. After(Steps[k]) = Steps[1 + place]
  BY DEF After
<1> HIDE DEF place
<1> QED
  BY <1>3, <1>4

LEMMA AfterIs ==
  /\ After("flags") = "telemetry" /\ After("telemetry") = "stats"
  /\ After("stats") = "profile" /\ After("profile") = "inputs"
  /\ After("inputs") = "db" /\ After("db") = "geogen" /\ After("geogen") = "v1"
  /\ After("v1") = "v2" /\ After("v2") = "parse" /\ After("parse") = "parsing"
  /\ After("parsing") = "heap" /\ After("heap") = "flush" /\ After("flush") = "return"
<1>1. \A k \in 1..13 : After(Steps[k]) = Steps[k + 1]
  BY AfterPlace
<1> QED
  BY <1>1 DEF Steps

\* Deferring a release adds its resource, running one removes it.
LEMMA DeferMore ==
  ASSUME defers \in Seq(Resources), held \ Leaked \subseteq Deferred, BelowStats,
         NEW r \in Resources, Defer(r), held' \subseteq held \cup {r} \cup Leaked,
         r = <<"stats">> => Deferred \subseteq {<<"telemetry">>}
  PROVE  /\ defers' \in Seq(Resources) /\ held' \ Leaked \subseteq Deferred' /\ BelowStats'
         /\ Deferred' = Deferred \cup {r}
<1>1. defers' = <<r>> \o defers
  BY DEF Defer
<1>2. /\ defers' \in Seq(Resources) /\ Len(defers) \in Nat
      /\ Len(defers') = Len(defers) + 1
  BY <1>1
<1>3. defers'[1] = r
  BY <1>1
<1>4. ASSUME NEW i \in 1..Len(defers) PROVE defers'[i + 1] = defers[i]
  BY <1>1
<1>5. ASSUME NEW i \in 1..Len(defers'), i # 1
      PROVE  i - 1 \in 1..Len(defers) /\ defers'[i] = defers[i - 1]
  <2>1. i - 1 \in 1..Len(defers)
    BY <1>2, <1>5
  <2>2. defers'[(i - 1) + 1] = defers[i - 1]
    BY <1>4, <2>1
  <2> QED
    BY <1>5, <2>1, <2>2
<1>6. Deferred' = Deferred \cup {r}
  <2>1. ASSUME NEW x \in Deferred PROVE x \in Deferred'
    <3>1. PICK i \in 1..Len(defers) : x = defers[i]
      BY <2>1 DEF Deferred
    <3>2. i + 1 \in 1..Len(defers') /\ defers'[i + 1] = x
      BY <1>2, <1>4, <3>1
    <3> QED
      BY <3>2 DEF Deferred
  <2>2. r \in Deferred'
    BY <1>2, <1>3 DEF Deferred
  <2>3. ASSUME NEW x \in Deferred' PROVE x \in Deferred \cup {r}
    BY <1>3, <1>5, <2>3 DEF Deferred
  <2> QED
    BY <2>1, <2>2, <2>3
<1>7. BelowStats'
  <2> SUFFICES ASSUME NEW i \in 1..Len(defers'), NEW j \in 1..Len(defers'),
                      i < j, defers'[i] = <<"stats">>
               PROVE  defers'[j] = <<"telemetry">>
    BY DEF BelowStats
  <2>1. j # 1
    OBVIOUS
  <2>2. j - 1 \in 1..Len(defers) /\ defers'[j] = defers[j - 1]
    BY <2>1, <1>5
  <2>3. CASE i = 1
    BY <1>3, <2>2, <2>3 DEF Deferred
  <2>4. CASE i # 1
    <3>1. i - 1 \in 1..Len(defers) /\ defers[i - 1] = <<"stats">> /\ i - 1 < j - 1
      BY <2>4, <1>5
    <3> QED
      BY <2>2, <3>1 DEF BelowStats
  <2> QED
    BY <2>3, <2>4
<1> QED
  BY <1>2, <1>6, <1>7

LEMMA DeferLess ==
  ASSUME defers \in Seq(Resources), held \ Leaked \subseteq Deferred, BelowStats,
         defers # <<>>, defers' = Tail(defers), held' = held \ ({Head(defers)} \ Leaked)
  PROVE  /\ defers' \in Seq(Resources) /\ held' \ Leaked \subseteq Deferred' /\ BelowStats'
         /\ Deferred' \subseteq Deferred
<1>1. /\ defers' \in Seq(Resources) /\ Len(defers) \in Nat
      /\ Len(defers') = Len(defers) - 1
  OBVIOUS
<1>2. ASSUME NEW i \in 1..Len(defers')
      PROVE  i + 1 \in 1..Len(defers) /\ defers'[i] = defers[i + 1]
  BY <1>1
<1>3. ASSUME NEW x \in held' \ Leaked PROVE x \in Deferred'
  <2>1. PICK i \in 1..Len(defers) : x = defers[i]
    BY <1>3 DEF Deferred
  <2>2. i # 1
    BY <1>3, <2>1
  <2>3. i - 1 \in 1..Len(defers') /\ defers'[i - 1] = x
    BY <1>1, <2>1, <2>2
  <2> QED
    BY <2>3 DEF Deferred
<1>4. Deferred' \subseteq Deferred
  BY <1>2 DEF Deferred
<1>5. BelowStats'
  <2> SUFFICES ASSUME NEW i \in 1..Len(defers'), NEW j \in 1..Len(defers'),
                      i < j, defers'[i] = <<"stats">>
               PROVE  defers'[j] = <<"telemetry">>
    BY DEF BelowStats
  <2>1. /\ i + 1 \in 1..Len(defers) /\ defers[i + 1] = <<"stats">>
        /\ j + 1 \in 1..Len(defers) /\ defers'[j] = defers[j + 1]
    BY <1>2
  <2>2. i + 1 < j + 1
    BY <1>1
  <2> QED
    BY <2>1, <2>2 DEF BelowStats
<1> QED
  BY <1>1, <1>3, <1>4, <1>5

-----------------------------------------------------------------------------
LEMMA CmdInitInv == Init => CmdInv
<1> SUFFICES ASSUME Init PROVE CmdInv
  OBVIOUS
<1>1. defers \in Seq(Resources)
  BY DEF Init
<1> QED
  <2>1. BelowStats /\ held \ Leaked \subseteq Deferred
    BY DEF Init, BelowStats
  <2>2. DOMAIN files = Formats /\ inputs \in Nat
    BY DEF Init
  <2> QED
    BY <1>1, <2>1, <2>2 DEF Init, CollectorInit, CmdInv, StepNames, Later

\* A step that defers nothing goes to another step, which comes after the inputs
\* only when they have been read.
LEMMA QuietStep ==
  ASSUME CmdInv, exit = "running", exit' = exit, step # "return",
         UNCHANGED <<collectorVars, flags, inputs, defers>>,
         held \subseteq held', held' \subseteq held \cup Leaked,
         step' \in {"flags", "telemetry", "stats"} => step \in {"flags", "telemetry"},
         DOMAIN files' = Formats, err' \in BOOLEAN, step' \in StepNames,
         step' # "return" => ~err',
         step' \in Later => inputs = flags.inputs,
         step' \in {"heap", "flush"} \/ (step' = "return" /\ ~err') => Whole'
  PROVE  CmdInv'
<1>1. Deferred' = Deferred /\ BelowStats' = BelowStats
  BY DEF Deferred, BelowStats
<1>2. step' \in {"flags", "telemetry", "stats"} => defers = <<>> /\ Deferred = {}
  BY DEF CmdInv, Deferred
<1>3. held' \ Leaked \subseteq Deferred
  BY DEF CmdInv
<1> QED
  BY <1>1, <1>2, <1>3 DEF CmdInv, collectorVars

LEMMA PassInv ==
  ASSUME CmdInv, NEW s \in Range(Steps), Pass(s)
  PROVE  CmdInv'
<1>1. /\ step = s /\ exit = "running" /\ step' = After(s) /\ step # "return"
      /\ UNCHANGED <<collectorVars, flags, err, inputs, defers, held, files, exit>>
  BY DEF Pass, At, Go, Formats
<1>2. ~err
  BY <1>1 DEF CmdInv
<1>3. step' \in StepNames
  BY <1>1, AfterIs DEF CmdInv, StepNames
<1>4. step' \in Later => inputs = flags.inputs
  <2>1. CASE s = "inputs"
    BY <1>1, <2>1 DEF Pass, Formats
  <2>2. CASE s # "inputs"
    BY <1>1, <2>2, AfterIs DEF CmdInv, StepNames, Later
  <2> QED
    BY <2>1, <2>2
<1>5. Whole' = Whole
  BY <1>1 DEF Whole, Path
<1>6. step' \in {"heap", "flush", "return"} => Whole
  <2>1. s # "parsing"
    BY DEF Pass, Formats
  <2> QED
    BY <1>1, <2>1, AfterIs DEF CmdInv, StepNames
<1>7. step' \in {"flags", "telemetry", "stats"} => step \in {"flags", "telemetry"}
  BY <1>1, AfterIs DEF CmdInv, StepNames
<1> QED
  BY <1>1, <1>2, <1>3, <1>4, <1>5, <1>6, <1>7, QuietStep DEF CmdInv

LEMMA FailureInv ==
  ASSUME CmdInv, NEW s \in Range(Steps), Failure(s)
  PROVE  CmdInv'
<1>1. /\ step = s /\ exit = "running" /\ step' = "return" /\ err' = TRUE /\ step # "return"
      /\ UNCHANGED <<collectorVars, flags, inputs, defers, files, exit>>
  <2>1. flags.outputs \subseteq Formats
    BY FlagsAssumption DEF FlagsAssumption, CmdInv
  <2> QED
    BY <2>1 DEF Failure, At, Fail, Formats
<1>2. held \subseteq held' /\ held' \subseteq held \cup Leaked
  <2>1. LeftBy(s) \subseteq Leaked
    BY DEF LeftBy, Leaked
  <2>2. PICK left \in SUBSET LeftBy(s) : held' = held \cup left
    BY DEF Failure
  <2> QED
    BY <2>1, <2>2
<1> QED
  BY <1>1, <1>2, QuietStep DEF CmdInv, StepNames, Later

LEMMA ParsingInv ==
  ASSUME CmdInv, NoOutput \/ BeginParse \/ ParseSucceeds \/ ParseFails
  PROVE  CmdInv'
<1>1. CASE BeginParse
  <2>1. /\ step = "parse" /\ exit = "running" /\ step' = "parsing"
        /\ DOMAIN files' = Formats
        /\ UNCHANGED <<collectorVars, flags, err, inputs, defers, held, exit>>
    BY <1>1, AfterIs DEF BeginParse, At, Go
  <2> QED
    BY <2>1, QuietStep DEF CmdInv, StepNames, Later
<1>2. CASE ParseSucceeds
  <2>1. /\ step = "parsing" /\ exit = "running" /\ step' = "heap" /\ files' = Written
        /\ UNCHANGED <<collectorVars, flags, err, inputs, defers, held, exit>>
    BY <1>2, AfterIs DEF ParseSucceeds, At, Go
  <2>2. DOMAIN files' = Formats
    BY <2>1 DEF Written
  <2>3. Whole'
    <3>1. flags.outputs \subseteq Formats
      BY FlagsAssumption DEF FlagsAssumption, CmdInv
    <3> QED
      BY <2>1, <3>1 DEF Whole, Written, Path, Formats
  <2> QED
    BY <2>1, <2>2, <2>3, QuietStep DEF CmdInv, StepNames, Later
<1>3. CASE ParseFails
  <2>1. /\ step = "parsing" /\ exit = "running" /\ step' = "return" /\ err' = TRUE
        /\ UNCHANGED <<collectorVars, flags, inputs, defers, held, files, exit>>
    BY <1>3 DEF ParseFails, At, Fail
  <2> QED
    BY <2>1, QuietStep DEF CmdInv, StepNames, Later
<1>4. CASE NoOutput
  <2>1. /\ step = "parse" /\ exit = "running" /\ step' = "return" /\ flags.outputs = {}
        /\ UNCHANGED <<collectorVars, flags, err, inputs, defers, held, files, exit>>
    BY <1>4 DEF NoOutput, At
  <2>2. Whole'
    BY <2>1 DEF Whole
  <2> QED
    BY <2>1, <2>2, QuietStep DEF CmdInv, StepNames, Later
<1> QED
  BY <1>1, <1>2, <1>3, <1>4

LEMMA HeapProfileInv ==
  ASSUME CmdInv, HeapProfile
  PROVE  CmdInv'
<1>1. /\ step = "heap" /\ exit = "running" /\ ~err /\ Whole
      /\ UNCHANGED <<collectorVars, flags, inputs, defers, held, files>>
  BY DEF HeapProfile, At, CmdInv
<1>2. Whole' = Whole /\ Deferred' = Deferred /\ BelowStats' = BelowStats
  BY <1>1 DEF Whole, Path, Deferred, BelowStats
<1>3. CASE exit' = exit
  <2>1. \/ step' = "flush" /\ err' = FALSE
        \/ step' = "return" /\ err' = TRUE
    <3>1. CASE Go("heap") /\ UNCHANGED <<err, exit>>
      <4>1. step' = "flush"
        BY <3>1, AfterIs DEF Go
      <4>2. err' = FALSE
        BY <1>1, <3>1 DEF CmdInv
      <4> QED
        BY <4>1, <4>2
    <3>2. CASE Fail /\ UNCHANGED exit
      BY <3>2 DEF Fail
    <3>3. \/ Go("heap") /\ UNCHANGED <<err, exit>>
          \/ Fail /\ UNCHANGED exit
          \/ exit' = "fatal"
      BY DEF HeapProfile
    <3>4. exit' # "fatal"
      BY <1>1, <1>3
    <3> QED
      BY <3>1, <3>2, <3>3, <3>4, Zenon
  <2> QED
    BY <1>1, <1>2, <1>3, <2>1, QuietStep DEF CmdInv, StepNames, Later
<1>4. CASE exit' # exit
  <2>1. exit' = "fatal" /\ UNCHANGED <<step, err>>
    BY <1>1, <1>4 DEF HeapProfile
  <2> QED
    BY <1>1, <1>2, <2>1 DEF CmdInv, collectorVars
<1> QED
  BY <1>3, <1>4

-----------------------------------------------------------------------------
\* A step that acquires a resource and goes on.
LEMMA AcquiringStep ==
  ASSUME CmdInv, exit = "running", exit' = exit, step # "return",
         NEW r \in Resources, Defer(r),
         held \cup {r} \subseteq held', held' \subseteq held \cup {r} \cup Leaked,
         UNCHANGED <<stop, flags, err>>,
         collect' = collect \/ r = <<"stats">>,
         inputs' \in Nat, DOMAIN files' = Formats,
         step' \in StepNames \ {"flags", "telemetry", "heap", "flush", "return"},
         step' \in Later => inputs' = flags.inputs,
         r = <<"stats">> => step = "stats",
         step' = "stats" => r = <<"telemetry">> /\ step = "telemetry"
  PROVE  CmdInv'
<1>1. /\ defers' \in Seq(Resources) /\ held' \ Leaked \subseteq Deferred' /\ BelowStats'
      /\ Deferred' = Deferred \cup {r}
  BY DeferMore DEF CmdInv
<1>2. step' = "stats" => Deferred' \subseteq {<<"telemetry">>}
  <2>1. step = "telemetry" => Deferred = {}
    BY DEF CmdInv, Deferred
  <2> QED
    BY <1>1, <2>1
<1>3. stop = "none" /\ ~err
  BY DEF CmdInv
<1> QED
  BY <1>1, <1>2, <1>3 DEF CmdInv

LEMMA AcquireInv ==
  ASSUME CmdInv,
         \/ SetupTelemetry \/ StartStats \/ StartProfile \/ OpenInput
         \/ \E f \in Formats : OpenOutput(f)
  PROVE  CmdInv'
<1> USE AfterIs DEF At, Go, StepNames, Later, Resources, Acquire
<1>1. CASE SetupTelemetry
  <2>1. /\ step = "telemetry" /\ exit = "running" /\ Acquire(<<"telemetry">>)
        /\ step' = "stats" /\ UNCHANGED <<collectorVars, flags, err, inputs, files, exit>>
    BY <1>1 DEF SetupTelemetry
  <2> QED
    BY <2>1, AcquiringStep DEF CmdInv, collectorVars
<1>2. CASE StartStats
  <2>1. /\ step = "stats" /\ exit = "running" /\ Acquire(<<"stats">>)
        /\ step' = "profile" /\ UNCHANGED <<stop, flags, err, inputs, files, exit>>
    BY <1>2 DEF StartStats, Start
  <2> QED
    BY <2>1, AcquiringStep DEF CmdInv
<1>3. CASE StartProfile
  <2>1. /\ step = "profile" /\ exit = "running" /\ Defer(<<"profile">>)
        /\ held' = held \cup {<<"profile file">>, <<"profile">>}
        /\ step' = "inputs" /\ UNCHANGED <<collectorVars, flags, err, inputs, files, exit>>
    BY <1>3 DEF StartProfile
  <2>2. held' \subseteq held \cup {<<"profile">>} \cup Leaked
    BY <2>1 DEF Leaked
  <2> QED
    BY <2>1, <2>2, AcquiringStep DEF CmdInv, collectorVars
<1>4. CASE OpenInput
  <2>1. /\ step = "inputs" /\ exit = "running" /\ Acquire(<<"input", inputs + 1>>)
        /\ inputs' = inputs + 1 /\ UNCHANGED <<collectorVars, flags, step, err, files, exit>>
    BY <1>4 DEF OpenInput
  <2>2. <<"input", inputs + 1>> \in Resources /\ inputs' \in Nat
    BY <2>1 DEF CmdInv
  <2> QED
    BY <2>1, <2>2, AcquiringStep DEF CmdInv, collectorVars
<1>5. CASE \E f \in Formats : OpenOutput(f)
  <2>1. PICK f \in Formats : OpenOutput(f)
    BY <1>5
  <2>2. /\ step = f /\ exit = "running" /\ Acquire(<<"output", f>>)
        /\ step' = After(f) /\ UNCHANGED <<collectorVars, flags, err, inputs, exit>>
        /\ files' = [files EXCEPT ![Path(f)] = "empty"]
    BY <2>1 DEF OpenOutput
  <2>3. step \in Later /\ step' \in {"v2", "parse"}
    BY <2>2 DEF Formats
  <2>4. inputs' = flags.inputs /\ inputs' \in Nat /\ DOMAIN files' = Formats
    BY <2>2, <2>3 DEF CmdInv
  <2>5. <<"output", f>> \in Resources
    OBVIOUS
  <2> QED
    BY <2>2, <2>3, <2>4, <2>5, AcquiringStep DEF CmdInv, collectorVars
<1> QED
  BY <1>1, <1>2, <1>3, <1>4, <1>5

LEMMA NoStatsInv ==
  ASSUME CmdInv, NoStats
  PROVE  CmdInv'
<1>1. /\ step = "stats" /\ exit = "running" /\ step' = "profile"
      /\ UNCHANGED <<collectorVars, flags, err, inputs, defers, held, files, exit>>
  BY AfterIs DEF NoStats, At, Go
<1> QED
  BY <1>1, QuietStep DEF CmdInv, StepNames, Later

\* The deferred calls run while nothing else of the command does.
LEMMA ReturnInv ==
  ASSUME CmdInv, StopStats \/ SaveStats \/ Unwind \/ Exit
  PROVE  CmdInv'
<1>1. step = "return" /\ exit = "running"
  BY DEF StopStats, SaveStats, Unwind, Exit, At
<1>2. CASE StopStats
  <2>1. /\ defers # <<>> /\ Head(defers) = <<"stats">> /\ stop = "none" /\ stop' = "waiting"
        /\ collect # "none" /\ collect' = collect /\ UNCHANGED cmdVars
    BY <1>2 DEF StopStats, BeginStop
  <2>2. Deferred' = Deferred /\ BelowStats' = BelowStats /\ Whole' = Whole
    BY <2>1 DEF cmdVars, Deferred, BelowStats, Whole, Path
  <2>3. Deferred \subseteq {<<"telemetry">>, <<"stats">>}
    <3>1. defers \in Seq(Resources) /\ Len(defers) \in Nat /\ BelowStats
      BY DEF CmdInv
    <3>2. defers[1] = <<"stats">> /\ 1 \in 1..Len(defers)
      BY <2>1, <3>1
    <3>3. ASSUME NEW i \in 1..Len(defers)
          PROVE  defers[i] \in {<<"telemetry">>, <<"stats">>}
      <4>1. CASE i = 1
        BY <3>2, <4>1
      <4>2. CASE i # 1
        <5>1. 1 < i
          BY <3>1, <4>2
        <5> QED
          BY <3>1, <3>2, <5>1 DEF BelowStats
      <4> QED
        BY <4>1, <4>2
    <3> QED
      BY <3>3 DEF Deferred
  <2> QED
    BY <1>1, <2>1, <2>2, <2>3 DEF CmdInv, cmdVars
<1>3. CASE SaveStats
  <2>1. /\ stop = "waiting" /\ stop' = "returned" /\ collect' = collect
        /\ defers' = Tail(defers) /\ held' = held \ ({<<"stats">>} \ Leaked)
        /\ UNCHANGED <<flags, step, err, inputs, files, exit>>
    BY <1>3 DEF SaveStats, EndStop, Release
  <2>2. /\ defers' \in Seq(Resources) /\ held' \ Leaked \subseteq Deferred' /\ BelowStats'
        /\ Deferred' \subseteq Deferred
    BY <2>1, DeferLess DEF CmdInv
  <2>3. Whole' = Whole
    BY <2>1 DEF Whole, Path
  <2> QED
    BY <1>1, <2>1, <2>2, <2>3 DEF CmdInv
<1>4. CASE Unwind
  <2>1. /\ defers # <<>> /\ Head(defers) # <<"stats">> /\ UNCHANGED collectorVars
        /\ defers' = Tail(defers) /\ held' = held \ ({Head(defers)} \ Leaked)
        /\ UNCHANGED <<flags, step, err, inputs, files, exit>>
    BY <1>4 DEF Unwind, Release
  <2>2. /\ defers' \in Seq(Resources) /\ held' \ Leaked \subseteq Deferred' /\ BelowStats'
        /\ Deferred' \subseteq Deferred
    BY <2>1, DeferLess DEF CmdInv
  <2>3. Whole' = Whole
    BY <2>1 DEF Whole, Path
  <2> QED
    BY <1>1, <2>1, <2>2, <2>3 DEF CmdInv, collectorVars
<1>5. CASE Exit
  <2>1. /\ defers = <<>> /\ exit' = (IF err THEN "error" ELSE "ok")
        /\ UNCHANGED <<collectorVars, flags, step, err, inputs, defers, held, files>>
    BY <1>5 DEF Exit
  <2>2. Whole' = Whole /\ Deferred' = Deferred /\ BelowStats' = BelowStats
    BY <2>1 DEF Whole, Path, Deferred, BelowStats
  <2> QED
    BY <1>1, <2>1, <2>2 DEF CmdInv, collectorVars
<1> QED
  BY <1>2, <1>3, <1>4, <1>5

LEMMA BesideInv ==
  ASSUME CmdInv, Sampling \/ Kill \/ UNCHANGED vars
  PROVE  CmdInv'
<1>1. /\ collect' = collect \/ collect # "none"
      /\ UNCHANGED <<stop, flags, step, err, inputs, defers, held, files>>
      /\ exit' = exit \/ exit' = "killed"
  BY DEF Sampling, Kill, vars, cmdVars, collectorVars, Collecting, FirstSample, Tick,
     SeeStop, LastSample
<1>2. Whole' = Whole /\ Deferred' = Deferred /\ BelowStats' = BelowStats
  BY <1>1 DEF Whole, Path, Deferred, BelowStats
<1> QED
  BY <1>1, <1>2 DEF CmdInv

LEMMA CmdStepInv == CmdInv /\ [Next]_vars => CmdInv'
BY PassInv, FailureInv, ParsingInv, HeapProfileInv, AcquireInv, NoStatsInv, ReturnInv,
   BesideInv DEF Next, Command

THEOREM CmdInvAlways == Spec => []CmdInv
BY CmdInitInv, CmdStepInv, PTL DEF Spec

\* Whatever the flags, a command that exits with success has written each of
\* its outputs completely, or both over each other when they have one path
\* (main.go:292-337).
THEOREM SuccessAlwaysWhole == Spec => []SuccessMeansWhole
<1>1. CmdInv => SuccessMeansWhole
  BY DEF CmdInv, SuccessMeansWhole, Whole
<1> QED
  BY <1>1, CmdInvAlways, PTL

\* Whichever step fails, Stop is called when the profile, the inputs and the
\* outputs have been released, and a command that returns has left behind only
\* what no code releases, and no collector (main.go:180-355, setup.go:59-78).
THEOREM AlwaysReleasedThenReported == Spec => []ReleasedThenReported
<1>1. CmdInv /\ CollectorInv => ReleasedThenReported
  <2> SUFFICES ASSUME CmdInv, CollectorInv PROVE ReleasedThenReported
    OBVIOUS
  <2>1. stop # "none" => held \subseteq Leaked \cup {<<"stats">>}
    BY DEF CmdInv, Leaked
  <2>2. ASSUME exit \in {"ok", "error"}
        PROVE  /\ held \subseteq Leaked
               /\ collect = "none" \/ (collect = "ended" /\ stop = "returned")
    <3>1. Deferred = {} /\ held \ Leaked \subseteq Deferred
      BY <2>2 DEF CmdInv, Deferred
    <3>2. <<"stats">> \notin Leaked
      BY DEF Leaked
    <3>3. collect = "none" \/ stop = "returned"
      BY <3>1, <3>2 DEF CmdInv
    <3> QED
      BY <3>1, <3>3 DEF CollectorInv
  <2> QED
    BY <2>1, <2>2 DEF ReleasedThenReported
<1>2. CollectorSpec => []CollectorInv
  BY CollectorInitInv, CollectorStepInv, PTL DEF CollectorSpec
<1> QED
  BY <1>1, <1>2, CmdInvAlways, CommandImplementsCollector, PTL

\* No output file is touched before every input has been opened and the
\* index and the parser made (main.go:251-327).
THEOREM OldCacheAlwaysSurvives == Spec => OldCacheSurvives
<1>1. CmdInv /\ [Next]_vars =>
        [files' # files => inputs = flags.inputs /\ ~err /\ step \notin {"db", "geogen"}]_vars
  <2> SUFFICES ASSUME CmdInv, Next, files' # files
               PROVE  inputs = flags.inputs /\ ~err /\ step \notin {"db", "geogen"}
    OBVIOUS
  <2>1. step \in {"v1", "v2", "parse", "parsing"}
    BY DEF Next, Command, Pass, Failure, SetupTelemetry, StartStats, NoStats, StartProfile,
       OpenInput, OpenOutput, NoOutput, BeginParse, ParseSucceeds, ParseFails, HeapProfile,
       StopStats, SaveStats, Release, Unwind, Exit, Sampling, Kill, At, Formats, cmdVars
  <2> QED
    BY <2>1 DEF CmdInv, Later
<1> QED
  BY <1>1, CmdInvAlways, PTL DEF Spec, OldCacheSurvives

\* The variables of the command keep their types.
THEOREM CommandTypes == Spec => []TypeOK
<1> DEFINE FilesOK == files \in [Formats -> {"absent", "old", "empty", "part", "whole", "mixed"}]
<1>1. Init => FilesOK
  BY DEF Init
<1>2. FilesOK /\ [Next]_vars => FilesOK'
  <2> SUFFICES ASSUME FilesOK, [Next]_vars PROVE FilesOK'
    OBVIOUS
  <2>1. CASE files' = files
    BY <2>1
  <2>2. CASE \E f \in Formats : OpenOutput(f)
    BY <2>2 DEF OpenOutput
  <2>3. CASE BeginParse
    BY <2>3 DEF BeginParse
  <2>4. CASE ParseSucceeds
    BY <2>4 DEF ParseSucceeds, Written
  <2> QED
    BY <2>1, <2>2, <2>3, <2>4 DEF Next, Command, Pass, Failure, SetupTelemetry, StartStats,
       NoStats, StartProfile, OpenInput, NoOutput, ParseFails, HeapProfile, StopStats, SaveStats,
       Release, Unwind, Exit, Sampling, Kill, cmdVars, vars
<1>3. CmdInv /\ CollectorInv /\ FilesOK => TypeOK
  <2>1. Range(Steps) = StepNames
    <3>1. Range(Steps) = {Steps[i] : i \in 1..14}
      BY StepsDiffer DEF Range
    <3> QED
      BY <3>1 DEF Steps, StepNames
  <2> QED
    BY <2>1 DEF CmdInv, CollectorInv, TypeOK
<1>4. CollectorSpec => []CollectorInv
  BY CollectorInitInv, CollectorStepInv, PTL DEF CollectorSpec
<1> HIDE DEF FilesOK
<1> QED
  BY <1>1, <1>2, <1>3, <1>4, CmdInvAlways, CommandImplementsCollector, PTL DEF Spec
=============================================================================

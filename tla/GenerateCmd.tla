---------------------------- MODULE GenerateCmd -----------------------------
(***************************************************************************)
(* The generate command (cmd/main.go) from its flags to its exit.  It      *)
(* acquires its resources one after the other, most of them with a         *)
(* deferred release; a failure anywhere returns an error, and the deferred *)
(* calls run in reverse.  The statistics collector runs beside it.         *)
(*                                                                         *)
(* ParseOSMData is a step that begins and, if it returns, ends; module     *)
(* Generator is about what happens in between.  An output file is what has *)
(* been written to it.  The process may be killed at any time.             *)
(***************************************************************************)
EXTENDS Collector, FiniteSets

CONSTANTS
  Flags    \* the command lines: stats, profile, heap, endpoint: BOOLEAN;
           \* inputs: a number; outputs: a subset of {"v1", "v2"}; onePath;
           \* blank: an output flag is set to the empty string
Formats == {"v1", "v2"}

FlagsAssumption == \A g \in Flags : g.outputs \subseteq Formats /\ g.inputs \in Nat
ASSUME FlagsAssumption

VARIABLES
  flags,      \* the command line
  step,       \* the step that is next, "return" or "exited"
  err,        \* the error the command returns is not nil
  inputs,     \* how many inputs have been opened
  defers,     \* the deferred calls, the last first
  held,       \* the resources that have been acquired and not released
  files,      \* the output file of each format
  exit        \* "running", "ok", "error", "fatal", "killed"

cmdVars == <<flags, step, err, inputs, defers, held, files, exit>>
vars == <<collectorVars, cmdVars>>

Path(f) == IF flags.onePath THEN "v1" ELSE f

\* Mutant: the output files are opened before the inputs are read.
StepsOutputsFirst == <<"flags", "telemetry", "stats", "profile", "v1", "v2", "inputs",
                       "db", "geogen", "parse", "parsing", "heap", "flush", "return">>

\* Mutant: the collector is started when the inputs have been opened.
StepsStatsLate == <<"flags", "telemetry", "profile", "inputs", "stats", "db", "geogen",
                    "v1", "v2", "parse", "parsing", "heap", "flush", "return">>

\* The steps in the order of the code.
Steps == <<"flags", "telemetry", "stats", "profile", "inputs", "db", "geogen",
           "v1", "v2", "parse", "parsing", "heap", "flush", "return">>
After(s) == Steps[1 + CHOOSE i \in DOMAIN Steps : Steps[i] = s]

Init ==
  /\ CollectorInit
  /\ flags \in Flags
  /\ step = "flags" /\ err = FALSE /\ inputs = 0
  /\ defers = <<>> /\ held = {}
  /\ files \in [Formats -> {"absent", "old"}]
  /\ exit = "running"

At(s) == step = s /\ exit = "running"
Go(s) == step' = After(s)

Fail == step' = "return" /\ err' = TRUE

Defer(r) == defers' = <<r>> \o defers
\* A resource is acquired and its release deferred.
Acquire(r) == held' = held \cup {r} /\ Defer(r)

\* What nothing gives back: the file of the CPU profile is not closed, and
\* telemetry.Shutdown only shuts down the providers that are nil.
Leaked == {<<"telemetry">>, <<"profile file">>}

\* What a failing step may leave behind: Setup returns at its first error
\* with the providers made so far, and StartCPUProfile fails with the file open.
LeftBy(s) == CASE s = "telemetry" -> {<<"telemetry">>}
               [] s = "profile"   -> {<<"profile file">>}
               [] OTHER           -> {}

\* A step the flags leave out, or one that succeeds and acquires nothing.  An
\* error of the last one, exporting the telemetry, is only logged.
Pass(s) ==
  /\ At(s)
  /\ \/ s = "flags" /\ (flags.outputs # {} \/ flags.blank)
     \/ s = "telemetry" /\ ~flags.endpoint
     \/ s \in {"stats", "profile", "heap"} /\ ~flags[s]
     \/ s = "inputs" /\ inputs = flags.inputs
     \/ s \in Formats \ flags.outputs
     \/ s \in {"db", "geogen", "flush"}
  /\ Go(s)
  /\ UNCHANGED <<collectorVars, flags, err, inputs, defers, held, files, exit>>

\* A step that can fail returns an error.  The flags fail when none of them is
\* an output; a step that the flags leave out does not.
Failure(s) ==
  /\ At(s)
  /\ \/ s = "flags" /\ flags.outputs = {} /\ ~flags.blank
     \/ s = "telemetry" /\ flags.endpoint
     \/ s = "profile" /\ flags.profile
     \/ s = "inputs" /\ inputs < flags.inputs
     \/ s \in flags.outputs \cup {"db", "geogen"}
  /\ Fail
  /\ \E left \in SUBSET LeftBy(s) : held' = held \cup left
  /\ UNCHANGED <<collectorVars, flags, inputs, defers, files, exit>>

SetupTelemetry ==
  /\ At("telemetry")
  /\ flags.endpoint
  /\ Acquire(<<"telemetry">>)
  /\ Go("telemetry")
  /\ UNCHANGED <<collectorVars, flags, err, inputs, files, exit>>

StartStats ==
  /\ At("stats")
  /\ flags.stats
  /\ Start
  /\ Acquire(<<"stats">>)
  /\ Go("stats")
  /\ UNCHANGED <<flags, err, inputs, files, exit>>

\* NewCollector fails: the command goes on without statistics.
NoStats ==
  /\ At("stats")
  /\ flags.stats
  /\ Go("stats")
  /\ UNCHANGED <<collectorVars, flags, err, inputs, defers, held, files, exit>>

\* The deferred call stops the profile; the file stays open.
StartProfile ==
  /\ At("profile")
  /\ flags.profile
  /\ held' = held \cup {<<"profile file">>, <<"profile">>}
  /\ Defer(<<"profile">>)
  /\ Go("profile")
  /\ UNCHANGED <<collectorVars, flags, err, inputs, files, exit>>

OpenInput ==
  /\ At("inputs")
  /\ inputs < flags.inputs
  /\ inputs' = inputs + 1
  /\ Acquire(<<"input", inputs + 1>>)
  /\ UNCHANGED <<collectorVars, flags, step, err, files, exit>>

\* O_TRUNC: what was in the file is gone.
OpenOutput(f) ==
  /\ At(f)
  /\ f \in flags.outputs
  /\ files' = [files EXCEPT ![Path(f)] = "empty"]
  /\ Acquire(<<"output", f>>)
  /\ Go(f)
  /\ UNCHANGED <<collectorVars, flags, err, inputs, exit>>

\* The output flags are all empty strings: the command returns without an
\* error, having read the inputs for nothing.
NoOutput ==
  /\ At("parse")
  /\ flags.outputs = {}
  /\ step' = "return"
  /\ UNCHANGED <<collectorVars, flags, err, inputs, defers, held, files, exit>>

\* ParseOSMData begins to write.
BeginParse ==
  /\ At("parse")
  /\ flags.outputs # {}
  /\ files' = [p \in Formats |-> IF p \in {Path(f) : f \in flags.outputs} THEN "part" ELSE files[p]]
  /\ Go("parse")
  /\ UNCHANGED <<collectorVars, flags, err, inputs, defers, held, exit>>

\* ParseOSMData returns nil.  Two outputs with one path have written over
\* each other, both from the start of the file.
Written == [p \in Formats |->
  CASE p \notin {Path(f) : f \in flags.outputs} -> files[p]
    [] flags.onePath /\ flags.outputs = Formats -> "mixed"
    [] OTHER -> "whole"]

ParseSucceeds ==
  /\ At("parsing")
  /\ files' = Written
  /\ Go("parsing")
  /\ UNCHANGED <<collectorVars, flags, err, inputs, defers, held, exit>>

\* Mutant: the error of ParseOSMData is not looked at.
ParseFailsUnseen ==
  /\ At("parsing")
  /\ Go("parsing")
  /\ UNCHANGED <<collectorVars, flags, err, inputs, defers, held, files, exit>>

ParseFails ==
  /\ At("parsing")
  /\ Fail
  /\ UNCHANGED <<collectorVars, flags, inputs, defers, held, files, exit>>

\* writeHeapProfile: a file that cannot be created ends the process, and no
\* deferred call runs; a failing write is returned.
HeapProfile ==
  /\ At("heap")
  /\ flags.heap
  /\ \/ Go("heap") /\ UNCHANGED <<err, exit>>
     \/ Fail /\ UNCHANGED exit
     \/ exit' = "fatal" /\ UNCHANGED <<step, err>>
  /\ UNCHANGED <<collectorVars, flags, inputs, defers, held, files>>

\* A deferred call has run; a leaked resource is still held.
Release(r) ==
  /\ defers' = Tail(defers)
  /\ held' = held \ ({r} \ Leaked)
  /\ UNCHANGED <<flags, step, err, inputs, files, exit>>

\* The deferred function of the collector calls Stop and saves the report.
StopStats ==
  /\ At("return")
  /\ defers # <<>> /\ Head(defers) = <<"stats">>
  /\ BeginStop
  /\ UNCHANGED cmdVars

SaveStats ==
  /\ At("return")
  /\ EndStop
  /\ Release(<<"stats">>)

\* Any other deferred call.
Unwind ==
  /\ At("return")
  /\ defers # <<>> /\ Head(defers) # <<"stats">>
  /\ Release(Head(defers))
  /\ UNCHANGED collectorVars

Exit ==
  /\ At("return")
  /\ defers = <<>>
  /\ exit' = IF err THEN "error" ELSE "ok"
  /\ UNCHANGED <<collectorVars, flags, step, err, inputs, defers, held, files>>

Sampling == exit = "running" /\ Collecting /\ UNCHANGED cmdVars

Kill ==
  /\ exit = "running"
  /\ exit' = "killed"
  /\ UNCHANGED <<collectorVars, flags, step, err, inputs, defers, held, files>>

Command ==
  \/ \E s \in Range(Steps) : Pass(s) \/ Failure(s)
  \/ SetupTelemetry \/ StartStats \/ NoStats \/ StartProfile \/ OpenInput
  \/ \E f \in Formats : OpenOutput(f)
  \/ NoOutput \/ BeginParse \/ ParseSucceeds \/ ParseFails
  \/ HeapProfile \/ StopStats \/ SaveStats \/ Unwind \/ Exit

Next == Command \/ Sampling \/ Kill

\* Both goroutines run when they can; ParseOSMData is taken to return (see
\* Generator for when it does).  The select of the collector does not choose
\* the tick for ever.
Spec == Init /\ [][Next]_vars /\ WF_vars(Command) /\ WF_vars(Sampling)

-----------------------------------------------------------------------------
TypeOK ==
  /\ CollectorTypeOK
  /\ flags \in Flags
  /\ step \in Range(Steps)
  /\ exit \in {"running", "ok", "error", "fatal", "killed"}
  /\ files \in [Formats -> {"absent", "old", "empty", "part", "whole", "mixed"}]

\* A command that exits with success has written its outputs completely
\* (main.go:334-337); not if both have one path, which nothing refuses
\* (main.go:299, 315).
SuccessMeansWhole ==
  exit = "ok" => \A f \in flags.outputs :
                   files[Path(f)] = IF flags.onePath /\ flags.outputs = Formats
                                      THEN "mixed" ELSE "whole"

\* The report is about the whole command: when Stop is called (main.go:197,
\* deferred before 245, 257, 303 and 319) the profile has been stopped and the
\* inputs and outputs closed, whichever step failed.  A command that returns
\* has nothing left but what the code never gives back (main.go:237,
\* setup.go:59-78), and the collector is not running: it has not been started,
\* or has ended and Stop has returned.
ReleasedThenReported ==
  /\ stop # "none" => held \subseteq Leaked \cup {<<"stats">>}
  /\ exit \in {"ok", "error"} =>
       /\ held \subseteq Leaked
       /\ \/ collect = "none"
          \/ collect = "ended" /\ stop = "returned"

\* A previous cache is overwritten only when every input has been opened and
\* read (main.go:252-287 before 299): no earlier failure costs it.
OldCacheSurvives ==
  [][files' # files => inputs = flags.inputs /\ ~err /\ step \notin {"db", "geogen"}]_vars

\* A command whose parsing returns comes to an end, ticks or no ticks.
CommandEnds == <>(exit # "running")
=============================================================================

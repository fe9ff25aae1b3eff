---------------------------- MODULE BenchSuite ----------------------------
(*************************************************************************)
(* The benchmark suite: main() of run_suite.py, the two workers it starts*)
(* (bench_worker.py, gem5_worker.py), the files they share and ci_gate.py*)
(* on the result.  run_suite is invoked again and again, with and without*)
(* --resume, --skip-gem5 and --only; between invocations the plugin may  *)
(* be rebuilt.  An invocation or a worker may die between any two        *)
(* accesses to the files.  A JSON file is cut off until it is closed; of *)
(* the CSV a crash leaves some of the rows, the last perhaps torn.       *)
(*                                                                       *)
(* Contents stand for where they come from: a Stage A result carries the *)
(* version of the plugin it was made with, a measurement the version of  *)
(* the binary that ran.  Outputs are "out" (what the program should      *)
(* print) or "other"; a configuration may end in "error".  A row of the  *)
(* CSV has the columns that the gate reads and where the others are from.*)
(*************************************************************************)
EXTENDS Integers, Sequences, FiniteSets, SequencesExt

CONSTANTS
    Benchmarks,     \* BENCHMARKS of manifest.py, in order
    Configs,        \* CONFIGS, in order; the first is "original"
    Gating,         \* those with gates_correctness, without the original
    MaxVersion,     \* bound: how often the plugin is built
    MaxFaults,      \* bound: crashes, failures and wrong outputs
    NoFile, Cut     \* a file that does not exist, one that was cut off

Bench == ToSet(Benchmarks)
Config == ToSet(Configs)
original == Head(Configs)

ASSUME SuiteAssumption ==
    /\ Configs \in Seq(Config) /\ Configs /= <<>> /\ IsInjective(Configs)
    /\ Benchmarks \in Seq(Bench) /\ IsInjective(Benchmarks)
    /\ Gating \subseteq Config \ {original} /\ Gating /= {}
    /\ MaxVersion \in Nat \ {0} /\ MaxFaults \in Nat
    /\ \A v \in 1..MaxVersion, r \in [Config -> {"out", "other", "error"}] :
          [ver |-> v, res |-> r] \notin {NoFile, Cut}

NoPerf == [c \in Config |-> 0]      \* version 0: no measurement

NoRows == [c \in {} |-> c]

VARIABLES
    version,        \* of the plugin
    binary,         \* [bench -> [config -> version]], build/.../run_<config>
    stats,          \* [bench -> [config -> version]], m5out_<config>/stats.txt
    stageA, stageB, \* [bench -> the file], stageA.json and stageB.json
    csv,            \* [bench -> [configs with a row -> the row]], results.csv
    args,           \* the arguments of the invocation
    csv_rows,       \* its rows in memory
    next,           \* position in Benchmarks of the current one
    result,         \* what the worker has collected so far
    failed,         \* [stage -> benchmarks whose worker returned non-zero]
    verdict,        \* of ci_gate.py: "none", "pass" or "fail"
    faults,         \* how much went wrong so far
    pc

files == <<binary, stats, stageA, stageB, csv>>

vars == <<version, files, args, csv_rows, next, result, failed, verdict, faults, pc>>

bench == Benchmarks[next]

Stopped == pc \in {"idle", "finished"}

Init ==
    /\ version = 1
    /\ binary = [b \in Bench |-> NoPerf]
    /\ stats = [b \in Bench |-> NoPerf]
    /\ stageA = [b \in Bench |-> NoFile]
    /\ stageB = [b \in Bench |-> NoFile]
    /\ csv = [b \in Bench |-> NoRows]
    /\ args = [resume |-> FALSE, skip_gem5 |-> FALSE, only |-> Bench]
    /\ csv_rows = csv
    /\ next = 1
    /\ result = <<>>
    /\ failed = [stage \in {"A", "B"} |-> {}]
    /\ verdict = "none"
    /\ faults = 0
    /\ pc = "idle"

(* Something goes wrong, within the bound.                               *)
Fault ==
    /\ faults < MaxFaults
    /\ faults' = faults + 1

-----------------------------------------------------------------------------
(* A result with an `error`; every exception run_config raises has text. *)
HasError(a, c) == a.res[c] = "error"

(* Fault: missing results, of two failed configurations, compare equal.  *)
config_matches_original_NoErrorTest(a, c) == a.res[c] = a.res[original]

config_matches_original(a, c) ==
    /\ ~HasError(a, original)
    /\ ~HasError(a, c)
    /\ a.res[c] = a.res[original]

stage_a_correct(a) == \A c \in Gating : config_matches_original(a, c)

(* Cut files make json.load raise; run_suite does not catch it.          *)
Unreadable(b) ==
    \/ stageA[b] = Cut
    \/ ~args.skip_gem5 /\ stage_a_correct(stageA[b]) /\ stageB[b] = Cut

(* The column `correctness_ok_vs_original`.                              *)
correct(a, c) ==
    IF c = original \/ HasError(a, c) THEN ""
    ELSE IF config_matches_original(a, c) THEN "True" ELSE "False"

build_csv_rows(b) ==
    LET a == stageA[b]
        stage_b == IF args.skip_gem5 \/ ~stage_a_correct(a) \/ stageB[b] = NoFile
                   THEN NoPerf
                   ELSE stageB[b]
    IN  [c \in Config |-> [error |-> HasError(a, c),
                           mca   |-> IF HasError(a, c) THEN 0 ELSE a.ver,
                           perf  |-> stage_b[c],
                           ok    |-> correct(a, c)]]

-----------------------------------------------------------------------------
(* The developer rebuilds the plugin.                                    *)
Rebuild ==
    /\ Stopped
    /\ version < MaxVersion
    /\ version' = version + 1
    /\ pc' = "idle"
    /\ verdict' = "none"
    /\ UNCHANGED <<files, args, csv_rows, next, result, failed, faults>>

(* Fault: a fresh run appends to the CSV it finds.                       *)
StartWith(fresh) ==
    /\ Stopped
    /\ \E a \in [resume : BOOLEAN, skip_gem5 : BOOLEAN, only : (SUBSET Bench) \ {{}}] :
        /\ args' = a
        /\ csv' = IF a.resume THEN csv ELSE fresh
    /\ csv_rows' = csv'
    /\ next' = 1
    /\ failed' = [stage \in {"A", "B"} |-> {}]
    /\ verdict' = "none"
    /\ pc' = "bench"
    /\ UNCHANGED <<version, binary, stats, stageA, stageB, result, faults>>

Start_KeepCsv == StartWith(csv)

Start == StartWith([b \in Bench |-> NoRows])

(* The loop over the benchmarks that --only names.                       *)
Selected == pc = "bench" /\ next \in DOMAIN Benchmarks /\ bench \in args.only

PassOver ==
    /\ pc = "bench"
    /\ next \in DOMAIN Benchmarks
    /\ bench \notin args.only
    /\ next' = next + 1
    /\ UNCHANGED <<version, files, args, csv_rows, result, failed, verdict, faults, pc>>

SkipStageA ==
    /\ Selected
    /\ args.resume /\ stageA[bench] /= NoFile
    /\ pc' = "gate"
    /\ UNCHANGED <<version, files, args, csv_rows, next, result, failed, verdict, faults>>

RunStageA ==
    /\ Selected
    /\ ~args.resume \/ stageA[bench] = NoFile
    /\ result' = <<>>
    /\ pc' = "build"
    /\ UNCHANGED <<version, files, args, csv_rows, next, failed, verdict, faults>>

(* run_config for the next configuration.  One that fails before it has  *)
(* linked leaves the binary of an earlier run where it is.               *)
BuildConfig ==
    /\ pc = "build"
    /\ Len(result) < Len(Configs)
    /\ LET c == Configs[Len(result) + 1]
       IN  \E r \in {"out", "error"} \cup (IF c = original THEN {} ELSE {"other"}) :
             /\ IF r = "out" THEN UNCHANGED faults ELSE Fault
             /\ result' = Append(result, r)
             /\ \/ binary' = [binary EXCEPT ![bench][c] = version]
                \/ r = "error" /\ UNCHANGED binary
    /\ UNCHANGED <<version, stats, stageA, stageB, csv, args, csv_rows, next, failed, verdict, pc>>

OpenStageA ==
    /\ pc = "build"
    /\ Len(result) = Len(Configs)
    /\ stageA' = [stageA EXCEPT ![bench] = Cut]
    /\ pc' = "dumpA"
    /\ UNCHANGED <<version, binary, stats, stageB, csv, args, csv_rows, next, result,
                   failed, verdict, faults>>

CloseStageA ==
    /\ pc = "dumpA"
    /\ stageA' = [stageA EXCEPT ![bench] =
                    [ver |-> version,
                     res |-> [c \in Config |->
                                result[CHOOSE k \in DOMAIN Configs : Configs[k] = c]]]]
    /\ result' = <<>>
    /\ pc' = "gate"
    /\ UNCHANGED <<version, binary, stats, stageB, csv, args, csv_rows, next, failed,
                   verdict, faults>>

(* The worker raises or is killed: no row for the benchmark.             *)
StageAFails ==
    /\ pc \in {"build", "dumpA"}
    /\ Fault
    /\ failed' = [failed EXCEPT !["A"] = @ \cup {bench}]
    /\ next' = next + 1
    /\ result' = <<>>
    /\ pc' = "bench"
    /\ UNCHANGED <<version, files, args, csv_rows, verdict>>

Gem5Due(b) ==
    /\ ~args.skip_gem5
    /\ stage_a_correct(stageA[b])
    /\ ~(args.resume /\ stageB[b] /= NoFile)

CorrectnessGate ==
    /\ pc = "gate"
    /\ args.skip_gem5 \/ stageA[bench] /= Cut
    /\ pc' = IF ~args.skip_gem5 /\ Gem5Due(bench) THEN "simulate" ELSE "rows"
    /\ UNCHANGED <<version, files, args, csv_rows, next, result, failed, verdict, faults>>

(* All configurations run in gem5, each with files of its own; one that  *)
(* fails leaves the statistics of an earlier run, which are then parsed. *)
Simulate ==
    /\ pc = "simulate"
    /\ \E fails \in SUBSET Config :
        /\ IF fails = {} THEN UNCHANGED faults ELSE Fault
        /\ stats' = [stats EXCEPT ![bench] = [c \in Config |->
                        IF c \in fails \/ binary[bench][c] = 0 THEN @[c] ELSE binary[bench][c]]]
    /\ result' = [c \in Config |-> IF binary[bench][c] = 0 THEN 0 ELSE stats'[bench][c]]
    /\ pc' = "openB"
    /\ UNCHANGED <<version, binary, stageA, stageB, csv, args, csv_rows, next, failed, verdict>>

OpenStageB ==
    /\ pc = "openB"
    /\ stageB' = [stageB EXCEPT ![bench] = Cut]
    /\ pc' = "dumpB"
    /\ UNCHANGED <<version, binary, stats, stageA, csv, args, csv_rows, next, result,
                   failed, verdict, faults>>

CloseStageB ==
    /\ pc = "dumpB"
    /\ stageB' = [stageB EXCEPT ![bench] = result]
    /\ result' = <<>>
    /\ pc' = "rows"
    /\ UNCHANGED <<version, binary, stats, stageA, csv, args, csv_rows, next, failed,
                   verdict, faults>>

StageBFails ==
    /\ pc \in {"simulate", "openB", "dumpB"}
    /\ Fault
    /\ failed' = [failed EXCEPT !["B"] = @ \cup {bench}]
    /\ result' = <<>>
    /\ pc' = "rows"
    /\ UNCHANGED <<version, files, args, csv_rows, next, verdict>>

(* The benchmark's rows are replaced in memory, and the CSV is opened.   *)
(* Fault: rows that are there already win.                               *)
WriteRows_KeepOld ==
    /\ pc = "rows"
    /\ ~Unreadable(bench)
    /\ csv_rows' = [csv_rows EXCEPT ![bench] = 
                        [c \in Config |-> IF c \in DOMAIN @ THEN @[c]
                                          ELSE build_csv_rows(bench)[c]]]
    /\ csv' = [b \in Bench |-> NoRows]
    /\ pc' = "dumpCsv"
    /\ UNCHANGED <<version, binary, stats, stageA, stageB, args, next, result, failed,
                   verdict, faults>>

WriteRows ==
    /\ pc = "rows"
    /\ ~Unreadable(bench)
    /\ csv_rows' = [csv_rows EXCEPT ![bench] = build_csv_rows(bench)]
    /\ csv' = [b \in Bench |-> NoRows]
    /\ pc' = "dumpCsv"
    /\ UNCHANGED <<version, binary, stats, stageA, stageB, args, next, result, failed,
                   verdict, faults>>

CloseCsv ==
    /\ pc = "dumpCsv"
    /\ csv' = csv_rows
    /\ next' = next + 1
    /\ pc' = "bench"
    /\ UNCHANGED <<version, binary, stats, stageA, stageB, args, csv_rows, result, failed,
                   verdict, faults>>

Finish ==
    /\ pc = "bench"
    /\ next > Len(Benchmarks)
    /\ pc' = "finished"
    /\ UNCHANGED <<version, files, args, csv_rows, next, result, failed, verdict, faults>>

(* The invocation ends early, and only the files are left.               *)
Die ==
    /\ pc' = "idle"
    /\ args' = [resume |-> FALSE, skip_gem5 |-> FALSE, only |-> Bench]
    /\ csv_rows' = [b \in Bench |-> NoRows]
    /\ next' = 1
    /\ result' = <<>>
    /\ failed' = [stage \in {"A", "B"} |-> {}]
    /\ UNCHANGED <<version, binary, stats, stageA, stageB, verdict>>

(* The first n of the columns error, mca, perf and ok; a missing one is  *)
(* read as blank.                                                        *)
Torn(row, n) ==
    [error |-> n >= 1 /\ row.error,
     mca   |-> IF n >= 2 THEN row.mca ELSE 0,
     perf  |-> IF n >= 3 THEN row.perf ELSE 0,
     ok    |-> IF n >= 4 THEN row.ok ELSE ""]

(* What was flushed before the kill: of each benchmark its first rows (in*)
(* which order the benchmarks come in the file is left open), the last   *)
(* row of the file perhaps torn.                                         *)
LeaveFlushedRows ==
    \E left \in [Bench -> 0..Len(Configs)], last \in Bench, n \in 0..4 :
        csv' = [b \in Bench |->
                  [c \in {d \in DOMAIN csv_rows[b] : \E k \in 1..left[b] : Configs[k] = d} |->
                      IF b = last /\ c = Configs[left[b]] THEN Torn(csv_rows[b][c], n)
                      ELSE csv_rows[b][c]]]

Kill ==
    /\ ~Stopped
    /\ Fault
    /\ Die
    /\ IF pc = "dumpCsv" THEN LeaveFlushedRows ELSE UNCHANGED csv

(* json.load raises on a file an earlier crash has cut off.              *)
Abort ==
    /\ \/ pc = "gate" /\ ~args.skip_gem5 /\ stageA[bench] = Cut
       \/ pc = "rows" /\ Unreadable(bench)
    /\ Die
    /\ UNCHANGED <<csv, faults>>

(* ci_gate.py, a step that follows a run_suite which returned.  Fault:   *)
(* rows with an error are not looked for.                                *)
RowsPass_NoErrorCheck(rows) == \A c \in Gating \cap DOMAIN rows : rows[c].ok /= "False"

RowsPass(rows) ==
    /\ \A c \in DOMAIN rows : ~rows[c].error
    /\ \A c \in Gating \cap DOMAIN rows : rows[c].ok /= "False"

Gate ==
    /\ pc = "finished"
    /\ verdict = "none"
    /\ verdict' = IF /\ \E b \in Bench : csv[b] /= NoRows
                     /\ \A b \in Bench : RowsPass(csv[b])
                  THEN "pass" ELSE "fail"
    /\ UNCHANGED <<version, files, args, csv_rows, next, result, failed, faults, pc>>

Next ==
    \/ Rebuild \/ Start \/ PassOver \/ SkipStageA \/ RunStageA \/ BuildConfig \/ OpenStageA
    \/ CloseStageA \/ StageAFails \/ CorrectnessGate \/ Simulate \/ OpenStageB
    \/ CloseStageB \/ StageBFails \/ WriteRows \/ CloseCsv \/ Finish \/ Kill
    \/ Abort \/ Gate

Spec == Init /\ [][Next]_vars
-----------------------------------------------------------------------------
(* At every moment, also after a crash, a row of the CSV was made from   *)
(* the stageA.json that is on the disk: no row outlives its evidence, and*)
(* what a crash left of one is either blank or what that file says.      *)
RowsMatchStageA ==
    \A b \in Bench : \A c \in DOMAIN csv[b] :
        /\ stageA[b] \notin {NoFile, Cut}
        /\ csv[b][c].error => HasError(stageA[b], c)
        /\ csv[b][c].mca \in {0, stageA[b].ver}
        /\ csv[b][c].ok \in {"", correct(stageA[b], c)}

(* "Never surface stale or newly generated performance data for a        *)
(* correctness-failed benchmark", whatever crashed, was resumed or was   *)
(* measured before.                                                      *)
GatedPerformance ==
    \A b \in Bench : \A c \in DOMAIN csv[b] :
        csv[b][c].perf /= 0 => \A d \in Gating \cup {original} : stageA[b].res[d] = "out"

(* An invocation that returns leaves a CSV that agrees with the stage    *)
(* files of every benchmark it was asked for; one whose Stage A failed   *)
(* has no row.  In particular a later gem5 run fills in blank columns,   *)
(* and the rows a crash lost or tore are made again.                     *)
FinishedCsvMatchesFiles ==
    pc = "finished" =>
        \A b \in args.only :
            csv[b] = IF b \in failed["A"] THEN NoRows ELSE build_csv_rows(b)

(* A row whose columns that the gate reads are as Stage A made them.     *)
Intact(b, c) ==
    /\ csv[b][c].error = HasError(stageA[b], c)
    /\ csv[b][c].ok = correct(stageA[b], c)

(* The gate passes only what deserves it: what the invocation was asked  *)
(* for, and every other row that is intact, compiled and gave the right  *)
(* output, and after a fresh run it was this version that did.           *)
GatePassIsEarned ==
    verdict = "pass" =>
        \A b \in Bench : \A c \in DOMAIN csv[b] :
            b \in args.only \/ Intact(b, c) =>
                /\ stageA[b].res[c] /= "error"
                /\ c \in Gating => stageA[b].res[c] = "out"
                /\ ~args.resume => stageA[b].ver = version

(* "Stage B FAILED ... CSV row will have no gem5 data"                   *)
FailedStageBLeavesBlank ==
    pc = "finished" => \A b \in failed["B"] : \A c \in DOMAIN csv[b] : csv[b][c].perf = 0

(* "build every benchmark through the baseline and all three scheduler   *)
(* configs, ... and require exit code + stdout + output-file hashes to   *)
(* match the baseline": nothing passes the gate without being compared.  *)
GateCoversSuite == verdict = "pass" => \A b \in args.only : DOMAIN csv[b] = Config
=============================================================================

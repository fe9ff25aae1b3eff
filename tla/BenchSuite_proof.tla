-------------------------- MODULE BenchSuite_proof --------------------------
(*************************************************************************)
(* Proofs about the benchmark suite, for every list of benchmarks and    *)
(* configurations and every number of rebuilds, crashes and failures.    *)
(*************************************************************************)
EXTENDS BenchSuite, SequenceTheorems, TLAPS

Worker == {"build", "dumpA"}

HasStageA == {"gate", "simulate", "openB", "dumpB", "rows", "dumpCsv"}

AnyPc == {"idle", "bench", "finished"} \cup Worker \cup HasStageA

(* The loop is inside its body only for a benchmark that was asked for,  *)
(* and the worker collects one result per configuration; the original is *)
(* what the others are compared with, so it is never "other".            *)
TypeInv ==
    /\ version \in 1..MaxVersion
    /\ pc \in AnyPc
    /\ next \in Nat \ {0}
    /\ pc \in Worker \cup HasStageA => next \in DOMAIN Benchmarks /\ bench \in args.only
    /\ args \in [resume : BOOLEAN, skip_gem5 : BOOLEAN, only : SUBSET Bench]
    /\ failed \in [{"A", "B"} -> SUBSET Bench]
    /\ stageA = [b \in Bench |-> stageA[b]]
    /\ stageB = [b \in Bench |-> stageB[b]]
    /\ csv = [b \in Bench |-> csv[b]]
    /\ csv_rows = [b \in Bench |-> csv_rows[b]]
    /\ pc \in Worker =>
          /\ result \in Seq({"out", "other", "error"})
          /\ Len(result) >= 1 => result[1] /= "other"
    /\ pc = "dumpA" => Len(result) = Len(Configs)

Made(a) == a \notin {NoFile, Cut}

(* What a finished Stage A file says of the original.                    *)
StageAInv ==
    /\ \A b \in Bench : Made(stageA[b]) => stageA[b].res[original] \in {"out", "error"}
    /\ pc \in HasStageA => stageA[bench] /= NoFile

(* Rows, in memory and in the file, rest on the Stage A file: a column is*)
(* blank or what that file says, and only one that counts as correct has *)
(* measurements.                                                         *)
Backed(row, b, c) ==
    /\ Made(stageA[b])
    /\ row.error => HasError(stageA[b], c)
    /\ row.mca \in {0, stageA[b].ver}
    /\ row.ok \in {"", correct(stageA[b], c)}
    /\ row.perf /= 0 => stage_a_correct(stageA[b])

RowInv(rows) ==
    \A b \in Bench :
        /\ rows[b] = [c \in DOMAIN rows[b] |-> rows[b][c]]
        /\ DOMAIN rows[b] \subseteq Config
        /\ \A c \in DOMAIN rows[b] : Backed(rows[b][c], b, c)

(* While the Stage A file is made anew there are none.                   *)
RowsInv ==
    /\ RowInv(csv) /\ RowInv(csv_rows)
    /\ pc \in Worker => csv[bench] = NoRows /\ csv_rows[bench] = NoRows

(* The benchmarks whose rows the invocation has still to write.          *)
Ahead(b) ==
    \E k \in DOMAIN Benchmarks :
        Benchmarks[k] = b /\ (k > next \/ (k = next /\ pc /= "dumpCsv"))

(* A fresh run has no rows but those it wrote, of this version.          *)
FreshInv ==
    ~args.resume /\ pc /= "idle" =>
        /\ \A b \in Bench : Ahead(b) => csv[b] = NoRows /\ csv_rows[b] = NoRows
        /\ \A b \in Bench :
              csv[b] /= NoRows \/ csv_rows[b] /= NoRows => stageA[b].ver = version
        /\ pc \in HasStageA => Made(stageA[bench]) /\ stageA[bench].ver = version

Expected(b) == IF b \in failed["A"] THEN NoRows ELSE build_csv_rows(b)

(* Behind the current benchmark all rows are as they should be.          *)
BehindInv ==
    pc /= "idle" =>
        /\ \A k \in DOMAIN Benchmarks :
              k < next /\ Benchmarks[k] \in args.only =>
                  csv_rows[Benchmarks[k]] = Expected(Benchmarks[k])
        /\ pc = "dumpCsv" => csv_rows[bench] = build_csv_rows(bench)
        /\ pc /= "dumpCsv" => csv = csv_rows
        /\ \A b \in failed["A"] : \E k \in DOMAIN Benchmarks : k < next /\ Benchmarks[k] = b
        /\ pc = "finished" => next > Len(Benchmarks)

VerdictInv ==
    /\ verdict /= "none" => pc = "finished"
    /\ verdict = "pass" => \A b \in Bench : RowsPass(csv[b])

IInv == TypeInv /\ StageAInv /\ RowsInv /\ FreshInv /\ BehindInv /\ VerdictInv
-----------------------------------------------------------------------------
(* Every variable keeps its type.                                        *)
THEOREM TypeCorrect == Spec => []TypeInv
<1>1. Init => TypeInv
  BY SuiteAssumption DEF Init, TypeInv, AnyPc, Worker, HasStageA
<1>2. TypeInv /\ [Next]_vars => TypeInv'
  <2> SUFFICES ASSUME TypeInv, [Next]_vars PROVE TypeInv'
    OBVIOUS
  <2> USE DEF TypeInv, AnyPc, Worker, HasStageA, files
  <2>1. CASE Rebuild
    BY <2>1, SuiteAssumption DEF Rebuild, bench, Bench
  <2>2. CASE Start
    BY <2>2, SuiteAssumption DEF Start, StartWith, bench, Bench
  <2>3. CASE PassOver
    BY <2>3, SuiteAssumption DEF PassOver, bench, Bench
  <2>4. CASE SkipStageA
    BY <2>4, SuiteAssumption DEF SkipStageA, Selected, bench, Bench
  <2>5. CASE RunStageA
    BY <2>5, SuiteAssumption DEF RunStageA, Selected, bench, Bench
  <2>6. CASE BuildConfig
    <3> PICK r \in {"out", "other", "error"} :
            /\ result' = Append(result, r)
            /\ Configs[Len(result) + 1] = original => r /= "other"
      BY <2>6 DEF BuildConfig
    <3>1. result \in Seq({"out", "other", "error"}) /\ pc = "build" /\ pc' = "build"
      BY <2>6 DEF BuildConfig
    <3>2. result' \in Seq({"out", "other", "error"}) /\ result'[1] /= "other"
      <4>1. CASE result = <<>>
        BY <3>1, <4>1, SuiteAssumption DEF original
      <4>2. CASE result /= <<>>
        BY <3>1, <4>2
      <4> QED BY <4>1, <4>2
    <3> HIDE DEF HasStageA, Worker
    <3> QED BY <2>6, <3>1, <3>2 DEF BuildConfig, bench, Worker, HasStageA
  <2>7. CASE OpenStageA
    BY <2>7, SuiteAssumption DEF OpenStageA, bench, Bench
  <2>8. CASE CloseStageA
    BY <2>8, SuiteAssumption DEF CloseStageA, bench, Bench
  <2>9. CASE StageAFails
    BY <2>9, SuiteAssumption DEF StageAFails, bench, Bench
  <2>10. CASE CorrectnessGate
    BY <2>10, SuiteAssumption DEF CorrectnessGate, bench, Bench
  <2>11. CASE Simulate
    BY <2>11, SuiteAssumption DEF Simulate, bench, Bench
  <2>12. CASE OpenStageB
    BY <2>12, SuiteAssumption DEF OpenStageB, bench, Bench
  <2>13. CASE CloseStageB
    BY <2>13, SuiteAssumption DEF CloseStageB, bench, Bench
  <2>14. CASE StageBFails
    BY <2>14, SuiteAssumption DEF StageBFails, bench, Bench
  <2>15. CASE WriteRows
    BY <2>15, SuiteAssumption DEF WriteRows, bench, Bench
  <2>16. CASE CloseCsv
    BY <2>16, SuiteAssumption DEF CloseCsv, bench, Bench
  <2>17. CASE Finish
    BY <2>17, SuiteAssumption DEF Finish, bench, Bench
  <2>18. CASE Kill
    BY <2>18, SuiteAssumption DEF Kill, Die, LeaveFlushedRows, bench, Bench
  <2>19. CASE Abort
    BY <2>19, SuiteAssumption DEF Abort, Die, bench, Bench
  <2>20. CASE Gate
    BY <2>20, SuiteAssumption DEF Gate, bench, Bench
  <2>21. CASE UNCHANGED vars
    BY <2>21 DEF vars, bench
  <2> QED BY <2>1, <2>2, <2>3, <2>4, <2>5, <2>6, <2>7, <2>8, <2>9, <2>10, <2>11,
             <2>12, <2>13, <2>14, <2>15, <2>16, <2>17, <2>18, <2>19, <2>20, <2>21 DEF Next
<1> QED BY <1>1, <1>2, PTL DEF Spec
-----------------------------------------------------------------------------
(* The inductive invariant, one lemma per conjunct.                      *)
LEMMA BenchFacts ==
    /\ DOMAIN Benchmarks = 1..Len(Benchmarks) /\ Len(Benchmarks) \in Nat
    /\ \A k \in DOMAIN Benchmarks : Benchmarks[k] \in Bench
    /\ \A b \in Bench : \E k \in DOMAIN Benchmarks : Benchmarks[k] = b
    /\ \A j, k \in DOMAIN Benchmarks : Benchmarks[j] = Benchmarks[k] => j = k
  BY SuiteAssumption DEF Bench, ToSet, IsInjective

(* What the worker writes: a file that is neither missing nor cut off.   *)
LEMMA StageAFile ==
    ASSUME TypeInv, CloseStageA
    PROVE  /\ Made(stageA'[bench]) /\ stageA'[bench].ver = version
           /\ stageA'[bench].res[original] \in {"out", "error"}
           /\ \A b \in Bench \ {bench} : stageA'[b] = stageA[b]
<1> DEFINE at(c) == CHOOSE k \in DOMAIN Configs : Configs[k] = c
           res == [c \in Config |-> result[at(c)]]
<1>1. /\ result \in Seq({"out", "other", "error"}) /\ result[1] /= "other"
      /\ Len(result) = Len(Configs) /\ Len(Configs) >= 1 /\ DOMAIN Configs = 1..Len(Configs)
      /\ bench \in Bench /\ version \in 1..MaxVersion
  BY SuiteAssumption, BenchFacts DEF TypeInv, CloseStageA, Worker, bench
<1>2. \A c \in Config : at(c) \in 1..Len(Configs)
  BY <1>1 DEF Config, ToSet
<1>3. res \in [Config -> {"out", "other", "error"}]
  BY <1>1, <1>2
<1>4. original \in Config /\ at(original) = 1
  BY <1>1, SuiteAssumption DEF original, Config, ToSet, IsInjective
<1>5. stageA' = [stageA EXCEPT ![bench] = [ver |-> version, res |-> res]]
  BY DEF CloseStageA
<1>6. stageA'[bench] = [ver |-> version, res |-> res]
  BY <1>1, <1>5 DEF TypeInv
<1>7. stageA'[bench].res[original] = result[1]
  BY <1>4, <1>6
<1>8. stageA'[bench].res[original] \in {"out", "error"}
  BY <1>1, <1>7
<1>9. Made(stageA'[bench]) /\ stageA'[bench].ver = version
  <2>1. \A r \in [Config -> {"out", "other", "error"}] :
            [ver |-> version, res |-> r] \notin {NoFile, Cut}
    BY <1>1, SuiteAssumption
  <2> HIDE DEF res
  <2> QED BY <1>3, <1>6, <2>1 DEF Made
<1>10. \A b \in Bench \ {bench} : stageA'[b] = stageA[b]
  BY <1>5 DEF TypeInv
<1> QED BY <1>8, <1>9, <1>10

(* A function on nothing is the empty one.                               *)
LEMMA NoDomain ==
    ASSUME NEW rows, rows = [c \in DOMAIN rows |-> rows[c]], DOMAIN rows = {}
    PROVE  rows = NoRows
<1>1. NoRows = [c \in DOMAIN rows |-> rows[c]]
  BY DEF NoRows
<1> QED BY <1>1

(* A new row is backed by the file it is made from, and intact.          *)
LEMMA BuiltRows ==
    ASSUME NEW b \in Bench, Made(stageA[b])
    PROVE  /\ build_csv_rows(b) = [c \in DOMAIN build_csv_rows(b) |-> build_csv_rows(b)[c]]
           /\ DOMAIN build_csv_rows(b) = Config
           /\ \A c \in Config : /\ Backed(build_csv_rows(b)[c], b, c)
                                /\ build_csv_rows(b)[c].error = HasError(stageA[b], c)
                                /\ build_csv_rows(b)[c].ok = correct(stageA[b], c)
<1> DEFINE a == stageA[b]
           stage_b == IF args.skip_gem5 \/ ~stage_a_correct(a) \/ stageB[b] = NoFile
                      THEN NoPerf ELSE stageB[b]
           row(c) == [error |-> HasError(a, c), mca |-> IF HasError(a, c) THEN 0 ELSE a.ver,
                      perf |-> stage_b[c], ok |-> correct(a, c)]
<1>1. build_csv_rows(b) = [c \in Config |-> row(c)]
  BY DEF build_csv_rows
<1>2. ASSUME NEW c \in Config, row(c).perf /= 0 PROVE stage_a_correct(a)
  BY <1>2 DEF NoPerf
<1>3. \A c \in Config : /\ Backed(row(c), b, c)
                        /\ row(c).error = HasError(a, c) /\ row(c).ok = correct(a, c)
  BY <1>2 DEF Backed
<1> HIDE DEF row
<1> QED BY <1>1, <1>3

(* Rows stay backed while their file stays; without rows it may change.  *)
LEMMA CsvKept ==
    ASSUME RowInv(csv), csv' = csv,
           \A b \in Bench : stageA'[b] = stageA[b] \/ csv[b] = NoRows
    PROVE  RowInv(csv)'
  BY DEF RowInv, Backed, Made, NoRows

LEMMA CsvRowsKept ==
    ASSUME RowInv(csv_rows), csv_rows' = csv_rows,
           \A b \in Bench : stageA'[b] = stageA[b] \/ csv_rows[b] = NoRows
    PROVE  RowInv(csv_rows)'
  BY DEF RowInv, Backed, Made, NoRows

LEMMA CsvCopied ==
    ASSUME stageA' = stageA
    PROVE  /\ RowInv(csv) /\ csv_rows' = csv => RowInv(csv_rows)'
           /\ RowInv(csv_rows) /\ csv' = csv_rows => RowInv(csv)'
<1>1. \A r, c, b : Backed(r, b, c)' <=> Backed(r, b, c)
  BY DEF Backed, Made
<1> QED BY <1>1 DEF RowInv

(* No rows are backed by anything.                                       *)
LEMMA NoRowsBacked ==
    /\ csv' = [b \in Bench |-> NoRows] => RowInv(csv)'
    /\ csv_rows' = [b \in Bench |-> NoRows] => RowInv(csv_rows)'
  BY DEF RowInv, NoRows

(* What a kill leaves of rows that are backed is backed.                 *)
LEMMA FlushedRows ==
    ASSUME RowInv(csv_rows), LeaveFlushedRows, stageA' = stageA
    PROVE  RowInv(csv)'
<1> PICK left \in [Bench -> 0..Len(Configs)], last \in Bench, n \in 0..4 :
        csv' = [b \in Bench |->
                  [c \in {d \in DOMAIN csv_rows[b] : \E k \in 1..left[b] : Configs[k] = d} |->
                      IF b = last /\ c = Configs[left[b]] THEN Torn(csv_rows[b][c], n)
                      ELSE csv_rows[b][c]]]
  BY DEF LeaveFlushedRows
<1> SUFFICES ASSUME NEW b \in Bench
             PROVE  /\ csv'[b] = [c \in DOMAIN csv'[b] |-> csv'[b][c]]
                    /\ DOMAIN csv'[b] \subseteq Config
                    /\ \A c \in DOMAIN csv'[b] : Backed(csv[b][c], b, c)'
  BY DEF RowInv
<1> DEFINE kept == {d \in DOMAIN csv_rows[b] : \E k \in 1..left[b] : Configs[k] = d}
<1>1. csv'[b] = [c \in kept |-> IF b = last /\ c = Configs[left[b]]
                                THEN Torn(csv_rows[b][c], n) ELSE csv_rows[b][c]]
  OBVIOUS
<1>2. DOMAIN csv'[b] = kept /\ kept \subseteq Config
  BY <1>1 DEF RowInv
<1>3. ASSUME NEW c \in kept PROVE Backed(csv[b][c], b, c)'
  <2>1. Backed(csv_rows[b][c], b, c)
    BY DEF RowInv
  <2>2. Backed(Torn(csv_rows[b][c], n), b, c)
    BY <2>1 DEF Backed, Torn
  <2>3. csv'[b][c] = Torn(csv_rows[b][c], n) \/ csv'[b][c] = csv_rows[b][c]
    BY <1>1
  <2>4. Backed(csv'[b][c], b, c)
    BY <2>1, <2>2, <2>3
  <2> QED BY <2>4 DEF Backed, Made
<1> QED BY <1>1, <1>2, <1>3

(* What WriteRows makes of the files.                                    *)
LEMMA RowsWritten ==
    ASSUME IInv, WriteRows
    PROVE  /\ Made(stageA[bench]) /\ bench \in Bench
           /\ csv' = [b \in Bench |-> NoRows]
           /\ csv_rows'[bench] = build_csv_rows(bench)
           /\ \A b \in Bench \ {bench} : csv_rows'[b] = csv_rows[b]
<1>1. bench \in Bench
  BY BenchFacts DEF IInv, TypeInv, WriteRows, HasStageA, bench
<1>2. Made(stageA[bench])
  BY DEF IInv, StageAInv, WriteRows, HasStageA, Unreadable, Made
<1> QED BY <1>1, <1>2 DEF IInv, TypeInv, WriteRows

(* What stageA.json holds stays tied to the binaries and the stage.      *)
LEMMA StageAStep == IInv /\ TypeInv' /\ [Next]_vars => StageAInv'
<1> SUFFICES ASSUME IInv, TypeInv', [Next]_vars PROVE StageAInv'
  OBVIOUS
<1> USE BenchFacts DEF IInv, TypeInv, StageAInv, HasStageA, Worker, files, Made
<1>1. CASE Rebuild
  BY <1>1 DEF Rebuild, Stopped, bench
<1>2. CASE Start
  BY <1>2 DEF Start, StartWith, bench
<1>3. CASE PassOver
  BY <1>3 DEF PassOver, bench
<1>4. CASE SkipStageA
  BY <1>4 DEF SkipStageA, Selected, bench
<1>5. CASE RunStageA
  BY <1>5 DEF RunStageA, Selected, bench
<1>6. CASE BuildConfig
  BY <1>6 DEF BuildConfig, bench
<1>7. CASE OpenStageA
  BY <1>7 DEF OpenStageA, bench
<1>8. CASE CloseStageA
  <2>1. pc' = "gate" /\ bench' = bench
    BY <1>8 DEF CloseStageA, bench
  <2> QED BY <1>8, <2>1, StageAFile
<1>9. CASE StageAFails
  BY <1>9 DEF StageAFails, bench
<1>10. CASE CorrectnessGate
  BY <1>10 DEF CorrectnessGate, bench
<1>11. CASE Simulate
  BY <1>11 DEF Simulate, bench
<1>12. CASE OpenStageB
  BY <1>12 DEF OpenStageB, bench
<1>13. CASE CloseStageB
  BY <1>13 DEF CloseStageB, bench
<1>14. CASE StageBFails
  BY <1>14 DEF StageBFails, bench
<1>15. CASE WriteRows
  BY <1>15 DEF WriteRows, bench
<1>16. CASE CloseCsv
  BY <1>16 DEF CloseCsv, bench
<1>17. CASE Finish
  BY <1>17 DEF Finish, bench
<1>18. CASE Kill
  BY <1>18 DEF Kill, Die, Stopped, bench
<1>19. CASE Abort
  BY <1>19 DEF Abort, Die, bench
<1>20. CASE Gate
  BY <1>20 DEF Gate, bench
<1>21. CASE UNCHANGED vars
  BY <1>21 DEF vars, bench
<1> QED BY <1>1, <1>2, <1>3, <1>4, <1>5, <1>6, <1>7, <1>8, <1>9, <1>10, <1>11,
           <1>12, <1>13, <1>14, <1>15, <1>16, <1>17, <1>18, <1>19, <1>20, <1>21 DEF Next

(* Rows stay tied to the stage files they were built from.               *)
LEMMA RowsStep == IInv /\ TypeInv' /\ [Next]_vars => RowsInv'
<1> SUFFICES ASSUME IInv, TypeInv', [Next]_vars PROVE RowsInv'
  OBVIOUS
<1> USE DEF RowsInv, Worker, HasStageA, files
<1>0. /\ RowsInv /\ (pc \in Worker \cup HasStageA => bench \in Bench)
      /\ stageA = [b \in Bench |-> stageA[b]]
  BY BenchFacts DEF IInv, TypeInv, bench
<1>1. CASE Rebuild
  BY <1>0, <1>1, CsvKept, CsvRowsKept DEF Rebuild, Stopped, bench
<1>2. CASE Start
  <2>1. /\ csv' = csv \/ csv' = [b \in Bench |-> NoRows]
        /\ csv_rows' = csv' /\ stageA' = stageA /\ pc' = "bench"
    BY <1>2 DEF Start, StartWith
  <2> QED BY <1>0, <2>1, CsvKept, CsvCopied, NoRowsBacked
<1>3. CASE PassOver
  BY <1>0, <1>3, CsvKept, CsvRowsKept DEF PassOver, bench
<1>4. CASE SkipStageA
  BY <1>0, <1>4, CsvKept, CsvRowsKept DEF SkipStageA, Selected, bench
<1>5. CASE RunStageA
  <2>1. /\ UNCHANGED <<stageA, csv, csv_rows>> /\ bench' = bench /\ bench \in Bench
        /\ pc = "bench" /\ pc' = "build" /\ next \in DOMAIN Benchmarks
    BY <1>5, BenchFacts DEF RunStageA, Selected, bench
  <2>2. ASSUME stageA[bench] = NoFile PROVE csv[bench] = NoRows /\ csv_rows[bench] = NoRows
    <3>1. DOMAIN csv[bench] = {} /\ DOMAIN csv_rows[bench] = {}
      BY <1>0, <2>1, <2>2 DEF RowInv, Backed, Made
    <3> QED BY <1>0, <2>1, <3>1, NoDomain DEF RowInv
  <2>3. ASSUME ~args.resume PROVE csv[bench] = NoRows /\ csv_rows[bench] = NoRows
    BY <2>1, <2>3 DEF IInv, FreshInv, Ahead, bench
  <2> QED BY <1>0, <1>5, <2>1, <2>2, <2>3, CsvKept, CsvRowsKept DEF RunStageA
<1>6. CASE BuildConfig
  BY <1>0, <1>6, CsvKept, CsvRowsKept DEF BuildConfig, bench
<1>7. CASE OpenStageA
  BY <1>0, <1>7, CsvKept, CsvRowsKept DEF OpenStageA, bench
<1>8. CASE CloseStageA
  BY <1>0, <1>8, CsvKept, CsvRowsKept DEF CloseStageA, bench
<1>9. CASE StageAFails
  BY <1>0, <1>9, CsvKept, CsvRowsKept DEF StageAFails, bench
<1>10. CASE CorrectnessGate
  BY <1>0, <1>10, CsvKept, CsvRowsKept DEF CorrectnessGate, bench
<1>11. CASE Simulate
  BY <1>0, <1>11, CsvKept, CsvRowsKept DEF Simulate, bench
<1>12. CASE OpenStageB
  BY <1>0, <1>12, CsvKept, CsvRowsKept DEF OpenStageB, bench
<1>13. CASE CloseStageB
  BY <1>0, <1>13, CsvKept, CsvRowsKept DEF CloseStageB, bench
<1>14. CASE StageBFails
  BY <1>0, <1>14, CsvKept, CsvRowsKept DEF StageBFails, bench
<1>15. CASE WriteRows
  <2>1. stageA' = stageA /\ pc' = "dumpCsv"
    BY <1>15 DEF WriteRows
  <2>2. RowInv(csv)'
    BY <1>15, RowsWritten, NoRowsBacked
  <2>3. /\ csv_rows'[bench] = build_csv_rows(bench) /\ Made(stageA[bench]) /\ bench \in Bench
        /\ \A b \in Bench \ {bench} : csv_rows'[b] = csv_rows[b]
    BY <1>15, RowsWritten
  <2>4. \A r, c, b : Backed(r, b, c)' <=> Backed(r, b, c)
    BY <2>1 DEF Backed, Made
  <2>5. RowInv(csv_rows)'
    BY <1>0, <2>3, <2>4, BuiltRows DEF RowInv
  <2> QED BY <2>1, <2>2, <2>5
<1>16. CASE CloseCsv
  BY <1>0, <1>16, CsvCopied, CsvRowsKept DEF CloseCsv
<1>17. CASE Finish
  BY <1>0, <1>17, CsvKept, CsvRowsKept DEF Finish, bench
<1>18. CASE Kill
  <2>1. stageA' = stageA /\ pc' = "idle" /\ csv_rows' = [b \in Bench |-> NoRows]
    BY <1>18 DEF Kill, Die
  <2>2. RowInv(csv)'
    BY <1>0, <1>18, <2>1, FlushedRows, CsvKept DEF Kill
  <2> QED BY <2>1, <2>2, NoRowsBacked
<1>19. CASE Abort
  BY <1>0, <1>19, CsvKept, NoRowsBacked DEF Abort, Die
<1>20. CASE Gate
  BY <1>0, <1>20, CsvKept, CsvRowsKept DEF Gate, bench
<1>21. CASE UNCHANGED vars
  BY <1>0, <1>21, CsvKept, CsvRowsKept DEF vars, bench
<1> QED BY <1>1, <1>2, <1>3, <1>4, <1>5, <1>6, <1>7, <1>8, <1>9, <1>10, <1>11,
           <1>12, <1>13, <1>14, <1>15, <1>16, <1>17, <1>18, <1>19, <1>20, <1>21 DEF Next

(* Since a start without --resume, nothing older than it is left.        *)
LEMMA FreshStep == IInv /\ TypeInv' /\ [Next]_vars => FreshInv'
<1> SUFFICES ASSUME IInv, TypeInv', [Next]_vars PROVE FreshInv'
  OBVIOUS
<1> USE BenchFacts DEF IInv, TypeInv, StageAInv, RowsInv, RowInv, FreshInv, Ahead, Made, HasStageA, Worker, files
<1>1. CASE Rebuild
  BY <1>1 DEF Rebuild, Stopped, bench
<1>2. CASE Start
  BY <1>2 DEF Start, StartWith, bench
<1>3. CASE PassOver
  BY <1>3 DEF PassOver, bench
<1>4. CASE SkipStageA
  BY <1>4 DEF SkipStageA, Selected, bench
<1>5. CASE RunStageA
  BY <1>5 DEF RunStageA, Selected, bench
<1>6. CASE BuildConfig
  BY <1>6 DEF BuildConfig, bench
<1>7. CASE OpenStageA
  BY <1>7 DEF OpenStageA, bench
<1>8. CASE CloseStageA
  <2>1. /\ pc' = "gate" /\ pc = "dumpA" /\ next' = next /\ bench' = bench /\ bench \in Bench
        /\ UNCHANGED <<version, args, csv, csv_rows>>
        /\ csv[bench] = NoRows /\ csv_rows[bench] = NoRows
    BY <1>8 DEF CloseStageA, bench
  <2>2. FreshInv
    OBVIOUS
  <2>3. \A b \in Bench : Ahead(b)' => Ahead(b)
    BY <2>1
  <2> HIDE DEF IInv, TypeInv, Ahead
  <2> QED BY <1>8, <2>1, <2>2, <2>3, StageAFile DEF IInv
<1>9. CASE StageAFails
  BY <1>9 DEF StageAFails, bench
<1>10. CASE CorrectnessGate
  BY <1>10 DEF CorrectnessGate, bench
<1>11. CASE Simulate
  BY <1>11 DEF Simulate, bench
<1>12. CASE OpenStageB
  BY <1>12 DEF OpenStageB, bench
<1>13. CASE CloseStageB
  BY <1>13 DEF CloseStageB, bench
<1>14. CASE StageBFails
  BY <1>14 DEF StageBFails, bench
<1>15. CASE WriteRows
  <2>2. /\ stageA' = stageA /\ pc' = "dumpCsv" /\ pc = "rows" /\ next' = next
        /\ bench' = bench /\ args' = args /\ version' = version
    BY <1>15 DEF WriteRows, bench
  <2>3. ASSUME NEW b \in Bench, Ahead(b)' PROVE Ahead(b) /\ b /= bench
    BY <2>2, <2>3 DEF bench
  <2>4. /\ csv_rows'[bench] = build_csv_rows(bench) /\ Made(stageA[bench]) /\ bench \in Bench
        /\ \A b \in Bench \ {bench} : csv_rows'[b] = csv_rows[b]
        /\ csv' = [b \in Bench |-> NoRows]
    BY <1>15, RowsWritten
  <2>5. FreshInv
    OBVIOUS
  <2> HIDE DEF IInv, TypeInv, Ahead
  <2> QED BY <2>2, <2>3, <2>4, <2>5
<1>16. CASE CloseCsv
  BY <1>16 DEF CloseCsv, bench
<1>17. CASE Finish
  BY <1>17 DEF Finish, bench
<1>18. CASE Kill
  BY <1>18 DEF Kill, Die, Stopped, bench
<1>19. CASE Abort
  BY <1>19 DEF Abort, Die, bench
<1>20. CASE Gate
  BY <1>20 DEF Gate, bench
<1>21. CASE UNCHANGED vars
  BY <1>21 DEF vars, bench
<1> QED BY <1>1, <1>2, <1>3, <1>4, <1>5, <1>6, <1>7, <1>8, <1>9, <1>10, <1>11,
           <1>12, <1>13, <1>14, <1>15, <1>16, <1>17, <1>18, <1>19, <1>20, <1>21 DEF Next

(* The rows a benchmark should have depend on its own files only.        *)
LEMMA SameBuilt ==
    ASSUME NEW b, args' = args, stageA'[b] = stageA[b], stageB'[b] = stageB[b]
    PROVE  build_csv_rows(b)' = build_csv_rows(b)
  BY DEF build_csv_rows

LEMMA OthersBehind ==
    ASSUME IInv, UNCHANGED <<args, failed>>, pc \in Worker \cup HasStageA,
           \A b \in Bench \ {bench} : stageA'[b] = stageA[b] /\ stageB'[b] = stageB[b]
    PROVE  \A k \in DOMAIN Benchmarks : k < next =>
               /\ Benchmarks[k] \in Bench \ {bench}
               /\ Expected(Benchmarks[k])' = Expected(Benchmarks[k])
<1> TAKE k \in DOMAIN Benchmarks
<1> HAVE k < next
<1>1. Benchmarks[k] \in Bench \ {bench}
  BY BenchFacts DEF IInv, TypeInv, bench
<1>2. build_csv_rows(Benchmarks[k])' = build_csv_rows(Benchmarks[k])
  BY <1>1, SameBuilt
<1> QED BY <1>1, <1>2 DEF Expected

(* The benchmarks behind the loop keep their final rows.                 *)
LEMMA BehindStep == IInv /\ TypeInv' /\ [Next]_vars => BehindInv'
<1> SUFFICES ASSUME IInv, TypeInv', [Next]_vars PROVE BehindInv'
  OBVIOUS
<1> USE BenchFacts DEF IInv, TypeInv, RowsInv, BehindInv, Worker, HasStageA, files
<1>0. ASSUME UNCHANGED <<next, args, failed, csv, csv_rows, stageA, stageB>>, pc /= "idle",
             pc' = pc \/ (pc /= "dumpCsv" /\ pc' /= "dumpCsv"),
             pc' = "finished" => next > Len(Benchmarks)
      PROVE  BehindInv'
  <2>1. \A b : build_csv_rows(b)' = build_csv_rows(b)
    BY <1>0, SameBuilt
  <2>2. \A b : Expected(b)' = Expected(b)
    BY <1>0, <2>1 DEF Expected
  <2>3. bench' = bench /\ BehindInv
    BY <1>0 DEF bench
  <2> HIDE DEF IInv, TypeInv
  <2> QED BY <1>0, <2>1, <2>2, <2>3
<1>1. CASE Rebuild
  BY <1>1 DEF Rebuild, Stopped, bench
<1>2. CASE Start
  BY <1>2 DEF Start, StartWith, bench
<1>3. CASE PassOver
  <2>1. /\ next' = next + 1 /\ Benchmarks[next] \notin args.only
        /\ UNCHANGED <<pc, args, failed, csv, csv_rows, stageA, stageB>> /\ pc = "bench"
    BY <1>3 DEF PassOver, bench
  <2>2. \A k \in DOMAIN Benchmarks : Expected(Benchmarks[k])' = Expected(Benchmarks[k])
    BY <2>1, SameBuilt DEF Expected
  <2>3. \A k \in DOMAIN Benchmarks : k < next' => k < next \/ k = next
    BY <2>1
  <2>4. \A k \in DOMAIN Benchmarks : k < next => k < next'
    BY <2>1
  <2>5. BehindInv
    OBVIOUS
  <2> HIDE DEF IInv, TypeInv
  <2> QED BY <2>1, <2>2, <2>3, <2>4, <2>5
<1>4. CASE SkipStageA
  BY <1>0, <1>4 DEF SkipStageA, Selected
<1>5. CASE RunStageA
  BY <1>0, <1>5 DEF RunStageA, Selected
<1>6. CASE BuildConfig
  BY <1>0, <1>6 DEF BuildConfig
<1>7. CASE OpenStageA
  <2>1. /\ UNCHANGED <<next, args, failed, csv, csv_rows>> /\ pc \in Worker \cup HasStageA
        /\ pc /= "dumpCsv" /\ pc' \notin {"dumpCsv", "finished", "idle"}
    BY <1>7 DEF OpenStageA
  <2>2. \A b \in Bench \ {bench} : stageA'[b] = stageA[b] /\ stageB'[b] = stageB[b]
    BY <1>7 DEF OpenStageA
  <2>3. \A k \in DOMAIN Benchmarks : k < next =>
            Expected(Benchmarks[k])' = Expected(Benchmarks[k])
    BY <2>1, <2>2, OthersBehind
  <2>4. BehindInv
    OBVIOUS
  <2> HIDE DEF IInv, TypeInv
  <2> QED BY <2>1, <2>3, <2>4
<1>8. CASE CloseStageA
  <2>1. /\ UNCHANGED <<next, args, failed, csv, csv_rows>> /\ pc \in Worker \cup HasStageA
        /\ pc /= "dumpCsv" /\ pc' \notin {"dumpCsv", "finished", "idle"}
    BY <1>8 DEF CloseStageA
  <2>2. \A b \in Bench \ {bench} : stageA'[b] = stageA[b] /\ stageB'[b] = stageB[b]
    BY <1>8 DEF CloseStageA
  <2>3. \A k \in DOMAIN Benchmarks : k < next =>
            Expected(Benchmarks[k])' = Expected(Benchmarks[k])
    BY <2>1, <2>2, OthersBehind
  <2>4. BehindInv
    OBVIOUS
  <2> HIDE DEF IInv, TypeInv
  <2> QED BY <2>1, <2>3, <2>4
<1>9. CASE StageAFails
  <2>1. /\ next' = next + 1 /\ failed'["A"] = failed["A"] \cup {bench}
        /\ UNCHANGED <<args, csv, csv_rows, stageA, stageB>> /\ pc' = "bench" /\ pc \in Worker
    BY <1>9 DEF StageAFails
  <2>2. \A k \in DOMAIN Benchmarks : k < next => Benchmarks[k] /= bench
    BY <2>1 DEF bench
  <2>3. \A k \in DOMAIN Benchmarks : k < next =>
            Expected(Benchmarks[k])' = Expected(Benchmarks[k])
    BY <2>1, <2>2, SameBuilt DEF Expected
  <2>4. ASSUME NEW b, b = bench PROVE csv_rows'[b] = Expected(b)'
    <3>1. b \in failed'["A"] /\ csv_rows'[b] = NoRows
      BY <2>1, <2>4
    <3> QED BY <3>1 DEF Expected
  <2>5. \A k \in DOMAIN Benchmarks : k < next' => k < next \/ k = next
    BY <2>1
  <2>6. /\ next < next' /\ next \in DOMAIN Benchmarks /\ Benchmarks[next] = bench
        /\ \A k \in DOMAIN Benchmarks : k < next => k < next'
        /\ failed' \in [{"A", "B"} -> SUBSET Bench]
    BY <2>1 DEF bench
  <2>7. BehindInv
    OBVIOUS
  <2> HIDE DEF IInv, TypeInv
  <2> QED BY <2>1, <2>3, <2>4, <2>5, <2>6, <2>7
<1>10. CASE CorrectnessGate
  BY <1>0, <1>10 DEF CorrectnessGate
<1>11. CASE Simulate
  BY <1>0, <1>11 DEF Simulate
<1>12. CASE OpenStageB
  <2>1. /\ UNCHANGED <<next, args, failed, csv, csv_rows>> /\ pc \in Worker \cup HasStageA
        /\ pc /= "dumpCsv" /\ pc' \notin {"dumpCsv", "finished", "idle"}
    BY <1>12 DEF OpenStageB
  <2>2. \A b \in Bench \ {bench} : stageA'[b] = stageA[b] /\ stageB'[b] = stageB[b]
    BY <1>12 DEF OpenStageB
  <2>3. \A k \in DOMAIN Benchmarks : k < next =>
            Expected(Benchmarks[k])' = Expected(Benchmarks[k])
    BY <2>1, <2>2, OthersBehind
  <2>4. BehindInv
    OBVIOUS
  <2> HIDE DEF IInv, TypeInv
  <2> QED BY <2>1, <2>3, <2>4
<1>13. CASE CloseStageB
  <2>1. /\ UNCHANGED <<next, args, failed, csv, csv_rows>> /\ pc \in Worker \cup HasStageA
        /\ pc /= "dumpCsv" /\ pc' \notin {"dumpCsv", "finished", "idle"}
    BY <1>13 DEF CloseStageB
  <2>2. \A b \in Bench \ {bench} : stageA'[b] = stageA[b] /\ stageB'[b] = stageB[b]
    BY <1>13 DEF CloseStageB
  <2>3. \A k \in DOMAIN Benchmarks : k < next =>
            Expected(Benchmarks[k])' = Expected(Benchmarks[k])
    BY <2>1, <2>2, OthersBehind
  <2>4. BehindInv
    OBVIOUS
  <2> HIDE DEF IInv, TypeInv
  <2> QED BY <2>1, <2>3, <2>4
<1>14. CASE StageBFails
  <2>1. /\ UNCHANGED <<next, args, csv, csv_rows, stageA, stageB>> /\ pc' = "rows"
        /\ failed'["A"] = failed["A"] /\ pc \in {"simulate", "openB", "dumpB"}
    BY <1>14 DEF StageBFails
  <2>2. \A b : Expected(b)' = Expected(b)
    BY <2>1, SameBuilt DEF Expected
  <2>3. BehindInv
    OBVIOUS
  <2> HIDE DEF IInv, TypeInv
  <2> QED BY <2>1, <2>2, <2>3
<1>15. CASE WriteRows
  <2>1. /\ UNCHANGED <<next, args, failed, stageA, stageB>> /\ pc = "rows" /\ pc' = "dumpCsv"
        /\ bench' = bench
    BY <1>15 DEF WriteRows, bench
  <2>2. build_csv_rows(bench)' = build_csv_rows(bench)
    BY <2>1, SameBuilt
  <2>3. csv_rows'[bench] = build_csv_rows(bench)' /\ \A b \in Bench \ {bench} : csv_rows'[b] = csv_rows[b]
    BY <1>15, <2>2, RowsWritten
  <2>4. \A k \in DOMAIN Benchmarks : k < next =>
            /\ Expected(Benchmarks[k])' = Expected(Benchmarks[k])
            /\ Benchmarks[k] \in Bench \ {bench}
    BY <2>1, OthersBehind
  <2>5. BehindInv
    OBVIOUS
  <2> HIDE DEF IInv, TypeInv
  <2> QED BY <2>1, <2>3, <2>4, <2>5
<1>16. CASE CloseCsv
  <2>1. /\ next' = next + 1 /\ pc = "dumpCsv" /\ pc' = "bench" /\ csv' = csv_rows
        /\ UNCHANGED <<args, failed, csv_rows, stageA, stageB>>
    BY <1>16 DEF CloseCsv
  <2>2. \A k \in DOMAIN Benchmarks : Expected(Benchmarks[k])' = Expected(Benchmarks[k])
    BY <2>1, SameBuilt DEF Expected
  <2>3. bench \notin failed["A"] /\ csv_rows[bench] = Expected(bench)
    BY <2>1 DEF bench, Expected
  <2>4. \A k \in DOMAIN Benchmarks : k < next' => k < next \/ (k = next /\ Benchmarks[k] = bench)
    BY <2>1 DEF bench
  <2>5. \A k \in DOMAIN Benchmarks : k < next => k < next'
    BY <2>1
  <2>6. BehindInv
    OBVIOUS
  <2> HIDE DEF IInv, TypeInv
  <2> QED BY <2>1, <2>2, <2>3, <2>4, <2>5, <2>6
<1>17. CASE Finish
  BY <1>0, <1>17 DEF Finish
<1>18. CASE Kill
  BY <1>18 DEF Kill, Die, Stopped, bench
<1>19. CASE Abort
  BY <1>19 DEF Abort, Die, bench
<1>20. CASE Gate
  BY <1>0, <1>20 DEF Gate
<1>21. CASE UNCHANGED vars
  <2>1. CASE pc = "idle"
    BY <1>21, <2>1 DEF vars
  <2> QED BY <1>0, <1>21, <2>1 DEF vars
<1> QED BY <1>1, <1>2, <1>3, <1>4, <1>5, <1>6, <1>7, <1>8, <1>9, <1>10, <1>11,
           <1>12, <1>13, <1>14, <1>15, <1>16, <1>17, <1>18, <1>19, <1>20, <1>21 DEF Next

(* A passing verdict stays tied to the rows it was given for.            *)
LEMMA VerdictStep == IInv /\ TypeInv' /\ [Next]_vars => VerdictInv'
<1> SUFFICES ASSUME IInv, TypeInv', [Next]_vars PROVE VerdictInv'
  OBVIOUS
<1> USE BenchFacts DEF IInv, VerdictInv, files
<1>1. CASE Rebuild
  BY <1>1 DEF Rebuild, Stopped, RowsPass
<1>2. CASE Start
  BY <1>2 DEF Start, StartWith, Stopped, RowsPass
<1>3. CASE PassOver
  BY <1>3 DEF PassOver, Stopped, RowsPass
<1>4. CASE SkipStageA
  BY <1>4 DEF SkipStageA, Selected, Stopped, RowsPass
<1>5. CASE RunStageA
  BY <1>5 DEF RunStageA, Selected, Stopped, RowsPass
<1>6. CASE BuildConfig
  BY <1>6 DEF BuildConfig, Stopped, RowsPass
<1>7. CASE OpenStageA
  BY <1>7 DEF OpenStageA, Stopped, RowsPass
<1>8. CASE CloseStageA
  BY <1>8 DEF CloseStageA, Stopped, RowsPass
<1>9. CASE StageAFails
  BY <1>9 DEF StageAFails, Stopped, RowsPass
<1>10. CASE CorrectnessGate
  BY <1>10 DEF CorrectnessGate, Stopped, RowsPass
<1>11. CASE Simulate
  BY <1>11 DEF Simulate, Stopped, RowsPass
<1>12. CASE OpenStageB
  BY <1>12 DEF OpenStageB, Stopped, RowsPass
<1>13. CASE CloseStageB
  BY <1>13 DEF CloseStageB, Stopped, RowsPass
<1>14. CASE StageBFails
  BY <1>14 DEF StageBFails, Stopped, RowsPass
<1>15. CASE WriteRows
  BY <1>15 DEF WriteRows, Stopped, RowsPass
<1>16. CASE CloseCsv
  BY <1>16 DEF CloseCsv, Stopped, RowsPass
<1>17. CASE Finish
  BY <1>17 DEF Finish, Stopped, RowsPass
<1>18. CASE Kill
  BY <1>18 DEF Kill, Die, Stopped, RowsPass
<1>19. CASE Abort
  BY <1>19 DEF Abort, Die, Stopped, RowsPass
<1>20. CASE Gate
  BY <1>20 DEF Gate, Stopped, RowsPass
<1>21. CASE UNCHANGED vars
  BY <1>21 DEF vars, Stopped, RowsPass
<1> QED BY <1>1, <1>2, <1>3, <1>4, <1>5, <1>6, <1>7, <1>8, <1>9, <1>10, <1>11,
           <1>12, <1>13, <1>14, <1>15, <1>16, <1>17, <1>18, <1>19, <1>20, <1>21 DEF Next

-----------------------------------------------------------------------------
(* What the other theorems follow from: the Stage A files, the rows in   *)
(* memory and the rows on disk stay consistent through every step, crash *)
(* and restart.                                                          *)
THEOREM InductiveInvariant == Spec => []IInv
<1>1. Init /\ TypeInv => IInv
  BY BenchFacts DEF Init, IInv, StageAInv, RowsInv, RowInv, FreshInv, BehindInv, VerdictInv,
                    Backed, Made, Worker, HasStageA, NoRows
<1>2. IInv /\ TypeInv' /\ [Next]_vars => IInv'
  BY StageAStep, RowsStep, FreshStep, BehindStep, VerdictStep DEF IInv
<1> QED BY <1>1, <1>2, TypeCorrect, PTL DEF Spec

(* No row of results.csv outlives the stageA.json it was made from,      *)
(* whatever run_suite.py was interrupted at.                             *)
THEOREM RowsAreBacked == Spec => []RowsMatchStageA
<1>1. IInv => RowsMatchStageA
  BY DEF IInv, RowsInv, RowInv, Backed, Made, RowsMatchStageA
<1> QED BY <1>1, InductiveInvariant, PTL

(* A stage A that counts as correct has the right output throughout.     *)
LEMMA CorrectIsOut ==
    ASSUME IInv, NEW b \in Bench, Made(stageA[b]), stage_a_correct(stageA[b])
    PROVE  \A c \in Gating \cup {original} : stageA[b].res[c] = "out"
<1>1. stageA[b].res[original] \in {"out", "error"}
  BY DEF IInv, StageAInv
<1>2. \A c \in Gating : /\ stageA[b].res[original] /= "error"
                        /\ stageA[b].res[c] = stageA[b].res[original]
  BY DEF stage_a_correct, config_matches_original, HasError
<1> QED BY <1>1, <1>2, SuiteAssumption

(* run_suite.py's gate: no row has a measurement beside a result that is *)
(* not right.                                                            *)
THEOREM PerformanceIsGated == Spec => []GatedPerformance
<1>1. IInv => GatedPerformance
  BY CorrectIsOut DEF IInv, RowsInv, RowInv, Backed, GatedPerformance
<1> QED BY <1>1, InductiveInvariant, PTL

(* When the loop has ended all that was asked for is behind it.          *)
LEMMA AllBehind ==
    ASSUME IInv, pc = "finished", NEW b \in args.only
    PROVE  csv[b] = Expected(b) /\ b \in Bench
<1>1. b \in Bench
  BY DEF IInv, TypeInv
<1>2. PICK k \in DOMAIN Benchmarks : Benchmarks[k] = b
  BY <1>1, BenchFacts
<1>3. k < next
  BY BenchFacts DEF IInv, TypeInv, BehindInv
<1> QED BY <1>1, <1>2, <1>3 DEF IInv, BehindInv

(* An invocation of run_suite.py that returns has brought the rows of all*)
(* it was asked for up to date with the files, a crash's torn ones too.  *)
THEOREM FinishedCsvIsCurrent == Spec => []FinishedCsvMatchesFiles
<1>1. IInv => FinishedCsvMatchesFiles
  BY AllBehind DEF FinishedCsvMatchesFiles, Expected
<1> QED BY <1>1, InductiveInvariant, PTL

(* ci_gate.py: a pass means that what was asked for, and every other row *)
(* that no crash has torn, is right, and after a fresh run that it was   *)
(* this version of the plugin.                                           *)
THEOREM GatePassIsDeserved == Spec => []GatePassIsEarned
<1>1. IInv => GatePassIsEarned
  <2> SUFFICES ASSUME IInv, verdict = "pass", NEW b \in Bench, NEW c \in DOMAIN csv[b],
                      b \in args.only \/ Intact(b, c)
               PROVE  /\ stageA[b].res[c] /= "error"
                      /\ c \in Gating => stageA[b].res[c] = "out"
                      /\ ~args.resume => stageA[b].ver = version
    BY DEF GatePassIsEarned
  <2>1. RowsPass(csv[b]) /\ pc = "finished" /\ Made(stageA[b]) /\ c \in Config
    BY DEF IInv, VerdictInv, RowsInv, RowInv, Backed
  <2>2. csv[b] /= NoRows
    BY DEF NoRows
  <2>3. Intact(b, c)
    <3>1. CASE b \in args.only
      BY <2>1, <2>2, <3>1, AllBehind, BuiltRows DEF Expected, Intact
    <3> QED BY <3>1
  <2>4. ~HasError(stageA[b], c)
    BY <2>1, <2>3 DEF RowsPass, Intact
  <2>5. ASSUME c \in Gating PROVE stageA[b].res[c] = "out"
    <3>1. c /= original /\ correct(stageA[b], c) /= "False"
      BY <2>1, <2>3, <2>5, SuiteAssumption DEF RowsPass, Intact
    <3>2. config_matches_original(stageA[b], c)
      BY <2>4, <3>1 DEF correct
    <3> QED BY <2>1, <3>2 DEF config_matches_original, HasError, IInv, StageAInv
  <2>6. ~args.resume => stageA[b].ver = version
    BY <2>1, <2>2 DEF IInv, FreshInv
  <2> QED BY <2>4, <2>5, <2>6 DEF HasError
<1> QED BY <1>1, InductiveInvariant, PTL
=============================================================================

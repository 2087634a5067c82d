-------------------------- MODULE AccelsimCliProofs -------------------------
(***************************************************************************)
(* What any sequence of invocations of the command line program leaves     *)
(* under reports/: nothing of a run or a comparison with bad input, and no *)
(* report made of two.                                                     *)
(***************************************************************************)
EXTENDS AccelsimCli, QueueFacts, TLAPS

Files == ToSet(ReportFiles)

Step ==
    [op : {"flags", "load"}, ok : BOOLEAN]
    \cup [op : {"simulate"}, workload : Names]
    \cup [op : {"create_directories"}]
    \cup [op : {"write"}, path : Paths, workload : Names]
    \cup [op : {"read"}, path : Paths]

Commands ==
    [command : {"run"}, left : Names, flags : BOOLEAN]
    \cup [command : {"compare"}, left : Names, right : Names, flags : BOOLEAN]
    \cup [command : {"benchmark"}, stamp : Stamps]
    \cup [command : {"report", "none"}]

CliTypes ==
    /\ missing \subseteq Names
    /\ DOMAIN disk = Paths /\ number \in Nat /\ clock \in Stamps
    /\ \A p \in Paths : disk[p].by \in 0..number
    /\ args \in Commands
    /\ steps \in Seq(Step) /\ rest \in Seq(Names) /\ IsInjective(rest)
    /\ args.command # "benchmark" => rest = <<>>
    /\ status # "running" => steps = <<>> /\ rest = <<>>

-----------------------------------------------------------------------------
(* The shape of a sequence of steps.                                       *)

Into(e, dir) == e.op = "write" /\ e.path[1] = dir
Input(e) == e.op \in {"flags", "load"}

\* All input is read before anything is written.
InputFirst(s) ==
    \A j, k \in DOMAIN s : j < k /\ s[j].op = "write" => ~Input(s[k])

\* The files of a directory are written in one go.
Contiguous(s) ==
    \A j, k \in DOMAIN s, i \in DOMAIN s : \A dir \in Dirs :
        j <= i /\ i <= k /\ Into(s[j], dir) /\ Into(s[k], dir) => s[i].op = "write"

\* Every report written is one of the invocation.
Foreseen(s) ==
    \A e \in Range(s) : e.op = "write" =>
        \/ e.path = <<Latest, "compare.txt">>
        \/ \E r \in Reports, f \in Files : e = Write(r[1], f, r[2])
-----------------------------------------------------------------------------
(* The invariant.                                                          *)

Mine(dir) == {f \in Files : disk[<<dir, f>>].by = number}

\* As long as input of a run or a comparison is to be read, nothing is written.
CleanBefore ==
    (status = "running" /\ args.command \in {"run", "compare"}) =>
        /\ InputFirst(steps)
        /\ (\E e \in Range(steps) : Input(e)) => \A p \in Paths : disk[p].by # number

\* A directory that has been started is finished before anything can throw.
Unbroken ==
    /\ Contiguous(steps)
    /\ \A dir \in Dirs : Mine(dir) # {} =>
          \A k \in DOMAIN steps : Into(steps[k], dir) =>
              \A j \in 1..k : steps[j].op = "write"

Written(r, f) ==
    \/ disk[<<r[1], f>>] = [by |-> number, workload |-> r[2]]
    \/ <<r[1], f>> \in failed

\* Reports that benchmark's loop has not come to.
Later(r) == args.command = "benchmark" /\ r[2] \in Range(rest)

\* Each file of each report is written, or among the steps, or to come.
Accounted ==
    \A r \in Reports, f \in Files :
        \/ Written(r, f)
        \/ Write(r[1], f, r[2]) \in Range(steps)
        \/ Later(r)

\* What is to come is not begun.
Untouched ==
    \A r \in Reports : Later(r) =>
        Mine(r[1]) = {} /\ \A e \in Range(steps) : ~Into(e, r[1])

\* What the invocation wrote belongs to its reports.
OwnFiles ==
    /\ Foreseen(steps)
    /\ \A dir \in Dirs, f \in Files : disk[<<dir, f>>].by = number =>
          \E r \in Reports : r[1] = dir

ReportInv ==
    status = "running" => Unbroken /\ Accounted /\ Untouched /\ OwnFiles

CliInv == CliTypes /\ CleanBefore /\ BadInputWritesNothing /\ ReportInv /\ ReportsAreWhole
-----------------------------------------------------------------------------
(* The files, the directories and the steps.                               *)

LEMMA FileFacts ==
    /\ DOMAIN ReportFiles = 1..6
    /\ Files = {ReportFiles[k] : k \in 1..6}
    /\ "compare.txt" \notin Files /\ Files # {}
<1>1. DOMAIN ReportFiles = 1..6
  BY DEF ReportFiles
<1>2. Files = {ReportFiles[k] : k \in 1..6}
  BY <1>1 DEF Files, ToSet
<1>3. Files = {"summary.txt", "summary.json", "utilization.csv", "stalls.csv",
               "queue_occupancy.csv", "completed_trace.csv"}
  BY <1>2 DEF ReportFiles
<1> QED BY <1>1, <1>2, <1>3

\* No two reports of an invocation share a directory.
LEMMA DirFacts ==
    /\ Latest \in Dirs /\ Left \in Dirs /\ Right \in Dirs
    /\ Latest # Left /\ Latest # Right /\ Left # Right
    /\ \A s \in Stamps, w \in Names : Benchmark(s, w) \in Dirs
    /\ \A s, w, v : Benchmark(s, w) = Benchmark(s, v) => w = v
<1>1. Latest # Left /\ Latest # Right /\ Left # Right
  BY DEF Latest, Left, Right
<1>2. \A s, w, v : Benchmark(s, w) = Benchmark(s, v) => w = v
  BY DEF Benchmark
<1> QED BY <1>1, <1>2 DEF Dirs

\* The paths of the files.
LEMMA PathFacts ==
    /\ \A dir \in Dirs, f \in Files : <<dir, f>> \in Paths
    /\ <<Latest, "compare.txt">> \in Paths
BY DEF Paths, Files

\* The steps and what kind they are.
LEMMA StepFacts ==
    /\ \A ok \in BOOLEAN : Flags(ok) \in Step /\ Input(Flags(ok)) /\ Flags(ok).op # "write"
    /\ \A w : Load(w) \in Step /\ Input(Load(w)) /\ Load(w).op # "write"
    /\ \A w \in Names : /\ Simulate(w) \in Step /\ ~Input(Simulate(w))
                        /\ Simulate(w).op # "write"
    /\ CreateDirectories \in Step /\ ~Input(CreateDirectories)
    /\ CreateDirectories.op # "write"
    /\ \A dir, f, w : /\ Write(dir, f, w).op = "write" /\ ~Input(Write(dir, f, w))
                      /\ Write(dir, f, w).path = <<dir, f>>
                      /\ Write(dir, f, w).workload = w
                      /\ \A d : Into(Write(dir, f, w), d) <=> d = dir
    /\ \A dir, f : \A w \in Names : <<dir, f>> \in Paths => Write(dir, f, w) \in Step
    /\ \A dir, f : <<dir, f>> \in Paths => Read(dir, f) \in Step
    /\ \A dir, f : ~Input(Read(dir, f)) /\ Read(dir, f).op # "write"
<1>1. \A ok \in BOOLEAN : Flags(ok) \in Step /\ Input(Flags(ok)) /\ Flags(ok).op # "write"
  BY DEF Flags, Step, Input
<1>2. \A w : Load(w) \in Step /\ Input(Load(w)) /\ Load(w).op # "write"
  BY DEF Load, Step, Input
<1>3. \A w \in Names : /\ Simulate(w) \in Step /\ ~Input(Simulate(w))
                       /\ Simulate(w).op # "write"
  BY DEF Simulate, Step, Input
<1>4. CreateDirectories \in Step /\ ~Input(CreateDirectories)
      /\ CreateDirectories.op # "write"
  BY DEF CreateDirectories, Step, Input
<1>5. \A dir, f, w : /\ Write(dir, f, w).op = "write" /\ ~Input(Write(dir, f, w))
                     /\ Write(dir, f, w).path = <<dir, f>>
                     /\ Write(dir, f, w).workload = w
                     /\ \A d : Into(Write(dir, f, w), d) <=> d = dir
  BY DEF Write, Input, Into
<1>6. \A dir, f : \A w \in Names : <<dir, f>> \in Paths => Write(dir, f, w) \in Step
  BY DEF Write, Step
<1>7. \A dir, f : <<dir, f>> \in Paths => Read(dir, f) \in Step
  BY DEF Read, Step
<1>8. \A dir, f : ~Input(Read(dir, f)) /\ Read(dir, f).op # "write"
  BY DEF Read, Input
<1> QED BY <1>1, <1>2, <1>3, <1>4, <1>5, <1>6, <1>7, <1>8

LEMMA WriteFacts ==
    ASSUME NEW dir, NEW f, NEW w
    PROVE  /\ Write(dir, f, w).op = "write" /\ ~Input(Write(dir, f, w))
           /\ Write(dir, f, w).path = <<dir, f>> /\ Write(dir, f, w).workload = w
           /\ \A d : Into(Write(dir, f, w), d) <=> d = dir
BY DEF Write, Input, Into

\* Where the steps of two sequences are in their concatenation.
LEMMA ConcatSteps ==
    ASSUME NEW a \in Seq(Step), NEW b \in Seq(Step)
    PROVE  /\ a \o b \in Seq(Step)
           /\ DOMAIN a = 1..Len(a) /\ DOMAIN b = 1..Len(b)
           /\ Len(a) \in Nat /\ Len(b) \in Nat
           /\ DOMAIN (a \o b) = 1..(Len(a) + Len(b))
           /\ \A k \in 1..Len(a) : (a \o b)[k] = a[k]
           /\ \A k \in 1..Len(b) : (a \o b)[Len(a) + k] = b[k]
           /\ \A k \in 1..(Len(a) + Len(b)) :
                 \/ k \in 1..Len(a) /\ (a \o b)[k] = a[k]
                 \/ k > Len(a) /\ k - Len(a) \in 1..Len(b) /\ (a \o b)[k] = b[k - Len(a)]
           /\ Range(a \o b) = Range(a) \cup Range(b)
<1>1. /\ a \o b \in Seq(Step)
      /\ DOMAIN a = 1..Len(a) /\ DOMAIN b = 1..Len(b)
      /\ Len(a) \in Nat /\ Len(b) \in Nat
      /\ DOMAIN (a \o b) = 1..(Len(a) + Len(b))
  OBVIOUS
<1>2. \A k \in 1..Len(a) : (a \o b)[k] = a[k] /\ k \in 1..(Len(a) + Len(b))
  OBVIOUS
<1>3. \A k \in 1..Len(b) : (a \o b)[Len(a) + k] = b[k] /\ Len(a) + k \in 1..(Len(a) + Len(b))
  OBVIOUS
<1>4. \A k \in 1..(Len(a) + Len(b)) :
         \/ k \in 1..Len(a) /\ (a \o b)[k] = a[k]
         \/ k > Len(a) /\ k - Len(a) \in 1..Len(b) /\ (a \o b)[k] = b[k - Len(a)]
  OBVIOUS
<1> DEFINE c == a \o b
<1> HIDE DEF c
<1>5. Range(c) = Range(a) \cup Range(b)
  <2>1. ASSUME NEW e \in Range(c) PROVE e \in Range(a) \cup Range(b)
    BY <1>1, <1>4, <2>1 DEF Range, c
  <2>2. ASSUME NEW e \in Range(a) PROVE e \in Range(c)
    BY <1>1, <1>2, <2>2 DEF Range, c
  <2>3. ASSUME NEW e \in Range(b) PROVE e \in Range(c)
    BY <1>1, <1>3, <2>3 DEF Range, c
  <2> QED BY <2>1, <2>2, <2>3
<1> QED BY <1>1, <1>2, <1>3, <1>4, <1>5 DEF c

\* Input stays in front of output, if nothing is read after the first part, or
\* nothing written in it.
LEMMA ConcatInput ==
    ASSUME NEW a \in Seq(Step), NEW b \in Seq(Step), InputFirst(a), InputFirst(b),
           (\A e \in Range(a) : e.op # "write") \/ (\A e \in Range(b) : ~Input(e))
    PROVE  InputFirst(a \o b)
<1> DEFINE c == a \o b
<1>1. /\ DOMAIN a = 1..Len(a) /\ DOMAIN b = 1..Len(b)
      /\ Len(a) \in Nat /\ Len(b) \in Nat
      /\ DOMAIN c = 1..(Len(a) + Len(b))
      /\ \A k \in 1..(Len(a) + Len(b)) :
            \/ k \in 1..Len(a) /\ c[k] = a[k]
            \/ k > Len(a) /\ k - Len(a) \in 1..Len(b) /\ c[k] = b[k - Len(a)]
  BY ConcatSteps
<1> HIDE DEF c
<1>2. ASSUME NEW j \in DOMAIN c, NEW k \in DOMAIN c, j < k, c[j].op = "write", Input(c[k])
      PROVE  FALSE
  <2>1. CASE j \in 1..Len(a) /\ c[j] = a[j] /\ k \in 1..Len(a) /\ c[k] = a[k]
    BY <1>1, <1>2, <2>1 DEF InputFirst
  <2>2. CASE /\ j \in 1..Len(a) /\ c[j] = a[j]
             /\ k - Len(a) \in 1..Len(b) /\ c[k] = b[k - Len(a)]
    <3>1. a[j] \in Range(a) /\ b[k - Len(a)] \in Range(b)
      BY <1>1, <2>2 DEF Range
    <3> QED BY <1>2, <2>2, <3>1
  <2>3. CASE /\ j > Len(a) /\ j - Len(a) \in 1..Len(b) /\ c[j] = b[j - Len(a)]
             /\ k > Len(a) /\ k - Len(a) \in 1..Len(b) /\ c[k] = b[k - Len(a)]
    <3>1. j - Len(a) < k - Len(a)
      BY <1>1, <1>2
    <3> QED BY <1>1, <1>2, <2>3, <3>1 DEF InputFirst
  <2>4. ~(j > Len(a) /\ k \in 1..Len(a))
    BY <1>1, <1>2
  <2> QED BY <1>1, <2>1, <2>2, <2>3, <2>4
<1> QED BY <1>2 DEF InputFirst, c

\* Files of a directory stay together if the parts write to different ones.
LEMMA ConcatContiguous ==
    ASSUME NEW a \in Seq(Step), NEW b \in Seq(Step), Contiguous(a), Contiguous(b),
           \A dir \in Dirs : \A d \in Range(a), e \in Range(b) :
              ~(Into(d, dir) /\ Into(e, dir))
    PROVE  Contiguous(a \o b)
<1> DEFINE c == a \o b
<1>1. /\ DOMAIN a = 1..Len(a) /\ DOMAIN b = 1..Len(b)
      /\ Len(a) \in Nat /\ Len(b) \in Nat
      /\ DOMAIN c = 1..(Len(a) + Len(b))
      /\ \A k \in 1..(Len(a) + Len(b)) :
            \/ k \in 1..Len(a) /\ c[k] = a[k]
            \/ k > Len(a) /\ k - Len(a) \in 1..Len(b) /\ c[k] = b[k - Len(a)]
  BY ConcatSteps
<1> HIDE DEF c
<1>2. ASSUME NEW j \in DOMAIN c, NEW k \in DOMAIN c, NEW i \in DOMAIN c, NEW dir \in Dirs,
             j <= i, i <= k, Into(c[j], dir), Into(c[k], dir)
      PROVE  c[i].op = "write"
  <2>1. CASE j \in 1..Len(a) /\ c[j] = a[j] /\ k \in 1..Len(a) /\ c[k] = a[k]
    <3>1. i \in 1..Len(a) /\ c[i] = a[i]
      BY <1>1, <1>2, <2>1
    <3> QED BY <1>1, <1>2, <2>1, <3>1 DEF Contiguous
  <2>2. CASE /\ j \in 1..Len(a) /\ c[j] = a[j]
             /\ k - Len(a) \in 1..Len(b) /\ c[k] = b[k - Len(a)]
    <3>1. a[j] \in Range(a) /\ b[k - Len(a)] \in Range(b)
      BY <1>1, <2>2 DEF Range
    <3> QED BY <1>2, <2>2, <3>1
  <2>3. CASE /\ j > Len(a) /\ j - Len(a) \in 1..Len(b) /\ c[j] = b[j - Len(a)]
             /\ k > Len(a) /\ k - Len(a) \in 1..Len(b) /\ c[k] = b[k - Len(a)]
    <3>0. i \in 1..(Len(a) + Len(b)) /\ i > Len(a) /\ i \in Nat /\ j \in Nat /\ k \in Nat
      BY <1>1, <1>2, <2>3
    <3>1. i - Len(a) \in 1..Len(b) /\ j - Len(a) <= i - Len(a) /\ i - Len(a) <= k - Len(a)
      BY <1>1, <1>2, <3>0
    <3>2. c[i] = b[i - Len(a)]
      <4>1. i \notin 1..Len(a)
        BY <1>1, <3>0
      <4> QED BY <1>1, <3>0, <4>1, Zenon
    <3>3. Into(b[j - Len(a)], dir) /\ Into(b[k - Len(a)], dir)
      BY <1>2, <2>3
    <3>4. b[i - Len(a)].op = "write"
      BY <1>1, <2>3, <3>1, <3>3 DEF Contiguous
    <3> QED BY <3>2, <3>4
  <2>4. ~(j > Len(a) /\ k \in 1..Len(a))
    BY <1>1, <1>2
  <2> QED BY <1>1, <2>1, <2>2, <2>3, <2>4
<1> QED BY <1>2 DEF Contiguous, c
-----------------------------------------------------------------------------
(* The commands.                                                           *)

\* Steps that write nothing have every good shape.
LEMMA Quiet ==
    ASSUME NEW a \in Seq(Step), \A e \in Range(a) : e.op # "write"
    PROVE  InputFirst(a) /\ Contiguous(a)
<1>1. \A k \in DOMAIN a : a[k].op # "write"
  BY DEF Range
<1> QED BY <1>1 DEF InputFirst, Contiguous, Into

\* s writes a report on w to dir, all of it, and nothing else.
WritesReport(s, dir, w) ==
    /\ s \in Seq(Step) /\ Contiguous(s) /\ InputFirst(s)
    /\ \A e \in Range(s) : e.op = "write" => \E f \in Files : e = Write(dir, f, w)
    /\ \A f \in Files : Write(dir, f, w) \in Range(s)

LEMMA WriteReportShape ==
    ASSUME NEW w \in Names, NEW dir \in Dirs
    PROVE  /\ WritesReport(write_report(w, dir), dir, w)
           /\ \A e \in Range(write_report(w, dir)) : ~Input(e)
<1> DEFINE a == <<CreateDirectories>>
           b == [k \in DOMAIN ReportFiles |-> Write(dir, ReportFiles[k], w)]
<1>1. write_report(w, dir) = a \o b
  BY DEF write_report
<1>2. a \in Seq(Step) /\ Range(a) = {CreateDirectories}
  <2>1. CreateDirectories \in Step
    BY StepFacts
  <2>2. a \in Seq(Step) /\ DOMAIN a = 1..1 /\ a[1] = CreateDirectories
    BY <2>1
  <2> QED BY <2>2 DEF Range
<1>3. InputFirst(a) /\ Contiguous(a) /\ \A e \in Range(a) : e.op # "write" /\ ~Input(e)
  <2>1. \A e \in Range(a) : e.op # "write" /\ ~Input(e)
    BY <1>2, StepFacts, Zenon
  <2> HIDE DEF a
  <2> QED BY <1>2, <2>1, Quiet
<1>4. \A k \in 1..6 : ReportFiles[k] \in Files
  BY FileFacts
<1>5. \A k \in 1..6 : Write(dir, ReportFiles[k], w) \in Step
  BY <1>4, PathFacts, StepFacts, Zenon
<1>6. /\ b \in Seq(Step) /\ DOMAIN b = 1..6
      /\ \A k \in 1..6 : b[k] = Write(dir, ReportFiles[k], w)
  BY <1>5, FileFacts
<1> HIDE DEF a, b
<1>7. Range(b) = {Write(dir, f, w) : f \in Files}
  <2>1. Files = {ReportFiles[k] : k \in 1..6}
    BY FileFacts
  <2>2. ASSUME NEW e \in Range(b)
        PROVE  \E f \in Files : e = Write(dir, f, w)
    <3>1. PICK k \in 1..6 : e = b[k]
      BY <1>6 DEF Range
    <3>2. ReportFiles[k] \in Files /\ e = Write(dir, ReportFiles[k], w)
      BY <1>4, <1>6, <3>1
    <3> QED BY <3>2
  <2>3. ASSUME NEW f \in Files
        PROVE  Write(dir, f, w) \in Range(b)
    <3>1. PICK k \in 1..6 : f = ReportFiles[k]
      BY <2>1
    <3>2. b[k] = Write(dir, f, w) /\ k \in DOMAIN b
      BY <1>6, <3>1
    <3> QED BY <3>2, Zenon DEF Range
  <2> QED BY <2>2, <2>3
<1>8. \A e \in Range(b) : e.op = "write" /\ ~Input(e)
  <2> SUFFICES ASSUME NEW f \in Files
               PROVE  Write(dir, f, w).op = "write" /\ ~Input(Write(dir, f, w))
    BY <1>7, Zenon
  <2> QED BY WriteFacts
<1>9. InputFirst(b) /\ Contiguous(b)
  <2>1. \A k \in DOMAIN b : b[k].op = "write" /\ ~Input(b[k])
    BY <1>8 DEF Range
  <2> QED BY <2>1 DEF InputFirst, Contiguous
<1>10. a \o b \in Seq(Step) /\ Range(a \o b) = Range(a) \cup Range(b)
  BY <1>2, <1>6, ConcatSteps
<1>11. InputFirst(a \o b)
  BY <1>2, <1>3, <1>6, <1>9, ConcatInput
<1>12. Contiguous(a \o b)
  <2>1. \A d \in Dirs : \A x \in Range(a), y \in Range(b) : ~(Into(x, d) /\ Into(y, d))
    BY <1>3 DEF Into
  <2> QED BY <1>2, <1>3, <1>6, <1>9, <2>1, ConcatContiguous
<1>13. \A e \in Range(a \o b) : /\ e.op = "write" => \E f \in Files : e = Write(dir, f, w)
                                /\ ~Input(e)
  BY <1>3, <1>7, <1>8, <1>10, Zenon
<1>14. \A f \in Files : Write(dir, f, w) \in Range(a \o b)
  BY <1>7, <1>10, Zenon
<1> QED BY <1>1, <1>10, <1>11, <1>12, <1>13, <1>14, Zenon DEF WritesReport

\* Input and simulation in front of a report.
LEMMA BeforeReport ==
    ASSUME NEW a \in Seq(Step), \A e \in Range(a) : e.op # "write",
           NEW w \in Names, NEW dir \in Dirs
    PROVE  WritesReport(a \o write_report(w, dir), dir, w)
<1> DEFINE b == write_report(w, dir)
<1>1. WritesReport(b, dir, w)
  BY WriteReportShape
<1> HIDE DEF b
<1>2. b \in Seq(Step) /\ InputFirst(b) /\ Contiguous(b)
  BY <1>1 DEF WritesReport
<1>3. InputFirst(a) /\ Contiguous(a)
  BY Quiet
<1>4. a \o b \in Seq(Step) /\ Range(a \o b) = Range(a) \cup Range(b)
  BY <1>2, ConcatSteps
<1>5. InputFirst(a \o b)
  BY <1>2, <1>3, ConcatInput
<1>6. Contiguous(a \o b)
  <2>1. \A d \in Dirs : \A x \in Range(a), y \in Range(b) : ~(Into(x, d) /\ Into(y, d))
    BY DEF Into
  <2> QED BY <1>2, <1>3, <2>1, ConcatContiguous
<1> QED BY <1>1, <1>4, <1>5, <1>6, Zenon DEF WritesReport, b

LEMMA RunShape ==
    ASSUME NEW w \in Names, NEW ok \in BOOLEAN
    PROVE  WritesReport(run(w, ok), Latest, w)
<1> DEFINE a == <<Flags(ok), Load(w), Simulate(w)>>
<1>1. Flags(ok) \in Step /\ Load(w) \in Step /\ Simulate(w) \in Step
  BY StepFacts, Zenon
<1>2. a \in Seq(Step)
  BY <1>1
<1>3. \A e \in Range(a) : e = Flags(ok) \/ e = Load(w) \/ e = Simulate(w)
  BY <1>1 DEF Range
<1>4. \A e \in Range(a) : e.op # "write"
  BY <1>3, StepFacts, Zenon
<1> HIDE DEF a
<1>5. WritesReport(a \o write_report(w, Latest), Latest, w)
  BY <1>2, <1>4, BeforeReport, DirFacts
<1> QED BY <1>5 DEF run, a

LEMMA BenchmarkShape ==
    ASSUME NEW w \in Names, NEW stamp \in Stamps
    PROVE  WritesReport(benchmark_one(w, stamp), Benchmark(stamp, w), w)
<1> DEFINE a == <<Load(w), Simulate(w)>>
<1>1. Load(w) \in Step /\ Simulate(w) \in Step
  BY StepFacts, Zenon
<1>2. a \in Seq(Step)
  BY <1>1
<1>3. \A e \in Range(a) : e = Load(w) \/ e = Simulate(w)
  BY <1>1 DEF Range
<1>4. \A e \in Range(a) : e.op # "write"
  BY <1>3, StepFacts, Zenon
<1> HIDE DEF a
<1>5. WritesReport(a \o write_report(w, Benchmark(stamp, w)), Benchmark(stamp, w), w)
  BY <1>2, <1>4, BeforeReport, DirFacts
<1> QED BY <1>5 DEF benchmark_one, a

\* A comparison writes its two reports one after the other, then compare.txt.
LEMMA CompareShape ==
    ASSUME NEW l \in Names, NEW r \in Names, NEW ok \in BOOLEAN
    PROVE  LET s == compare(l, r, ok) IN
           /\ s \in Seq(Step) /\ Contiguous(s) /\ InputFirst(s)
           /\ \A e \in Range(s) : e.op = "write" =>
                 \/ e = Write(Latest, "compare.txt", l)
                 \/ \E f \in Files : e = Write(Left, f, l) \/ e = Write(Right, f, r)
           /\ \A f \in Files : Write(Left, f, l) \in Range(s) /\ Write(Right, f, r) \in Range(s)
<1> DEFINE a == <<Flags(ok), Load(l), Load(r), Simulate(l), Simulate(r), CreateDirectories>>
           b == a \o write_report(l, Left)
           c == write_report(r, Right)
           z == <<Write(Latest, "compare.txt", l)>>
<1>1. /\ Flags(ok) \in Step /\ Load(l) \in Step /\ Load(r) \in Step
      /\ Simulate(l) \in Step /\ Simulate(r) \in Step /\ CreateDirectories \in Step
      /\ Write(Latest, "compare.txt", l) \in Step
  BY StepFacts, PathFacts, Zenon
<1>2. a \in Seq(Step)
  BY <1>1
<1>3. \A e \in Range(a) : \/ e = Flags(ok) \/ e = Load(l) \/ e = Load(r) \/ e = Simulate(l)
                          \/ e = Simulate(r) \/ e = CreateDirectories
  BY <1>1 DEF Range
<1>4. \A e \in Range(a) : e.op # "write"
  BY <1>3, StepFacts, Zenon
<1>5. z \in Seq(Step) /\ Range(z) = {Write(Latest, "compare.txt", l)}
  <2>1. z \in Seq(Step) /\ DOMAIN z = 1..1 /\ z[1] = Write(Latest, "compare.txt", l)
    BY <1>1
  <2> QED BY <2>1 DEF Range
<1>6. \A e \in Range(z) : e.op = "write" /\ ~Input(e) /\ \A d \in Dirs : Into(e, d) <=> d = Latest
  <2>1. \A e \in Range(z) : e = Write(Latest, "compare.txt", l)
    BY <1>5
  <2>2. /\ Write(Latest, "compare.txt", l).op = "write"
        /\ ~Input(Write(Latest, "compare.txt", l))
        /\ \A d : Into(Write(Latest, "compare.txt", l), d) <=> d = Latest
    BY WriteFacts
  <2> QED BY <2>1, <2>2, Zenon
<1>7. compare(l, r, ok) = (b \o c) \o z
  BY DEF compare
<1> HIDE DEF a
<1>8. WritesReport(b, Left, l)
  BY <1>2, <1>4, BeforeReport, DirFacts
<1>9. WritesReport(c, Right, r) /\ \A e \in Range(c) : ~Input(e)
  BY WriteReportShape, DirFacts
<1> HIDE DEF b, c, z
<1>10. /\ b \in Seq(Step) /\ Contiguous(b) /\ InputFirst(b)
       /\ c \in Seq(Step) /\ Contiguous(c) /\ InputFirst(c)
  BY <1>8, <1>9 DEF WritesReport
<1>11. \A e \in Range(b), d \in Dirs : Into(e, d) => d = Left
  <2> SUFFICES ASSUME NEW e \in Range(b), NEW d \in Dirs, Into(e, d)
               PROVE  d = Left
    BY Zenon
  <2>1. PICK f \in Files : e = Write(Left, f, l)
    BY <1>8 DEF WritesReport, Into
  <2> QED BY <2>1, WriteFacts
<1>12. \A e \in Range(c), d \in Dirs : Into(e, d) => d = Right
  <2> SUFFICES ASSUME NEW e \in Range(c), NEW d \in Dirs, Into(e, d)
               PROVE  d = Right
    BY Zenon
  <2>1. PICK f \in Files : e = Write(Right, f, r)
    BY <1>9 DEF WritesReport, Into
  <2> QED BY <2>1, WriteFacts
<1>13. b \o c \in Seq(Step) /\ Range(b \o c) = Range(b) \cup Range(c)
  BY <1>10, ConcatSteps
<1>14. InputFirst(b \o c)
  BY <1>9, <1>10, ConcatInput
<1>15. Contiguous(b \o c)
  <2>1. \A d \in Dirs : \A x \in Range(b), y \in Range(c) : ~(Into(x, d) /\ Into(y, d))
    BY <1>11, <1>12, DirFacts, Zenon
  <2> QED BY <1>10, <2>1, ConcatContiguous
<1> DEFINE bc == b \o c
<1> HIDE DEF bc
<1>16. bc \in Seq(Step) /\ InputFirst(bc) /\ Contiguous(bc) /\ Range(bc) = Range(b) \cup Range(c)
  BY <1>13, <1>14, <1>15 DEF bc
<1>17. InputFirst(z) /\ Contiguous(z)
  <2>1. \A k \in DOMAIN z : z[k].op = "write" /\ ~Input(z[k])
    BY <1>6 DEF Range
  <2> QED BY <2>1 DEF InputFirst, Contiguous
<1>18. bc \o z \in Seq(Step) /\ Range(bc \o z) = Range(bc) \cup Range(z)
  BY <1>5, <1>16, ConcatSteps
<1>19. InputFirst(bc \o z)
  BY <1>5, <1>6, <1>16, <1>17, ConcatInput
<1>20. Contiguous(bc \o z)
  <2>1. \A d \in Dirs : \A x \in Range(bc), y \in Range(z) : ~(Into(x, d) /\ Into(y, d))
    BY <1>6, <1>11, <1>12, <1>16, DirFacts, Zenon
  <2> QED BY <1>5, <1>16, <1>17, <2>1, ConcatContiguous
<1>21. compare(l, r, ok) = bc \o z
  BY <1>7 DEF bc
<1>22. \A e \in Range(bc \o z) : e.op = "write" =>
          \/ e = Write(Latest, "compare.txt", l)
          \/ \E f \in Files : e = Write(Left, f, l) \/ e = Write(Right, f, r)
  BY <1>5, <1>8, <1>9, <1>16, <1>18, Zenon DEF WritesReport
<1>23. \A f \in Files : /\ Write(Left, f, l) \in Range(bc \o z)
                        /\ Write(Right, f, r) \in Range(bc \o z)
  BY <1>8, <1>9, <1>16, <1>18, Zenon DEF WritesReport
<1> QED BY <1>18, <1>19, <1>20, <1>21, <1>22, <1>23, Zenon
-----------------------------------------------------------------------------
(* One step taken.                                                         *)

\* Nothing is lost but the step itself, and the shape stays good.
LEMMA TailShape ==
    ASSUME NEW s \in Seq(Step), s # <<>>
    PROVE  /\ Head(s) \in Step /\ Head(s) \in Range(s) /\ Head(s) = s[1]
           /\ Tail(s) \in Seq(Step) /\ Range(Tail(s)) \subseteq Range(s)
           /\ DOMAIN s = 1..Len(s) /\ Len(s) \in Nat /\ Len(s) > 0
           /\ DOMAIN Tail(s) = 1..(Len(s) - 1)
           /\ \A k \in 1..(Len(s) - 1) : Tail(s)[k] = s[k + 1] /\ k + 1 \in 1..Len(s)
           /\ \A e \in Range(s) : e = Head(s) \/ e \in Range(Tail(s))
           /\ InputFirst(s) => InputFirst(Tail(s))
           /\ InputFirst(s) /\ Head(s).op = "write" => \A e \in Range(Tail(s)) : ~Input(e)
           /\ Contiguous(s) => Contiguous(Tail(s))
<1> DEFINE t == Tail(s)
<1>1. /\ Head(s) \in Step /\ Head(s) \in Range(s)
      /\ t \in Seq(Step) /\ Range(t) \subseteq Range(s)
  BY PopFacts
<1>2. /\ Head(s) = s[1]
      /\ DOMAIN s = 1..Len(s) /\ Len(s) \in Nat /\ Len(s) > 0
      /\ DOMAIN t = 1..(Len(s) - 1)
      /\ \A k \in 1..(Len(s) - 1) : t[k] = s[k + 1] /\ k + 1 \in 1..Len(s)
  OBVIOUS
<1> HIDE DEF t
<1>3. \A e \in Range(s) : e = Head(s) \/ e \in Range(t)
  <2> SUFFICES ASSUME NEW k \in 1..Len(s), k # 1
               PROVE  s[k] \in Range(t)
    BY <1>2 DEF Range
  <2>1. k - 1 \in 1..(Len(s) - 1) /\ t[k - 1] = s[k]
    BY <1>2
  <2> QED BY <1>2, <2>1 DEF Range
<1>4. InputFirst(s) => InputFirst(t)
  <2> SUFFICES ASSUME InputFirst(s), NEW j \in 1..(Len(s) - 1), NEW k \in 1..(Len(s) - 1),
                      j < k, t[j].op = "write"
               PROVE  ~Input(t[k])
    BY <1>2 DEF InputFirst
  <2>1. j + 1 < k + 1 /\ t[j] = s[j + 1] /\ t[k] = s[k + 1]
    BY <1>2
  <2> QED BY <1>2, <2>1 DEF InputFirst
<1>5. InputFirst(s) /\ Head(s).op = "write" => \A e \in Range(t) : ~Input(e)
  <2> SUFFICES ASSUME InputFirst(s), s[1].op = "write", NEW k \in 1..(Len(s) - 1)
               PROVE  ~Input(t[k])
    BY <1>2 DEF Range
  <2>1. 1 < k + 1 /\ 1 \in 1..Len(s)
    BY <1>2
  <2> QED BY <1>2, <2>1 DEF InputFirst
<1>6. Contiguous(s) => Contiguous(t)
  <2> SUFFICES ASSUME Contiguous(s), NEW dir \in Dirs,
                      NEW j \in 1..(Len(s) - 1), NEW k \in 1..(Len(s) - 1),
                      NEW i \in 1..(Len(s) - 1),
                      j <= i, i <= k, Into(t[j], dir), Into(t[k], dir)
               PROVE  t[i].op = "write"
    BY <1>2 DEF Contiguous
  <2>1. j + 1 <= i + 1 /\ i + 1 <= k + 1
    OBVIOUS
  <2>2. t[j] = s[j + 1] /\ t[k] = s[k + 1] /\ t[i] = s[i + 1]
    BY <1>2
  <2>3. j + 1 \in DOMAIN s /\ k + 1 \in DOMAIN s /\ i + 1 \in DOMAIN s
    BY <1>2
  <2>4. Into(s[j + 1], dir) /\ Into(s[k + 1], dir)
    BY <2>2
  <2>5. s[i + 1].op = "write"
    BY <2>1, <2>3, <2>4 DEF Contiguous
  <2> QED BY <2>2, <2>5
<1> QED BY <1>1, <1>2, <1>3, <1>4, <1>5, <1>6 DEF t

\* The reports of an invocation have a directory each.
LEMMA ReportFacts ==
    ASSUME args \in Commands, missing \subseteq Names
    PROVE  /\ \A r \in Reports : r[1] \in Dirs /\ r[2] \in Names
           /\ \A r, q \in Reports : r[1] = q[1] => r[2] = q[2]
<1>1. args.command \in {"run", "compare", "benchmark", "report", "none"}
  BY DEF Commands
<1>2. CASE args.command = "run"
  <2>1. args.left \in Names
    BY <1>2 DEF Commands
  <2>2. Reports = {<<Latest, args.left>>}
    BY <1>2 DEF Reports
  <2> QED BY <2>1, <2>2, DirFacts
<1>3. CASE args.command = "compare"
  <2>1. args.left \in Names /\ args.right \in Names
    BY <1>3 DEF Commands
  <2>2. Reports = {<<Left, args.left>>, <<Right, args.right>>}
    BY <1>3 DEF Reports
  <2> QED BY <2>1, <2>2, DirFacts
<1>4. CASE args.command = "benchmark"
  <2>1. args.stamp \in Stamps
    BY <1>4 DEF Commands
  <2>2. Reports = {<<Benchmark(args.stamp, w), w>> : w \in Names \ missing}
    BY <1>4 DEF Reports
  <2>3. \A r \in Reports : r[2] \in Names /\ r[1] = Benchmark(args.stamp, r[2])
    BY <2>2
  <2>4. \A w, v : Benchmark(args.stamp, w) = Benchmark(args.stamp, v) => w = v
    BY DirFacts, Zenon
  <2>5. \A w \in Names : Benchmark(args.stamp, w) \in Dirs
    BY <2>1, DirFacts, Zenon
  <2>6. \A r \in Reports : r[1] \in Dirs /\ r[2] \in Names
    BY <2>3, <2>5, Zenon
  <2>7. ASSUME NEW r \in Reports, NEW q \in Reports, r[1] = q[1]
        PROVE  r[2] = q[2]
    BY <2>3, <2>4, <2>7
  <2> QED BY <2>6, <2>7
<1>5. CASE args.command \in {"report", "none"}
  BY <1>5 DEF Reports
<1> QED BY <1>1, <1>2, <1>3, <1>4, <1>5
-----------------------------------------------------------------------------
(* The steps of the specification.                                         *)

LEMMA CliInit == Init => CliInv
<1> SUFFICES ASSUME Init
             PROVE  CliInv
  OBVIOUS
<1>1. missing \subseteq Names
  BY CliConstants DEF Init
<1>2. \A p \in Paths : disk[p].by = 0
  BY DEF Init, Absent
<1>3. args = [command |-> "none"] /\ args \in Commands
  BY DEF Init, Commands
<1>4. /\ steps \in Seq(Step) /\ rest \in Seq(Names) /\ IsInjective(rest)
      /\ steps = <<>> /\ rest = <<>>
  BY DEF Init, IsInjective
<1>5. CliTypes
  BY <1>1, <1>2, <1>3, <1>4 DEF Init, CliTypes
<1> QED BY <1>5 DEF Init, CliInv, CleanBefore, BadInputWritesNothing, ReportInv, ReportsAreWhole

\* What a new invocation finds is not its own.
LEMMA NothingOwn ==
    ASSUME CliTypes, number' = number + 1, disk' = disk
    PROVE  /\ number' \in Nat /\ DOMAIN disk' = Paths
           /\ \A p \in Paths : disk'[p].by \in 0..number' /\ disk'[p].by # number'
           /\ \A dir \in Dirs : Mine(dir)' = {}
<1>1. /\ number' \in Nat /\ DOMAIN disk' = Paths
      /\ \A p \in Paths : disk'[p].by \in 0..number' /\ disk'[p].by # number'
  BY DEF CliTypes
<1>2. \A dir \in Dirs, f \in Files : <<dir, f>> \in Paths
  BY PathFacts
<1>3. ASSUME NEW dir \in Dirs
      PROVE  Mine(dir)' = {}
  BY <1>1, <1>2 DEF Mine
<1> QED BY <1>1, <1>3

LEMMA UnknownKeeps == CliInv /\ InvokeUnknown => CliInv'
<1> SUFFICES ASSUME CliInv, InvokeUnknown
             PROVE  CliInv'
  OBVIOUS
<1>1. CliTypes
  BY DEF CliInv
<1>2. /\ number' = number + 1 /\ disk' = disk /\ missing' = missing /\ clock' = clock
      /\ args' = [command |-> "none"] /\ steps' = <<>> /\ rest' = <<>>
      /\ status' = "exit1" /\ reason' = "usage"
  BY DEF InvokeUnknown
<1>3. /\ number' \in Nat /\ DOMAIN disk' = Paths
      /\ \A p \in Paths : disk'[p].by \in 0..number' /\ disk'[p].by # number'
      /\ \A dir \in Dirs : Mine(dir)' = {}
  BY <1>1, <1>2, NothingOwn
<1>4. args' \in Commands /\ steps' \in Seq(Step) /\ rest' \in Seq(Names) /\ IsInjective(rest')
  BY <1>2 DEF Commands, IsInjective
<1>5. CliTypes'
  BY <1>1, <1>2, <1>3, <1>4 DEF CliTypes
<1>6. Reports' = {}
  BY <1>2 DEF Reports
<1>7. ReportsAreWhole'
  BY <1>3, <1>6 DEF ReportsAreWhole, Mine, Files
<1>8. BadInputWritesNothing' /\ CleanBefore' /\ ReportInv'
  BY <1>2 DEF BadInputWritesNothing, CleanBefore, ReportInv
<1> QED BY <1>5, <1>7, <1>8 DEF CliInv

LEMMA TickKeeps == CliInv /\ Tick => CliInv'
<1> SUFFICES ASSUME CliInv, Tick
             PROVE  CliInv'
  OBVIOUS
<1>1. /\ clock' \in Stamps /\ status # "running"
      /\ UNCHANGED <<missing, disk, number, args, steps, rest, status, reason, failed>>
  BY DEF Tick
<1>2. CliTypes'
  BY <1>1 DEF CliInv, CliTypes
<1>3. Reports' = Reports
  BY <1>1 DEF Reports
<1>4. ReportsAreWhole'
  BY <1>1, <1>3 DEF CliInv, ReportsAreWhole
<1>5. BadInputWritesNothing' /\ CleanBefore' /\ ReportInv'
  BY <1>1 DEF CliInv, BadInputWritesNothing, CleanBefore, ReportInv
<1> QED BY <1>2, <1>4, <1>5 DEF CliInv

LEMMA StutterKeeps == CliInv /\ UNCHANGED vars => CliInv'
<1> SUFFICES ASSUME CliInv, UNCHANGED vars
             PROVE  CliInv'
  OBVIOUS
<1> USE DEF vars
<1>1. CliTypes'
  BY DEF CliInv, CliTypes
<1>2. Reports' = Reports
  BY DEF Reports
<1>3. \A dir : Mine(dir)' = Mine(dir)
  BY DEF Mine
<1>4. ReportsAreWhole'
  BY <1>2 DEF CliInv, ReportsAreWhole
<1>5. BadInputWritesNothing' /\ CleanBefore'
  BY DEF CliInv, BadInputWritesNothing, CleanBefore
<1>6. ReportInv'
  BY <1>2, <1>3 DEF CliInv, ReportInv, Unbroken, Accounted, Untouched, OwnFiles, Written,
                    Later, Foreseen
<1> QED BY <1>1, <1>4, <1>5, <1>6 DEF CliInv

\* A file written, or cut off, is the invocation's own.
LEMMA FileWritten ==
    ASSUME CliTypes, number' = number, NEW p \in Paths, NEW w,
           disk' = [disk EXCEPT ![p] = [by |-> number, workload |-> w]]
    PROVE  /\ DOMAIN disk' = Paths
           /\ disk'[p] = [by |-> number, workload |-> w]
           /\ disk'[p].by = number /\ disk'[p].workload = w
           /\ \A q \in Paths : q # p => disk'[q] = disk[q]
           /\ \A q \in Paths : disk'[q].by \in 0..number'
<1>1. DOMAIN disk = Paths /\ number \in Nat /\ \A q \in Paths : disk[q].by \in 0..number
  BY DEF CliTypes
<1>2. /\ DOMAIN disk' = Paths
      /\ disk'[p] = [by |-> number, workload |-> w]
      /\ \A q \in Paths : q # p => disk'[q] = disk[q]
  BY <1>1
<1>3. disk'[p].by = number /\ disk'[p].workload = w
  BY <1>2
<1>4. \A q \in Paths : disk'[q].by \in 0..number'
  BY <1>1, <1>2, <1>3
<1> QED BY <1>2, <1>3, <1>4

LEMMA KillKeeps == CliInv /\ Kill => CliInv'
<1> SUFFICES ASSUME CliInv, Kill
             PROVE  CliInv'
  OBVIOUS
<1>1. /\ status' = "killed" /\ steps' = <<>> /\ rest' = <<>>
      /\ UNCHANGED <<missing, clock, number, args, reason, failed>>
  BY DEF Kill
<1>2. CliTypes
  BY DEF CliInv
<1>3. DOMAIN disk' = Paths /\ \A q \in Paths : disk'[q].by \in 0..number'
  <2>1. CASE UNCHANGED disk
    BY <1>1, <1>2, <2>1 DEF CliTypes
  <2>2. CASE /\ Current("write")
             /\ disk' = [disk EXCEPT ![Head(steps).path] = [by |-> number, workload |-> "cut"]]
    <3>1. Head(steps) \in Step /\ Head(steps).op = "write"
      BY <1>2, <2>2, TailShape DEF Current, CliTypes
    <3>2. Head(steps).path \in Paths
      BY <3>1 DEF Step
    <3> QED BY <1>1, <1>2, <2>2, <3>2, FileWritten
  <2> QED BY <2>1, <2>2 DEF Kill
<1>4. CliTypes'
  BY <1>1, <1>2, <1>3 DEF CliTypes, IsInjective
<1> QED BY <1>1, <1>4 DEF CliInv, BadInputWritesNothing, CleanBefore, ReportInv, ReportsAreWhole

LEMMA ReturnKeeps == CliInv /\ Return => CliInv'
<1> SUFFICES ASSUME CliInv, Return
             PROVE  CliInv'
  OBVIOUS
<1>1. /\ status = "running" /\ steps = <<>> /\ rest = <<>> /\ status' = "exit0"
      /\ UNCHANGED <<missing, disk, clock, number, args, steps, rest, reason, failed>>
  BY DEF Return
<1>2. CliTypes'
  BY <1>1 DEF CliInv, CliTypes
<1>3. Reports' = Reports
  BY <1>1 DEF Reports
<1>4. Accounted /\ OwnFiles
  BY <1>1 DEF CliInv, ReportInv
<1>5. \A r \in Reports, f \in Files : Written(r, f)
  BY <1>1, <1>4 DEF Accounted, Later, Range
<1>6. \A dir \in Dirs, f \in Files : disk[<<dir, f>>].by = number => \E r \in Reports : r[1] = dir
  BY <1>4 DEF OwnFiles
<1>7. ReportsAreWhole'
  BY <1>1, <1>3, <1>5, <1>6 DEF ReportsAreWhole, Written, Files
<1>8. BadInputWritesNothing' /\ CleanBefore' /\ ReportInv'
  BY <1>1 DEF BadInputWritesNothing, CleanBefore, ReportInv
<1> QED BY <1>2, <1>7, <1>8 DEF CliInv

LEMMA ThrowKeeps == CliInv /\ Throw => CliInv'
<1> SUFFICES ASSUME CliInv, Throw
             PROVE  CliInv'
  OBVIOUS
<1>1. /\ status = "running" /\ steps # <<>> /\ Head(steps).op # "write"
      /\ Head(steps).op \in {"flags", "load", "create_directories", "read"}
      /\ status' = "exit1" /\ steps' = <<>> /\ rest' = <<>> /\ reason' = Head(steps).op
      /\ UNCHANGED <<missing, disk, clock, number, args, failed>>
  BY DEF Throw, Current
<1>2. CliTypes /\ CleanBefore /\ Unbroken /\ Accounted /\ Untouched /\ OwnFiles
  BY <1>1 DEF CliInv, ReportInv
<1>3. CliTypes'
  BY <1>1, <1>2 DEF CliTypes, IsInjective
<1>4. /\ Head(steps) \in Range(steps) /\ Head(steps) = steps[1]
      /\ DOMAIN steps = 1..Len(steps) /\ Len(steps) \in Nat /\ Len(steps) > 0
  BY <1>1, <1>2, TailShape DEF CliTypes
<1>5. BadInputWritesNothing'
  BY <1>1, <1>2, <1>4 DEF BadInputWritesNothing, CleanBefore, Input
<1>6. Reports' = Reports
  BY <1>1 DEF Reports
<1>7. \A r \in Reports : r[1] \in Dirs
  BY <1>2, ReportFacts DEF CliTypes
<1>8. ASSUME NEW r \in Reports, NEW f \in Files, Mine(r[1]) # {}
      PROVE  Written(r, f)
  <2>1. ~Later(r)
    BY <1>2, <1>8 DEF Untouched
  <2>2. Write(r[1], f, r[2]) \notin Range(steps)
    <3> SUFFICES ASSUME NEW k \in 1..Len(steps), steps[k] = Write(r[1], f, r[2])
                 PROVE  FALSE
      BY <1>4 DEF Range
    <3>1. Into(steps[k], r[1])
      BY WriteFacts
    <3>2. 1 \in 1..k
      OBVIOUS
    <3> QED BY <1>1, <1>2, <1>4, <1>7, <1>8, <3>1, <3>2 DEF Unbroken
  <2> QED BY <1>2, <2>1, <2>2 DEF Accounted
<1>9. \A dir \in Dirs, f \in Files : disk[<<dir, f>>].by = number => \E r \in Reports : r[1] = dir
  BY <1>2 DEF OwnFiles
<1>10. ReportsAreWhole'
  BY <1>1, <1>6, <1>8, <1>9 DEF ReportsAreWhole, Written, Files, Mine
<1>11. CleanBefore' /\ ReportInv'
  BY <1>1 DEF CleanBefore, ReportInv
<1> QED BY <1>3, <1>5, <1>10, <1>11 DEF CliInv
-----------------------------------------------------------------------------
(* The steps of a running invocation that go on to the next step.          *)

LEMMA DoneFacts ==
    ASSUME CliInv, status = "running", steps # <<>>, Done
    PROVE  /\ steps' = Tail(steps) /\ number' = number /\ missing' = missing
           /\ status' = status /\ rest' = rest /\ args' = args
           /\ steps \in Seq(Step) /\ steps' \in Seq(Step)
           /\ Reports' = Reports
           /\ \A r : Later(r)' <=> Later(r)
           /\ DOMAIN disk' = Paths /\ (\A p \in Paths : disk'[p].by \in 0..number')
                 => CliTypes'
           /\ BadInputWritesNothing' /\ ReportsAreWhole'
<1>1. /\ steps' = Tail(steps)
      /\ UNCHANGED <<missing, clock, number, args, rest, status, reason>>
  BY DEF Done
<1>2. CliTypes
  BY DEF CliInv
<1>3. steps \in Seq(Step) /\ steps' \in Seq(Step)
  BY <1>1, <1>2, TailShape DEF CliTypes
<1>4. Reports' = Reports
  BY <1>1 DEF Reports
<1>5. \A r : Later(r)' <=> Later(r)
  BY <1>1 DEF Later
<1>6. DOMAIN disk' = Paths /\ (\A p \in Paths : disk'[p].by \in 0..number') => CliTypes'
  BY <1>1, <1>2, <1>3 DEF CliTypes
<1>7. BadInputWritesNothing' /\ ReportsAreWhole'
  BY <1>1 DEF BadInputWritesNothing, ReportsAreWhole
<1> QED BY <1>1, <1>3, <1>4, <1>5, <1>6, <1>7

\* What the remaining steps are like does not change with one of them done.
LEMMA StepsKeepShape ==
    ASSUME CliInv, status = "running", steps # <<>>, Done
    PROVE  /\ Contiguous(steps)' /\ Foreseen(steps)'
           /\ args.command \in {"run", "compare"} => InputFirst(steps)'
           /\ \A r \in Reports : Later(r) => \A e \in Range(steps') : ~Into(e, r[1])
           /\ \A e \in Range(steps) : e = Head(steps) \/ e \in Range(steps')
<1>1. /\ steps' = Tail(steps) /\ steps \in Seq(Step) /\ Reports' = Reports
  BY DoneFacts
<1>2. CleanBefore /\ Unbroken /\ Untouched /\ OwnFiles
  BY DEF CliInv, ReportInv
<1> DEFINE t == Tail(steps)
<1>3. /\ Range(t) \subseteq Range(steps)
      /\ \A e \in Range(steps) : e = Head(steps) \/ e \in Range(t)
      /\ InputFirst(steps) => InputFirst(t)
      /\ Contiguous(steps) => Contiguous(t)
  BY <1>1, TailShape
<1> HIDE DEF t
<1>4. Contiguous(t) /\ (args.command \in {"run", "compare"} => InputFirst(t))
  BY <1>2, <1>3 DEF Unbroken, CleanBefore
<1>5. Foreseen(steps)'
  BY <1>1, <1>2, <1>3 DEF OwnFiles, Foreseen, t
<1>6. \A r \in Reports : Later(r) => \A e \in Range(t) : ~Into(e, r[1])
  BY <1>2, <1>3 DEF Untouched
<1>7. steps' = t
  BY <1>1 DEF t
<1>8. Contiguous(steps)' /\ (args.command \in {"run", "compare"} => InputFirst(steps)')
  BY <1>4, <1>7 DEF Contiguous, InputFirst
<1> QED BY <1>3, <1>5, <1>6, <1>7, <1>8

\* A started directory is still unbroken, whatever step was done.
LEMMA StillUnbroken ==
    ASSUME CliInv, status = "running", steps # <<>>, Done,
           NEW dir \in Dirs, Mine(dir) # {} \/ Into(Head(steps), dir),
           NEW k \in DOMAIN steps', Into(steps'[k], dir), NEW j \in 1..k
    PROVE  steps'[j].op = "write"
<1>1. steps' = Tail(steps) /\ steps \in Seq(Step)
  BY DoneFacts
<1>2. /\ Head(steps) = steps[1]
      /\ DOMAIN steps = 1..Len(steps) /\ Len(steps) \in Nat /\ Len(steps) > 0
      /\ DOMAIN steps' = 1..(Len(steps) - 1)
      /\ \A i \in 1..(Len(steps) - 1) : steps'[i] = steps[i + 1] /\ i + 1 \in 1..Len(steps)
  BY <1>1, TailShape
<1>3. Unbroken
  BY DEF CliInv, ReportInv
<1>4. /\ k + 1 \in DOMAIN steps /\ Into(steps[k + 1], dir)
      /\ j + 1 \in DOMAIN steps /\ j + 1 \in 1..(k + 1) /\ steps'[j] = steps[j + 1]
      /\ 1 \in DOMAIN steps /\ 1 <= j + 1 /\ j + 1 <= k + 1
  BY <1>2
<1>5. CASE Mine(dir) # {}
  BY <1>3, <1>4, <1>5 DEF Unbroken
<1>6. CASE Into(Head(steps), dir)
  <2>1. Into(steps[1], dir)
    BY <1>2, <1>6
  <2> QED BY <1>3, <1>4, <2>1 DEF Unbroken, Contiguous
<1> QED BY <1>5, <1>6

LEMMA PassKeeps == CliInv /\ PassStep => CliInv'
<1> SUFFICES ASSUME CliInv, PassStep
             PROVE  CliInv'
  OBVIOUS
<1>1. /\ status = "running" /\ steps # <<>> /\ Head(steps).op # "write"
      /\ Done /\ disk' = disk /\ failed' = failed
  BY DEF PassStep, Current
<1>2. CliTypes /\ CleanBefore /\ Unbroken /\ Accounted /\ Untouched /\ OwnFiles
  BY <1>1 DEF CliInv, ReportInv
<1>3. /\ steps' = Tail(steps) /\ number' = number /\ missing' = missing
      /\ status' = status /\ rest' = rest /\ args' = args
      /\ steps \in Seq(Step) /\ steps' \in Seq(Step)
      /\ Reports' = Reports
      /\ \A r : Later(r)' <=> Later(r)
      /\ DOMAIN disk' = Paths /\ (\A p \in Paths : disk'[p].by \in 0..number')
            => CliTypes'
      /\ BadInputWritesNothing' /\ ReportsAreWhole'
  BY <1>1, DoneFacts
<1>4. CliTypes'
  BY <1>1, <1>2, <1>3 DEF CliTypes
<1>5. /\ Contiguous(steps)' /\ Foreseen(steps)'
      /\ args.command \in {"run", "compare"} => InputFirst(steps)'
      /\ \A r \in Reports : Later(r) => \A e \in Range(steps') : ~Into(e, r[1])
      /\ \A e \in Range(steps) : e = Head(steps) \/ e \in Range(steps')
  BY <1>1, StepsKeepShape
<1>6. Range(steps') \subseteq Range(steps)
  BY <1>1, <1>3, TailShape
<1>7. CleanBefore'
  BY <1>1, <1>2, <1>3, <1>5, <1>6 DEF CleanBefore
<1>8. \A dir : Mine(dir)' = Mine(dir)
  BY <1>1, <1>3 DEF Mine
<1>9. Unbroken'
  BY <1>1, <1>5, <1>8, StillUnbroken DEF Unbroken
<1>10. Accounted'
  <2> SUFFICES ASSUME NEW r \in Reports, NEW f \in Files
               PROVE  Written(r, f)' \/ Write(r[1], f, r[2]) \in Range(steps') \/ Later(r)'
    BY <1>3 DEF Accounted
  <2>1. Written(r, f) => Written(r, f)'
    BY <1>1, <1>3 DEF Written
  <2>2. Write(r[1], f, r[2]).op = "write"
    BY WriteFacts
  <2> QED BY <1>1, <1>2, <1>3, <1>5, <2>1, <2>2 DEF Accounted
<1>11. Untouched'
  BY <1>2, <1>3, <1>5, <1>8 DEF Untouched
<1>12. OwnFiles'
  BY <1>1, <1>2, <1>3, <1>5 DEF OwnFiles
<1> QED BY <1>3, <1>4, <1>7, <1>9, <1>10, <1>11, <1>12 DEF CliInv, ReportInv

LEMMA OpenFailsKeeps == CliInv /\ OpenFails => CliInv'
<1> SUFFICES ASSUME CliInv, OpenFails
             PROVE  CliInv'
  OBVIOUS
<1>1. /\ status = "running" /\ steps # <<>> /\ Head(steps).op = "write"
      /\ Done /\ disk' = disk /\ failed' = failed \cup {Head(steps).path}
  BY DEF OpenFails, Current
<1>2. CliTypes /\ CleanBefore /\ Unbroken /\ Accounted /\ Untouched /\ OwnFiles
  BY <1>1 DEF CliInv, ReportInv
<1>3. /\ steps' = Tail(steps) /\ number' = number /\ missing' = missing
      /\ status' = status /\ rest' = rest /\ args' = args
      /\ steps \in Seq(Step) /\ steps' \in Seq(Step)
      /\ Reports' = Reports
      /\ \A r : Later(r)' <=> Later(r)
      /\ DOMAIN disk' = Paths /\ (\A p \in Paths : disk'[p].by \in 0..number')
            => CliTypes'
      /\ BadInputWritesNothing' /\ ReportsAreWhole'
  BY <1>1, DoneFacts
<1>4. CliTypes'
  BY <1>1, <1>2, <1>3 DEF CliTypes
<1>5. /\ Contiguous(steps)' /\ Foreseen(steps)'
      /\ args.command \in {"run", "compare"} => InputFirst(steps)'
      /\ \A r \in Reports : Later(r) => \A e \in Range(steps') : ~Into(e, r[1])
      /\ \A e \in Range(steps) : e = Head(steps) \/ e \in Range(steps')
  BY <1>1, StepsKeepShape
<1>6. Range(steps') \subseteq Range(steps)
  BY <1>1, <1>3, TailShape
<1>7. CleanBefore'
  BY <1>1, <1>2, <1>3, <1>5, <1>6 DEF CleanBefore
<1>8. \A dir : Mine(dir)' = Mine(dir)
  BY <1>1, <1>3 DEF Mine
<1>9. Unbroken'
  BY <1>1, <1>5, <1>8, StillUnbroken DEF Unbroken
<1>10. Accounted'
  <2> SUFFICES ASSUME NEW r \in Reports, NEW f \in Files
               PROVE  Written(r, f)' \/ Write(r[1], f, r[2]) \in Range(steps') \/ Later(r)'
    BY <1>3 DEF Accounted
  <2>1. Written(r, f) => Written(r, f)'
    BY <1>1, <1>3 DEF Written
  <2>2. Write(r[1], f, r[2]).path = <<r[1], f>>
    BY WriteFacts
  <2>3. Write(r[1], f, r[2]) = Head(steps) => Written(r, f)'
    BY <1>1, <2>2 DEF Written
  <2> QED BY <1>2, <1>3, <1>5, <2>1, <2>3 DEF Accounted
<1>11. Untouched'
  BY <1>2, <1>3, <1>5, <1>8 DEF Untouched
<1>12. OwnFiles'
  BY <1>1, <1>2, <1>3, <1>5 DEF OwnFiles
<1> QED BY <1>3, <1>4, <1>7, <1>9, <1>10, <1>11, <1>12 DEF CliInv, ReportInv

\* A file is written, with what it should hold or with something else that is
\* remembered as a failure.
LEMMA FileKeeps ==
    ASSUME CliInv, Current("write"), Done, NEW text,
           disk' = [disk EXCEPT ![Head(steps).path] = [by |-> number, workload |-> text]],
           \/ text = Head(steps).workload /\ failed' = failed
           \/ failed' = failed \cup {Head(steps).path}
    PROVE  CliInv'
<1> DEFINE h == Head(steps)
<1>1. /\ status = "running" /\ steps # <<>> /\ h.op = "write"
      /\ Done /\ (text = h.workload \/ h.path \in failed') /\ failed \subseteq failed'
      /\ disk' = [disk EXCEPT ![h.path] = [by |-> number, workload |-> text]]
  BY DEF Current
<1>2. CliTypes /\ CleanBefore /\ Unbroken /\ Accounted /\ Untouched /\ OwnFiles
  BY <1>1 DEF CliInv, ReportInv
<1>3. /\ steps' = Tail(steps) /\ number' = number /\ missing' = missing
      /\ status' = status /\ rest' = rest /\ args' = args
      /\ steps \in Seq(Step) /\ steps' \in Seq(Step)
      /\ Reports' = Reports
      /\ \A r : Later(r)' <=> Later(r)
      /\ DOMAIN disk' = Paths /\ (\A p \in Paths : disk'[p].by \in 0..number')
            => CliTypes'
      /\ BadInputWritesNothing' /\ ReportsAreWhole'
  BY <1>1, DoneFacts
<1>4. h \in Step /\ h \in Range(steps) /\ h.path \in Paths
  <2>1. h \in Step /\ h \in Range(steps)
    BY <1>1, <1>3, TailShape
  <2> QED BY <1>1, <2>1 DEF Step
<1>5. /\ Contiguous(steps)' /\ Foreseen(steps)'
      /\ args.command \in {"run", "compare"} => InputFirst(steps)'
      /\ \A r \in Reports : Later(r) => \A e \in Range(steps') : ~Into(e, r[1])
      /\ \A e \in Range(steps) : e = h \/ e \in Range(steps')
  BY <1>1, StepsKeepShape
<1> HIDE DEF h
<1>6. /\ DOMAIN disk' = Paths
      /\ disk'[h.path] = [by |-> number, workload |-> text]
      /\ \A q \in Paths : q # h.path => disk'[q] = disk[q]
      /\ \A q \in Paths : disk'[q].by \in 0..number'
  <2>1. /\ CliTypes /\ number' = number /\ h.path \in Paths
        /\ disk' = [disk EXCEPT ![h.path] = [by |-> number, workload |-> text]]
    BY <1>1, <1>2, <1>3, <1>4
  <2> QED BY <2>1, FileWritten
<1>7. CliTypes'
  BY <1>3, <1>6
\* No input is left to be read.
<1>8. CleanBefore'
  <2>1. InputFirst(steps) => \A e \in Range(Tail(steps)) : ~Input(e)
    BY <1>1, <1>3, TailShape DEF h
  <2> QED BY <1>1, <1>2, <1>3, <1>5, <2>1 DEF CleanBefore
\* The file is compare.txt or one of a report of this invocation.
<1>9. \/ h.path = <<Latest, "compare.txt">>
      \/ \E r \in Reports, f \in Files : h = Write(r[1], f, r[2])
  BY <1>1, <1>2, <1>4 DEF OwnFiles, Foreseen
<1>10. ASSUME NEW dir \in Dirs, NEW f \in Files, h.path = <<dir, f>>
       PROVE  Into(h, dir) /\ \E r \in Reports : r[1] = dir /\ h.workload = r[2]
  <2>1. Into(h, dir)
    BY <1>1, <1>10 DEF Into
  <2>2. h.path # <<Latest, "compare.txt">>
    BY <1>10, FileFacts
  <2>3. PICK r \in Reports, g \in Files : h = Write(r[1], g, r[2])
    BY <1>9, <2>2
  <2>4. h.path = <<r[1], g>> /\ h.workload = r[2]
    BY <2>3, WriteFacts
  <2>5. r[1] = dir
    BY <1>10, <2>4
  <2> QED BY <2>1, <2>4, <2>5
<1>11. \A dir \in Dirs, f \in Files : <<dir, f>> \in Paths
  BY PathFacts
<1>12. ASSUME NEW dir \in Dirs, NEW f \in Files
       PROVE  \/ h.path = <<dir, f>>
              \/ h.path # <<dir, f>> /\ disk'[<<dir, f>>] = disk[<<dir, f>>]
  BY <1>6, <1>11
<1>13. ASSUME NEW dir \in Dirs, ~Into(h, dir)
       PROVE  Mine(dir)' = Mine(dir)
  <2>1. \A f \in Files : disk'[<<dir, f>>] = disk[<<dir, f>>]
    BY <1>10, <1>12, <1>13
  <2> QED BY <1>3, <2>1 DEF Mine
<1>14. Unbroken'
  <2> SUFFICES ASSUME NEW dir \in Dirs, Mine(dir)' # {},
                      NEW k \in DOMAIN steps', Into(steps'[k], dir), NEW j \in 1..k
               PROVE  steps'[j].op = "write"
    BY <1>5 DEF Unbroken
  <2>1. Mine(dir) # {} \/ Into(h, dir)
    BY <1>13
  <2> QED BY <1>1, <2>1, StillUnbroken DEF h
<1>15. \A r \in Reports : r[1] \in Dirs
  BY <1>2, ReportFacts DEF CliTypes
<1>16. Accounted'
  <2> SUFFICES ASSUME NEW r \in Reports, NEW f \in Files
               PROVE  Written(r, f)' \/ Write(r[1], f, r[2]) \in Range(steps') \/ Later(r)'
    BY <1>3 DEF Accounted
  <2>1. CASE h.path = <<r[1], f>>
    <3>1. PICK q \in Reports : q[1] = r[1] /\ h.workload = q[2]
      BY <1>10, <1>15, <2>1
    <3>2. q[2] = r[2]
      BY <1>2, <3>1, ReportFacts DEF CliTypes
    <3>3. CASE h.path \in failed'
      BY <2>1, <3>3 DEF Written
    <3>4. CASE text = h.workload
      <4>1. disk'[<<r[1], f>>] = [by |-> number', workload |-> r[2]]
        BY <1>3, <1>6, <2>1, <3>1, <3>2, <3>4
      <4> QED BY <4>1 DEF Written
    <3> QED BY <1>1, <3>3, <3>4
  <2>2. CASE h.path # <<r[1], f>>
    <3>1. disk'[<<r[1], f>>] = disk[<<r[1], f>>]
      BY <1>12, <1>15, <2>2
    <3>2. Written(r, f) => Written(r, f)'
      BY <1>1, <1>3, <3>1 DEF Written
    <3>3. Write(r[1], f, r[2]).path = <<r[1], f>>
      BY WriteFacts
    <3>4. Write(r[1], f, r[2]) # h
      BY <2>2, <3>3
    <3> QED BY <1>2, <1>3, <1>5, <3>2, <3>4 DEF Accounted
  <2> QED BY <2>1, <2>2
<1>17. Untouched'
  <2>1. ASSUME NEW r \in Reports, Later(r)
        PROVE  Mine(r[1])' = {}
    <3>1. Mine(r[1]) = {} /\ ~Into(h, r[1])
      BY <1>2, <1>4, <2>1 DEF Untouched
    <3> QED BY <1>13, <1>15, <3>1
  <2> QED BY <1>3, <1>5, <2>1 DEF Untouched
<1>18. OwnFiles'
  <2>1. ASSUME NEW dir \in Dirs, NEW f \in Files, disk'[<<dir, f>>].by = number
        PROVE  \E r \in Reports : r[1] = dir
    <3>1. CASE h.path = <<dir, f>>
      BY <1>10, <3>1
    <3>2. CASE disk'[<<dir, f>>] = disk[<<dir, f>>]
      BY <1>2, <2>1, <3>2 DEF OwnFiles
    <3> QED BY <1>12, <3>1, <3>2
  <2> QED BY <1>3, <1>5, <2>1 DEF OwnFiles
<1> QED BY <1>3, <1>7, <1>8, <1>14, <1>16, <1>17, <1>18 DEF CliInv, ReportInv

LEMMA WriteKeeps == CliInv /\ WriteFile => CliInv'
BY FileKeeps DEF WriteFile

LEMMA WriteFailsKeeps == CliInv /\ WriteFails => CliInv'
BY FileKeeps DEF WriteFails

\* The next workload of a benchmark: its report is not begun yet, for no
\* workload comes twice.
LEMMA NextWorkloadKeeps == CliInv /\ NextWorkload => CliInv'
<1> SUFFICES ASSUME CliInv, NextWorkload
             PROVE  CliInv'
  OBVIOUS
<1> DEFINE w == Head(rest)
           dir0 == Benchmark(args.stamp, w)
<1>1. /\ status = "running" /\ steps = <<>> /\ rest # <<>> /\ rest' = Tail(rest)
      /\ steps' = IF w \in missing THEN <<>> ELSE benchmark_one(w, args.stamp)
      /\ UNCHANGED <<missing, disk, clock, number, args, status, reason, failed>>
  BY DEF NextWorkload
<1>2. CliTypes /\ Unbroken /\ Accounted /\ Untouched /\ OwnFiles
  BY <1>1 DEF CliInv, ReportInv
<1>3. args.command = "benchmark" /\ args.stamp \in Stamps
  BY <1>1, <1>2 DEF CliTypes, Commands
<1>4. /\ w \in Names /\ rest' \in Seq(Names) /\ IsInjective(rest')
      /\ Range(rest') = Range(rest) \ {w} /\ w \in Range(rest)
  BY <1>1, <1>2, PopFacts DEF CliTypes
<1> HIDE DEF w
<1>5. Reports = {<<Benchmark(args.stamp, v), v>> : v \in Names \ missing} /\ Reports' = Reports
  BY <1>1, <1>3 DEF Reports
<1>6. \A r : Later(r) <=> Later(r)' \/ r[2] = w
  BY <1>1, <1>3, <1>4 DEF Later
<1>7. \A r : Later(r)' => r[2] # w
  BY <1>1, <1>4 DEF Later
<1>8. \A dir : Mine(dir)' = Mine(dir)
  BY <1>1 DEF Mine
<1>9. \A r \in Reports, f \in Files : Written(r, f)' <=> Written(r, f)
  BY <1>1 DEF Written
<1>10. /\ \A v, u : Benchmark(args.stamp, v) = Benchmark(args.stamp, u) => v = u
       /\ dir0 \in Dirs
  BY <1>3, <1>4, DirFacts, Zenon
<1>11. \A r \in Reports : r[1] = Benchmark(args.stamp, r[2]) /\ r[2] \notin missing
  BY <1>5
<1> HIDE DEF dir0
<1>12. /\ steps' \in Seq(Step) /\ Contiguous(steps)'
       /\ \A e \in Range(steps') : e.op = "write" =>
             w \notin missing /\ \E f \in Files : e = Write(dir0, f, w)
       /\ w \notin missing => \A f \in Files : Write(dir0, f, w) \in Range(steps')
  <2>1. CASE w \in missing
    <3>1. steps' = <<>> /\ Range(steps') = {}
      BY <1>1, <2>1 DEF Range
    <3>2. Contiguous(steps)'
      BY <3>1 DEF Contiguous
    <3> QED BY <2>1, <3>1, <3>2
  <2>2. CASE w \notin missing
    <3>1. steps' = benchmark_one(w, args.stamp)
      BY <1>1, <2>2
    <3>2. WritesReport(benchmark_one(w, args.stamp), dir0, w)
      BY <1>3, <1>4, BenchmarkShape DEF dir0
    <3>3. WritesReport(steps', dir0, w)
      BY <3>1, <3>2
    <3> QED BY <2>2, <3>3 DEF WritesReport, Contiguous
  <2> QED BY <2>1, <2>2
<1>13. \A e \in Range(steps') : \A dir : Into(e, dir) => dir = dir0 /\ w \notin missing
  <2> SUFFICES ASSUME NEW e \in Range(steps'), NEW dir, Into(e, dir)
               PROVE  dir = dir0 /\ w \notin missing
    BY Zenon
  <2>1. w \notin missing /\ \E f \in Files : e = Write(dir0, f, w)
    BY <1>12 DEF Into
  <2>2. PICK f \in Files : e = Write(dir0, f, w)
    BY <2>1
  <2> QED BY <2>1, <2>2, WriteFacts
<1>14. w \notin missing => <<dir0, w>> \in Reports
  BY <1>4, <1>5 DEF dir0
<1>15. w \notin missing => Mine(dir0) = {}
  <2> SUFFICES ASSUME w \notin missing
               PROVE  Mine(dir0) = {}
    OBVIOUS
  <2>1. Later(<<dir0, w>>)
    BY <1>6
  <2> QED BY <1>2, <1>14, <2>1 DEF Untouched
<1>16. CliTypes'
  BY <1>1, <1>2, <1>3, <1>4, <1>12 DEF CliTypes
<1>17. Unbroken'
  <2>1. ASSUME NEW dir \in Dirs, Mine(dir) # {}, NEW k \in DOMAIN steps', Into(steps'[k], dir)
        PROVE  FALSE
    <3>1. steps'[k] \in Range(steps')
      BY DEF Range
    <3> QED BY <1>13, <1>15, <2>1, <3>1
  <2> QED BY <1>8, <1>12, <2>1 DEF Unbroken
<1>18. Accounted'
  <2> SUFFICES ASSUME NEW r \in Reports, NEW f \in Files
               PROVE  Written(r, f)' \/ Write(r[1], f, r[2]) \in Range(steps') \/ Later(r)'
    BY <1>5 DEF Accounted
  <2>1. Written(r, f) \/ Later(r)
    BY <1>1, <1>2 DEF Accounted, Range
  <2>2. CASE r[2] = w
    <3>1. r[1] = dir0 /\ w \notin missing
      BY <1>11, <2>2 DEF dir0
    <3> QED BY <1>12, <2>2, <3>1
  <2>3. CASE r[2] # w
    BY <1>6, <1>9, <2>1, <2>3
  <2> QED BY <2>2, <2>3
<1>19. Untouched'
  <2>1. ASSUME NEW r \in Reports, Later(r)'
        PROVE  Mine(r[1]) = {} /\ \A e \in Range(steps') : ~Into(e, r[1])
    <3>1. Later(r) /\ r[2] # w
      BY <1>6, <1>7, <2>1
    <3>2. r[1] # dir0
      BY <1>10, <1>11, <3>1 DEF dir0
    <3> QED BY <1>2, <1>13, <3>1, <3>2 DEF Untouched
  <2> QED BY <1>5, <1>8, <2>1 DEF Untouched
<1>20. Foreseen(steps)'
  <2>1. ASSUME NEW e \in Range(steps'), e.op = "write"
        PROVE  \E r \in Reports, f \in Files : e = Write(r[1], f, r[2])
    <3>1. PICK f \in Files : w \notin missing /\ e = Write(dir0, f, w)
      BY <1>12, <2>1
    <3> DEFINE r == <<dir0, w>>
    <3>2. r[1] = dir0 /\ r[2] = w
      OBVIOUS
    <3>3. r \in Reports
      BY <1>14, <3>1
    <3> QED BY <3>1, <3>2, <3>3
  <2> QED BY <1>5, <2>1 DEF Foreseen
<1>21. OwnFiles'
  BY <1>1, <1>2, <1>5, <1>20 DEF OwnFiles
<1>22. CleanBefore' /\ BadInputWritesNothing' /\ ReportsAreWhole'
  BY <1>1, <1>3 DEF CleanBefore, BadInputWritesNothing, ReportsAreWhole
<1> QED BY <1>16, <1>17, <1>18, <1>19, <1>21, <1>22 DEF CliInv, ReportInv
\* The first steps of an invocation.
LEMMA ScriptShape ==
    ASSUME CliTypes, NEW a \in Invocations, Invoke(a)
    PROVE  /\ args' \in Commands /\ steps' \in Seq(Step) /\ Contiguous(steps)'
           /\ args'.command \in {"run", "compare"} => InputFirst(steps)'
           /\ Foreseen(steps)'
           /\ args'.command # "benchmark" =>
                 \A r \in Reports', f \in Files : Write(r[1], f, r[2]) \in Range(steps')
           /\ args'.command = "benchmark" => \A e \in Range(steps') : e.op # "write"
<1>1. args' = a /\ steps' = Script(a) /\ missing' = missing /\ clock \in Stamps
  BY DEF Invoke, CliTypes
<1>2. CASE a \in [command : {"run"}, left : Names, flags : BOOLEAN]
  <2>1. /\ a.command = "run" /\ a.left \in Names /\ a.flags \in BOOLEAN
        /\ a \in Commands
    BY <1>2 DEF Commands
  <2>2. steps' = run(a.left, a.flags)
    BY <1>1, <2>1 DEF Script
  <2>3. WritesReport(steps', Latest, a.left)
    BY <2>1, <2>2, RunShape
  <2>4. Reports' = {<<Latest, a.left>>}
    BY <1>1, <2>1 DEF Reports
  <2>5. \A e \in Range(steps') : e.op = "write" =>
           \E r \in Reports', f \in Files : e = Write(r[1], f, r[2])
    BY <2>3, <2>4 DEF WritesReport
  <2> QED BY <1>1, <2>1, <2>3, <2>4, <2>5 DEF WritesReport, Contiguous, InputFirst, Foreseen
<1>3. CASE a \in [command : {"compare"}, left : Names, right : Names, flags : BOOLEAN]
  <2>1. /\ a.command = "compare" /\ a.left \in Names /\ a.right \in Names
        /\ a.flags \in BOOLEAN /\ a \in Commands
    BY <1>3 DEF Commands
  <2>2. steps' = compare(a.left, a.right, a.flags)
    BY <1>1, <2>1 DEF Script
  <2>3. /\ steps' \in Seq(Step) /\ Contiguous(steps') /\ InputFirst(steps')
        /\ \A e \in Range(steps') : e.op = "write" =>
              \/ e = Write(Latest, "compare.txt", a.left)
              \/ \E f \in Files : e = Write(Left, f, a.left) \/ e = Write(Right, f, a.right)
        /\ \A f \in Files : /\ Write(Left, f, a.left) \in Range(steps')
                            /\ Write(Right, f, a.right) \in Range(steps')
    BY <2>1, <2>2, CompareShape, Zenon
  <2>4. Reports' = {<<Left, a.left>>, <<Right, a.right>>}
    BY <1>1, <2>1 DEF Reports
  <2>5. Write(Latest, "compare.txt", a.left).path = <<Latest, "compare.txt">>
    BY WriteFacts
  <2>6. \A e \in Range(steps') : e.op = "write" =>
           \/ e.path = <<Latest, "compare.txt">>
           \/ \E r \in Reports', f \in Files : e = Write(r[1], f, r[2])
    BY <2>3, <2>4, <2>5
  <2>7. \A r \in Reports', f \in Files : Write(r[1], f, r[2]) \in Range(steps')
    BY <2>3, <2>4
  <2> QED BY <1>1, <2>1, <2>3, <2>6, <2>7 DEF Contiguous, InputFirst, Foreseen
<1>4. CASE a = [command |-> "benchmark", stamp |-> clock]
  <2>1. a.command = "benchmark" /\ a \in Commands
    BY <1>1, <1>4 DEF Commands
  <2>2. steps' = <<CreateDirectories>>
    BY <1>1, <2>1 DEF Script
  <2>3. CreateDirectories \in Step /\ CreateDirectories.op # "write"
    BY StepFacts
  <2>4. steps' \in Seq(Step) /\ \A e \in Range(steps') : e.op # "write"
    BY <2>2, <2>3 DEF Range
  <2>5. Contiguous(steps')
    BY <2>4, Quiet
  <2> QED BY <1>1, <2>1, <2>4, <2>5 DEF Contiguous, Foreseen
<1>5. CASE a = [command |-> "report"]
  <2>1. a.command = "report" /\ a \in Commands
    BY <1>5 DEF Commands
  <2>2. steps' = <<Read(Latest, "summary.txt")>>
    BY <1>1, <2>1 DEF Script, report
  <2>3. "summary.txt" \in Files
    BY FileFacts DEF ReportFiles
  <2>4. <<Latest, "summary.txt">> \in Paths
    BY <2>3, PathFacts, DirFacts
  <2>5. Read(Latest, "summary.txt") \in Step /\ Read(Latest, "summary.txt").op # "write"
    BY <2>4, StepFacts, Zenon
  <2>6. steps' \in Seq(Step) /\ \A e \in Range(steps') : e.op # "write"
    BY <2>2, <2>5 DEF Range
  <2>7. Contiguous(steps')
    BY <2>6, Quiet
  <2>8. Reports' = {}
    BY <1>1, <2>1 DEF Reports
  <2> QED BY <1>1, <2>1, <2>6, <2>7, <2>8 DEF Contiguous, Foreseen
<1> QED BY <1>2, <1>3, <1>4, <1>5 DEF Invocations

LEMMA InvokeKeeps == CliInv /\ (\E a \in Invocations : Invoke(a)) => CliInv'
<1> SUFFICES ASSUME CliInv, NEW a \in Invocations, Invoke(a)
             PROVE  CliInv'
  OBVIOUS
<1>1. /\ number' = number + 1 /\ disk' = disk /\ missing' = missing /\ clock' = clock
      /\ args' = a /\ status' = "running"
      /\ rest' = IF a.command = "benchmark" THEN Workloads ELSE <<>>
  BY DEF Invoke
<1>2. CliTypes
  BY DEF CliInv
<1>3. /\ number' \in Nat /\ DOMAIN disk' = Paths
      /\ \A p \in Paths : disk'[p].by \in 0..number' /\ disk'[p].by # number'
      /\ \A dir \in Dirs : Mine(dir)' = {}
  BY <1>1, <1>2, NothingOwn
<1>4. /\ args' \in Commands /\ steps' \in Seq(Step) /\ Contiguous(steps)'
      /\ args'.command \in {"run", "compare"} => InputFirst(steps)'
      /\ Foreseen(steps)'
      /\ args'.command # "benchmark" =>
            \A r \in Reports', f \in Files : Write(r[1], f, r[2]) \in Range(steps')
      /\ args'.command = "benchmark" => \A e \in Range(steps') : e.op # "write"
  BY <1>2, ScriptShape
<1>5. /\ rest' \in Seq(Names) /\ IsInjective(rest')
      /\ args'.command = "benchmark" => Range(rest') = Names
  <2>1. Workloads \in Seq(Names) /\ IsInjective(Workloads) /\ Range(Workloads) = Names
    BY CliConstants DEF Names, ToSet, Range
  <2>2. <<>> \in Seq(Names) /\ IsInjective(<<>>)
    BY DEF IsInjective
  <2> QED BY <1>1, <2>1, <2>2
<1>6. CliTypes'
  BY <1>1, <1>2, <1>3, <1>4, <1>5 DEF CliTypes
<1>7. \A dir \in Dirs, f \in Files : <<dir, f>> \in Paths
  BY PathFacts
<1>8. CleanBefore'
  BY <1>3, <1>4 DEF CleanBefore
<1>9. Unbroken'
  BY <1>3, <1>4 DEF Unbroken
<1>10. Accounted'
  <2>1. ASSUME args'.command = "benchmark", NEW r \in Reports'
        PROVE  Later(r)'
    <3>1. Reports' = {<<Benchmark(args'.stamp, w), w>> : w \in Names \ missing'}
      BY <2>1 DEF Reports
    <3>2. r[2] \in Names
      BY <3>1
    <3> QED BY <1>5, <2>1, <3>2 DEF Later
  <2> QED BY <1>4, <2>1 DEF Accounted
<1>11. Untouched'
  <2>1. ASSUME NEW r \in Reports', Later(r)'
        PROVE  r[1] \in Dirs
    <3>1. args'.command = "benchmark"
      BY <2>1 DEF Later
    <3>2. args'.stamp \in Stamps
      BY <1>4, <3>1 DEF Commands
    <3>3. PICK w \in Names : r = <<Benchmark(args'.stamp, w), w>>
      BY <3>1 DEF Reports
    <3>4. Benchmark(args'.stamp, w) \in Dirs
      BY <3>2, DirFacts, Zenon
    <3> QED BY <3>3, <3>4
  <2> QED BY <1>3, <1>4, <2>1 DEF Untouched, Later, Into
<1>12. OwnFiles'
  BY <1>3, <1>4, <1>7 DEF OwnFiles
<1>13. BadInputWritesNothing' /\ ReportsAreWhole'
  BY <1>1 DEF BadInputWritesNothing, ReportsAreWhole
<1> QED BY <1>6, <1>8, <1>9, <1>10, <1>11, <1>12, <1>13 DEF CliInv, ReportInv

\* The invariant holds in every reachable state.
LEMMA CliInvariant == Spec => []CliInv
<1>1. CliInv /\ [Next]_vars => CliInv'
  <2> SUFFICES ASSUME CliInv, [Next]_vars
               PROVE  CliInv'
    OBVIOUS
  <2> QED BY InvokeKeeps, UnknownKeeps, PassKeeps, ThrowKeeps, WriteKeeps, OpenFailsKeeps,
             WriteFailsKeeps, NextWorkloadKeeps, ReturnKeeps, KillKeeps, TickKeeps, StutterKeeps DEF Next
<1> QED BY CliInit, <1>1, PTL DEF Spec

\* Whatever the workloads, the seconds and the number of invocations: a run or
\* a comparison that gives up on its flags or on a workload has written no
\* report, because run and compare load and simulate everything before the
\* first call of write_report.
THEOREM BadInputLeavesNoTrace == Spec => []BadInputWritesNothing
<1>1. CliInv => BadInputWritesNothing
  BY DEF CliInv
<1> QED BY CliInvariant, <1>1, PTL

\* An invocation that ends by itself leaves each of its report directories
\* either untouched, which only an exit code of 1 allows, or with all six files
\* its own and about the right workload, except for files it could not open or
\* write to the end; and it leaves every other directory alone.
THEOREM ReportsStayWhole == Spec => []ReportsAreWhole
<1>1. CliInv => ReportsAreWhole
  BY DEF CliInv
<1> QED BY CliInvariant, <1>1, PTL
=============================================================================

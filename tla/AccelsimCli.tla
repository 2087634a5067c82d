---------------------------- MODULE AccelsimCli -----------------------------
(***************************************************************************)
(* The command line program of tools/accelsim_cli.cpp and the report files *)
(* of write_report (src/simulator.cpp): a sequence of invocations that     *)
(* share the directory reports/.                                           *)
(*                                                                         *)
(* Every command is a straight line of steps with no other choice than to  *)
(* go on or to throw, so an invocation is the sequence of its steps; only  *)
(* benchmark has a loop, whose body is such a sequence.  A file is the     *)
(* invocation that wrote it and the workload it reports on; the simulation *)
(* of a workload is one step.                                              *)
(***************************************************************************)
EXTENDS Naturals, Sequences, FiniteSets, SequencesExt

CONSTANTS
    Workloads,      \* the workload files, as a sequence in benchmark's order
    MissingSets,    \* which of them may be the ones that do not exist
    Malformed,      \* those load_workload_csv throws on
    Stamps,         \* the values of benchmark_stamp, in seconds
    MaxInvocations, \* bound on the invocations explored
    MaxFaults       \* bound on the faults of one: files it fails to open or write,
                    \* and a kill

ReportFiles == <<"summary.txt", "summary.json", "utilization.csv", "stalls.csv",
                 "queue_occupancy.csv", "completed_trace.csv">>

Names == ToSet(Workloads)

ASSUME CliConstants ==
    /\ Workloads \in Seq(STRING) /\ IsInjective(Workloads)
    /\ MissingSets \subseteq SUBSET Names /\ Malformed \subseteq Names
    /\ Stamps \subseteq Nat /\ Stamps # {}
    /\ MaxInvocations \in Nat /\ MaxFaults \in Nat

Latest == <<"latest">>
Left == <<"latest", "left">>
Right == <<"latest", "right">>
Benchmark(stamp, w) == <<"benchmarks", w, stamp>>

Dirs == {Latest, Left, Right} \cup {Benchmark(stamp, w) : stamp \in Stamps, w \in Names}
Paths == {<<dir, name>> : dir \in Dirs, name \in ToSet(ReportFiles)}
            \cup {<<Latest, "compare.txt">>}

VARIABLES
    missing,     \* the workloads that do not exist
    disk,        \* the files under reports/; an absent one is Absent
    clock,       \* the current second
    number,      \* the number of the current invocation
    args,        \* its command and arguments
    steps,       \* what it has still to do
    rest,        \* the workloads benchmark's loop has not come to yet
    status,      \* "idle", "running", "killed", "exit0" or "exit1"
    reason,      \* the step that threw
    failed       \* the files it could not open or not write to the end

vars == <<missing, disk, clock, number, args, steps, rest, status, reason, failed>>

Absent == [by |-> 0, workload |-> "none"]

Init ==
    /\ missing \in MissingSets
    /\ disk = [p \in Paths |-> Absent]
    /\ clock \in Stamps /\ number = 0 /\ args = [command |-> "none"]
    /\ steps = <<>> /\ rest = <<>> /\ status = "idle" /\ reason = "none" /\ failed = {}
-----------------------------------------------------------------------------
(* The commands.                                                           *)

Flags(ok) == [op |-> "flags", ok |-> ok]
Load(w) == [op |-> "load", ok |-> w \notin missing \cup Malformed]
Simulate(w) == [op |-> "simulate", workload |-> w]
CreateDirectories == [op |-> "create_directories"]
Write(dir, name, w) == [op |-> "write", path |-> <<dir, name>>, workload |-> w]
Read(dir, name) == [op |-> "read", path |-> <<dir, name>>]

\* Mutant: the directory is only made sure of after the first file.
write_report_LateDirectory(w, dir) ==
    <<Write(dir, ReportFiles[1], w), CreateDirectories>>
      \o [k \in 1..(Len(ReportFiles) - 1) |-> Write(dir, ReportFiles[k + 1], w)]

\* create_directories, then one file after the other.
write_report(w, dir) ==
    <<CreateDirectories>> \o [k \in DOMAIN ReportFiles |-> Write(dir, ReportFiles[k], w)]

run(w, ok) ==
    <<Flags(ok), Load(w), Simulate(w)>> \o write_report(w, Latest)

\* Mutant: each side is loaded, simulated and written before the other.
compare_OneByOne(l, r, ok) ==
    <<Flags(ok), Load(l), Simulate(l)>> \o write_report(l, Left)
      \o <<Load(r), Simulate(r)>> \o write_report(r, Right)
      \o <<Write(Latest, "compare.txt", l)>>

compare(l, r, ok) ==
    <<Flags(ok), Load(l), Load(r), Simulate(l), Simulate(r), CreateDirectories>>
      \o write_report(l, Left) \o write_report(r, Right)
      \o <<Write(Latest, "compare.txt", l)>>

\* The body of benchmark's loop.
benchmark_one(w, stamp) ==
    <<Load(w), Simulate(w)>> \o write_report(w, Benchmark(stamp, w))

report == <<Read(Latest, "summary.txt")>>

Script(a) ==
    CASE a.command = "run"       -> run(a.left, a.flags)
      [] a.command = "compare"   -> compare(a.left, a.right, a.flags)
      [] a.command = "benchmark" -> <<CreateDirectories>>
      [] a.command = "report"    -> report

\* The flags parse or do not: a missing value, a bad number, an unknown name.
Invocations ==
    [command : {"run"}, left : Names, flags : BOOLEAN]
    \cup [command : {"compare"}, left : Names, right : Names, flags : BOOLEAN]
    \cup {[command |-> "benchmark", stamp |-> clock], [command |-> "report"]}

Invoke(a) ==
    /\ status # "running" /\ number < MaxInvocations
    /\ number' = number + 1 /\ args' = a /\ steps' = Script(a)
    /\ rest' = IF a.command = "benchmark" THEN Workloads ELSE <<>>
    /\ status' = "running" /\ reason' = "none" /\ failed' = {}
    /\ UNCHANGED <<missing, disk, clock>>

\* No command, arguments missing, or an unknown command: usage, return 1.
InvokeUnknown ==
    /\ status # "running" /\ number < MaxInvocations
    /\ number' = number + 1 /\ args' = [command |-> "none"]
    /\ steps' = <<>> /\ rest' = <<>>
    /\ status' = "exit1" /\ reason' = "usage" /\ failed' = {}
    /\ UNCHANGED <<missing, disk, clock>>
-----------------------------------------------------------------------------
(* A running invocation.                                                   *)

Current(op) == status = "running" /\ steps # <<>> /\ Head(steps).op = op
Done == steps' = Tail(steps) /\ UNCHANGED <<missing, clock, number, args, rest, status, reason>>

\* Whether the step goes on; a directory may also fail to be created.
Succeeds(step) ==
    CASE step.op \in {"flags", "load"} -> step.ok
      [] step.op = "read" -> disk[step.path] # Absent
      [] OTHER -> TRUE

PassStep ==
    /\ \E op \in {"flags", "load", "simulate", "create_directories", "read"} : Current(op)
    /\ Succeeds(Head(steps))
    /\ Done /\ UNCHANGED <<disk, failed>>

\* An exception: the handler prints it and main returns 1.
Throw ==
    /\ \E op \in {"flags", "load", "create_directories", "read"} : Current(op)
    /\ Head(steps).op = "create_directories" \/ ~Succeeds(Head(steps))
    /\ status' = "exit1" /\ reason' = Head(steps).op /\ steps' = <<>> /\ rest' = <<>>
    /\ UNCHANGED <<missing, disk, clock, number, args, failed>>

\* ofstream opened and written.
WriteFile ==
    /\ Current("write")
    /\ disk' = [disk EXCEPT ![Head(steps).path] =
                   [by |-> number, workload |-> Head(steps).workload]]
    /\ Done /\ UNCHANGED failed

\* No line of the program looks at a stream after opening it or writing to it.
\* If the open failed, the file keeps what it had.
OpenFails ==
    /\ Current("write") /\ Cardinality(failed) < MaxFaults
    /\ failed' = failed \cup {Head(steps).path}
    /\ Done /\ UNCHANGED disk

\* It opened, and the writing failed: the file is cut off.
WriteFails ==
    /\ Current("write") /\ Cardinality(failed) < MaxFaults
    /\ disk' = [disk EXCEPT ![Head(steps).path] = [by |-> number, workload |-> "cut"]]
    /\ failed' = failed \cup {Head(steps).path}
    /\ Done

\* The next iteration of benchmark's loop; a missing workload is skipped.
NextWorkload ==
    /\ status = "running" /\ steps = <<>> /\ rest # <<>>
    /\ rest' = Tail(rest)
    /\ steps' = IF Head(rest) \in missing THEN <<>>
                ELSE benchmark_one(Head(rest), args.stamp)
    /\ UNCHANGED <<missing, disk, clock, number, args, status, reason, failed>>

Return ==
    /\ status = "running" /\ steps = <<>> /\ rest = <<>>
    /\ status' = "exit0"
    /\ UNCHANGED <<missing, disk, clock, number, args, steps, rest, reason, failed>>

\* The process ends between two steps, or in a simulation that never returns.
\* A file that was being written is cut off.
Kill ==
    /\ status = "running" /\ Cardinality(failed) < MaxFaults
    /\ status' = "killed" /\ steps' = <<>> /\ rest' = <<>>
    /\ \/ UNCHANGED disk
       \/ /\ Current("write")
          /\ disk' = [disk EXCEPT ![Head(steps).path] = [by |-> number, workload |-> "cut"]]
    /\ UNCHANGED <<missing, clock, number, args, reason, failed>>

\* Time passes between invocations; each reads the clock once, when it starts.
Tick ==
    /\ status # "running"
    /\ \E s \in Stamps : s > clock /\ clock' = s
    /\ UNCHANGED <<missing, disk, number, args, steps, rest, status, reason, failed>>

Next ==
    \/ (\E a \in Invocations : Invoke(a)) \/ InvokeUnknown
    \/ PassStep \/ Throw \/ WriteFile \/ OpenFails \/ WriteFails
    \/ NextWorkload \/ Return \/ Kill \/ Tick

Spec == Init /\ [][Next]_vars
-----------------------------------------------------------------------------
(* Properties.                                                             *)

\* A run or a comparison with a bad flag, or with a workload that cannot be
\* loaded, the second of a comparison included, changes no report: all input
\* is read and simulated before the first file is written.  (A benchmark that
\* meets a malformed workload has already written those before it.)
BadInputWritesNothing ==
    (status = "exit1" /\ args.command \in {"run", "compare"} /\ reason \in {"flags", "load"})
        => \A p \in Paths : disk[p].by # number

\* The report directories of an invocation, with the workload each is about.
Reports ==
    CASE args.command = "run"       -> {<<Latest, args.left>>}
      [] args.command = "compare"   -> {<<Left, args.left>>, <<Right, args.right>>}
      [] args.command = "benchmark" -> {<<Benchmark(args.stamp, w), w>> : w \in Names \ missing}
      [] OTHER -> {}

\* However the invocation ended, if it was not killed, a report directory it
\* wrote to is wholly its own, except for files that could not be opened or
\* written, of which nothing in the program takes notice; and after exit code 0 that is true of all its directories.  So a report left
\* half written by a killed invocation, by an earlier one with other workloads
\* or by a benchmark of the same second never shows through.
ReportsAreWhole ==
    LET Mine(dir) == {f \in ToSet(ReportFiles) : disk[<<dir, f>>].by = number} IN
    status \in {"exit0", "exit1"} =>
        /\ \A r \in Reports : \A f \in ToSet(ReportFiles) :
              (status = "exit0" \/ Mine(r[1]) # {}) =>
                 \/ disk[<<r[1], f>>] = [by |-> number, workload |-> r[2]]
                 \/ <<r[1], f>> \in failed
        /\ \A dir \in Dirs \ {r[1] : r \in Reports} : Mine(dir) = {}
=============================================================================

------------------------ MODULE WorkloadLoaderProofs ------------------------
(***************************************************************************)
(* What load_workload_csv guarantees of every file: the types of its       *)
(* state, that the instructions it returns are closed, and that they are   *)
(* the rows of the file.                                                   *)
(***************************************************************************)
EXTENDS WorkloadLoader, QueueFacts, FiniteSetTheorems, TLAPS

Loaded == [id : Nat, type : {"Compute", "Load", "Store"},
           execute_latency : 0..(U32 - 1), deps : SUBSET Nat]

\* ids is the set of ids of the instructions, each of which has its own.
IdsAgree ==
    /\ \A k \in 1..Len(instructions) : instructions[k].id \in ids
    /\ \A i \in ids : \E k \in 1..Len(instructions) : instructions[k].id = i
    /\ \A j, k \in 1..Len(instructions) :
          instructions[j].id = instructions[k].id => j = k

LatencySet == \A k \in 1..Len(instructions) : instructions[k].execute_latency > 0

\* What the second loop has established so far.
CheckedDeps ==
    /\ \A k \in 1..checked : instructions[k].deps \subseteq ids
    /\ state \in {"open", "read"} => checked = 0
    /\ state = "returned" => checked = Len(instructions)

LoaderInv == LoaderTypeOK /\ IdsAgree /\ LatencySet /\ CheckedDeps

\* The cast to uint32_t of any number is in range, and 0 is replaced by 1.
LEMMA LatencyRange ==
    ASSUME NEW row, row.latency \in Nat
    PROVE  Latency(row) \in 1..(U32 - 1)
<1>1. U32 \in Nat /\ U32 > 1
  BY LoaderConstants
<1>2. row.latency % U32 \in 0..(U32 - 1)
  <2>1. ASSUME NEW n \in Nat, NEW m \in Nat, m > 0 PROVE n % m \in 0..(m - 1)
    BY <2>1, SMT
  <2> QED BY <1>1, <2>1, SMT
<1> QED BY <1>1, <1>2, SMT DEF Latency

\* The dependencies of a row that parses are numbers.
LEMMA RowLoads ==
    ASSUME NEW row \in Row, RowParses(row)
    PROVE  /\ ParseRow(row) \in Loaded
           /\ ParseRow(row).execute_latency > 0
           /\ ParseRow(row).id = row.id
           /\ row.id \in Nat /\ row.id \notin ids
<1>1. row.id \in Nat /\ row.id \notin ids /\ row.latency \in Nat
  BY DEF Row, RowParses
<1>2. parse_op_type[row.op] \in {"Compute", "Load", "Store"}
  <2>1. row.op \in {"COMPUTE", "LOAD", "STORE"}
    BY DEF RowParses, parse_op_type
  <2> QED BY <2>1 DEF parse_op_type
<1>3. Deps(row) \subseteq Nat
  <2>1. row.deps.tokens \in Seq(Token)
    BY DEF Row, DepsColumn
  <2>2. \A k \in DOMAIN row.deps.tokens :
           Number(row.deps.tokens[k]) \in Nat \cup {BadText, NoText}
    <3>1. \A k \in DOMAIN row.deps.tokens : row.deps.tokens[k] \in Token
      BY <2>1
    <3>2. \A t \in Token : Number(t) \in Nat \cup {BadText, NoText}
      BY DEF Token, Number
    <3> QED BY <3>1, <3>2
  <2>3. Read(row.deps) \subseteq DOMAIN row.deps.tokens
    BY DEF Read, Starts
  <2>4. Deps(row) \subseteq Nat \cup {BadText, NoText}
    BY <2>2, <2>3, Zenon DEF Deps
  <2> QED BY <2>4 DEF RowParses
<1>4. Latency(row) \in 1..(U32 - 1) /\ U32 \in Nat
  BY <1>1, LatencyRange, LoaderConstants
<1>5. Latency(row) \in 0..(U32 - 1) /\ Latency(row) > 0
  BY <1>4, SMT
<1> QED BY <1>1, <1>2, <1>3, <1>5 DEF ParseRow, Loaded

\* Appending an instruction with a new id keeps ids and instructions in step.
LEMMA AppendKeepsIds ==
    ASSUME NEW s \in Seq(Loaded), NEW i \in Loaded, NEW S,
           i.id \notin S, i.execute_latency > 0,
           \A k \in 1..Len(s) : s[k].id \in S,
           \A d \in S : \E k \in 1..Len(s) : s[k].id = d,
           \A j, k \in 1..Len(s) : s[j].id = s[k].id => j = k,
           \A k \in 1..Len(s) : s[k].execute_latency > 0,
           NEW T, T = S \cup {i.id}, NEW t, t = Append(s, i)
    PROVE  /\ t \in Seq(Loaded) /\ Len(t) = Len(s) + 1
           /\ \A k \in 1..Len(t) : t[k].id \in T
           /\ \A d \in T : \E k \in 1..Len(t) : t[k].id = d
           /\ \A j, k \in 1..Len(t) : t[j].id = t[k].id => j = k
           /\ \A k \in 1..Len(t) : t[k].execute_latency > 0
<1>1. t \in Seq(Loaded) /\ Len(t) = Len(s) + 1 /\ Len(s) \in Nat
  BY SMT
<1>2. t[Len(s) + 1] = i /\ \A k \in 1..Len(s) : t[k] = s[k]
  BY SMT
<1>3. \A k \in 1..Len(t) : k \in 1..Len(s) \/ k = Len(s) + 1
  BY <1>1, SMT
<1>4. Len(s) + 1 \in 1..Len(t) /\ \A k \in 1..Len(s) : k \in 1..Len(t)
  BY <1>1, SMT
<1>5. \A k \in 1..Len(t) : t[k].id \in T /\ t[k].execute_latency > 0
  BY <1>2, <1>3
<1>6. \A d \in T : \E k \in 1..Len(t) : t[k].id = d
  BY <1>2, <1>4
<1>7. \A j, k \in 1..Len(t) : t[j].id = t[k].id => j = k
  BY <1>2, <1>3
<1> QED BY <1>1, <1>5, <1>6, <1>7

\* The invariant holds at the call.
LEMMA LoaderInit == Init => LoaderInv
<1> SUFFICES ASSUME Init PROVE LoaderInv
  OBVIOUS
<1>0. file \in Seq({Blank, Header} \cup Row) /\ Len(file) \in Nat
  BY LoaderConstants DEF Init
<1>1. LoaderTypeOK
  BY <1>0, SMT DEF Init, LoaderTypeOK
<1>2. IdsAgree /\ LatencySet /\ CheckedDeps
  BY SMT DEF Init, IdsAgree, LatencySet, CheckedDeps
<1> QED BY <1>1, <1>2 DEF LoaderInv

\* Every step of the two loops preserves it.
LEMMA LoaderStep == LoaderInv /\ [Next]_vars => LoaderInv'
<1> SUFFICES ASSUME LoaderInv, [Next]_vars PROVE LoaderInv'
  OBVIOUS
<1>0. /\ LoaderTypeOK /\ IdsAgree /\ LatencySet /\ CheckedDeps
      /\ Len(file) \in Nat /\ Len(instructions) \in Nat
  <2>1. LoaderTypeOK /\ IdsAgree /\ LatencySet /\ CheckedDeps
    BY DEF LoaderInv
  <2>2. Len(file) \in Nat
    BY <2>1 DEF LoaderTypeOK
  <2> QED BY <2>1, <2>2 DEF LoaderTypeOK
<1>1. CASE OpenFile
  BY <1>0, <1>1 DEF OpenFile, LoaderInv, LoaderTypeOK, IdsAgree, LatencySet, CheckedDeps
<1>2. CASE OpenFails \/ RejectHeader \/ RejectRow \/ EndOfFile \/ MissingDependency
  <2>1. /\ state \in {"open", "read", "check"} /\ state' \in {"threw", "check"}
        /\ UNCHANGED <<file, line, first_line, ids, instructions, checked>>
    BY <1>2 DEF OpenFails, RejectHeader, RejectRow, EndOfFile, MissingDependency, NextLine
  <2> QED BY <1>0, <2>1 DEF LoaderInv, LoaderTypeOK, IdsAgree, LatencySet, CheckedDeps
<1>3. CASE SkipBlank \/ SkipHeader
  <2>1. /\ line < Len(file) /\ line' = line + 1 /\ first_line' \in BOOLEAN
        /\ UNCHANGED <<file, state, ids, instructions, checked>>
    BY <1>0, <1>3 DEF SkipBlank, SkipHeader, NextLine, LoaderTypeOK
  <2>2. line' \in 0..Len(file)
    BY <1>0, <2>1 DEF LoaderTypeOK
  <2> QED
    BY <1>0, <2>1, <2>2 DEF LoaderInv, LoaderTypeOK, IdsAgree, LatencySet, CheckedDeps
<1>4. CASE AddRow
  <2>1. PICK row \in {file[k] : k \in DOMAIN file} \ {Blank, Header} :
           /\ NextLine(row) /\ RowParses(row)
           /\ ids' = ids \cup {row.id}
           /\ instructions' = Append(instructions, ParseRow(row))
    BY <1>4 DEF AddRow
  <2>2. row \in Row
    <3>1. file \in Seq({Blank, Header} \cup Row)
      BY <1>0 DEF LoaderTypeOK
    <3>2. \A k \in DOMAIN file : file[k] \in {Blank, Header} \cup Row
      BY <3>1
    <3> QED BY <2>1, <3>2
  <2>3. /\ state = "read" /\ line < Len(file) /\ line' = line + 1 /\ first_line' = FALSE
        /\ UNCHANGED <<file, state, checked>>
    BY <1>4, <2>1 DEF AddRow, NextLine
  <2>4. /\ ParseRow(row) \in Loaded /\ ParseRow(row).execute_latency > 0
        /\ ParseRow(row).id = row.id /\ row.id \in Nat /\ row.id \notin ids
    BY <2>1, <2>2, RowLoads
  <2>5. instructions \in Seq(Loaded)
    BY <1>0 DEF LoaderTypeOK, Loaded
  <2>6. /\ instructions' \in Seq(Loaded) /\ Len(instructions') = Len(instructions) + 1
        /\ IdsAgree' /\ LatencySet'
    BY <1>0, <2>1, <2>4, <2>5, AppendKeepsIds DEF IdsAgree, LatencySet
  <2>7. LoaderTypeOK'
    <3>1. line' \in 0..Len(file)
      BY <1>0, <2>3, SMT DEF LoaderTypeOK
    <3>3. ids' \subseteq Nat
      BY <1>0, <2>1, <2>4 DEF LoaderTypeOK
    <3>2. checked' = 0 /\ checked' \in 0..Len(instructions')
      BY <1>0, <2>3, <2>6, SMT DEF CheckedDeps
    <3> QED BY <1>0, <2>3, <2>6, <3>1, <3>2, <3>3 DEF LoaderTypeOK, Loaded
  <2>8. CheckedDeps'
    BY <1>0, <2>3, SMT DEF CheckedDeps
  <2> QED BY <2>6, <2>7, <2>8 DEF LoaderInv
<1>5. CASE CheckOne
  <2>1. /\ state = "check" /\ checked < Len(instructions) /\ checked' = checked + 1
        /\ instructions[checked + 1].deps \subseteq ids
        /\ UNCHANGED <<file, state, line, first_line, ids, instructions>>
    BY <1>5 DEF CheckOne
  <2>2. checked' \in 0..Len(instructions) /\ checked \in Nat
    BY <1>0, <2>1, SMT DEF LoaderTypeOK
  <2>3. CheckedDeps'
    <3>1. \A k \in 1..checked' : k \in 1..checked \/ k = checked + 1
      BY <2>1, <2>2, SMT
    <3> QED BY <1>0, <2>1, <3>1 DEF CheckedDeps
  <2> QED BY <1>0, <2>1, <2>2, <2>3 DEF LoaderInv, LoaderTypeOK, IdsAgree, LatencySet
<1>6. CASE ReturnInstructions
  BY <1>0, <1>6
     DEF ReturnInstructions, LoaderInv, LoaderTypeOK, IdsAgree, LatencySet, CheckedDeps
<1>7. CASE UNCHANGED vars
  BY <1>0, <1>7 DEF vars, LoaderInv, LoaderTypeOK, IdsAgree, LatencySet, CheckedDeps
<1> QED BY <1>1, <1>2, <1>3, <1>4, <1>5, <1>6, <1>7 DEF Next

\* Whatever the file holds, the state keeps its types: no text that is not a
\* number and no latency above uint32_t gets into an instruction.
THEOREM LoaderTypeCorrect == Spec => []LoaderTypeOK
<1>1. LoaderInv => LoaderTypeOK
  BY DEF LoaderInv
<1> QED BY LoaderInit, LoaderStep, <1>1, PTL DEF Spec

\* Whatever the file holds, the instructions that load_workload_csv returns
\* have distinct ids, dependencies that exist and latencies above 0.
THEOREM LoadedClosed == Spec => []LoadedIsClosed
<1>1. LoaderInv => LoadedIsClosed
  <2> SUFFICES ASSUME LoaderInv, state = "returned"
               PROVE  /\ \A j, k \in DOMAIN instructions :
                            instructions[j].id = instructions[k].id => j = k
                      /\ \A k \in DOMAIN instructions :
                            /\ instructions[k].execute_latency > 0
                            /\ \A d \in instructions[k].deps :
                                  \E j \in DOMAIN instructions : instructions[j].id = d
    BY DEF LoadedIsClosed
  <2>1. DOMAIN instructions = 1..Len(instructions)
    BY DEF LoaderInv, LoaderTypeOK
  <2>2. \A k \in 1..Len(instructions) : instructions[k].deps \subseteq ids
    BY DEF LoaderInv, CheckedDeps
  <2> QED BY <2>1, <2>2 DEF LoaderInv, IdsAgree, LatencySet
<1> QED BY LoaderInit, LoaderStep, <1>1, PTL DEF Spec
-----------------------------------------------------------------------------
(* What the first loop has made of the lines it has read.                  *)

\* first_line holds as long as only blank lines were read.
FirstLine == first_line <=> (\A k \in 1..line : file[k] = Blank)

\* One instruction for each data line read, under its number.
LinesLoaded ==
    /\ Len(instructions) = Rank(DataLines, line)
    /\ \A k \in UpTo(DataLines, line) :
          /\ file[k] \in Row
          /\ instructions[Rank(DataLines, k)] = ParseRow(file[k])

AllRead == state \in {"check", "returned"} => line = Len(file)

RowsInv == LoaderInv /\ FirstLine /\ LinesLoaded /\ AllRead

\* DataLines are lines of the file.
LEMMA DataLinesOfFile ==
    ASSUME LoaderTypeOK
    PROVE  /\ DOMAIN file = 1..Len(file) /\ Len(file) \in Nat
           /\ DataLines \in SUBSET (1..Len(file))
           /\ \A j \in DataLines : j \in Nat /\ j >= 1 /\ j <= Len(file)
           /\ line \in 0..Len(file) /\ line \in Nat
<1>1. DOMAIN file = 1..Len(file) /\ Len(file) \in Nat /\ line \in 0..Len(file)
  BY DEF LoaderTypeOK
<1>2. DataLines \in SUBSET (1..Len(file))
  BY <1>1 DEF DataLines, TextLines
<1> QED BY <1>1, <1>2

\* At the call nothing is read.
LEMMA RowsInit == Init => RowsInv
<1> SUFFICES ASSUME Init PROVE RowsInv
  OBVIOUS
<1>1. LoaderInv
  BY LoaderInit
<1>2. line = 0 /\ first_line = TRUE /\ instructions = <<>> /\ state = "open"
  BY DEF Init
<1>3. DataLines \in SUBSET (1..Len(file)) /\ Len(file) \in Nat /\ 0 \in 0..Len(file)
  BY <1>1, <1>2, DataLinesOfFile, SMT DEF LoaderInv
<1>4. Rank(DataLines, 0) = 0
  BY <1>3, RankFacts
<1>5. UpTo(DataLines, 0) = {}
  BY <1>1, DataLinesOfFile DEF UpTo, LoaderInv
<1>6. LinesLoaded
  BY <1>2, <1>4, <1>5 DEF LinesLoaded
<1>7. FirstLine /\ AllRead
  BY <1>2, SMT DEF FirstLine, AllRead
<1> QED BY <1>1, <1>6, <1>7 DEF RowsInv

\* A blank line, or the header in front of the rows, is no data line; every
\* line that AddRow accepts is one.
LEMMA WhichLines ==
    ASSUME LoaderTypeOK, FirstLine, line < Len(file)
    PROVE  /\ file[line + 1] = Blank => line + 1 \notin DataLines
           /\ file[line + 1] = Header /\ first_line => line + 1 \notin DataLines
           /\ file[line + 1] \notin {Blank, Header} => line + 1 \in DataLines
<1>1. DOMAIN file = 1..Len(file) /\ Len(file) \in Nat /\ line \in 0..Len(file)
  BY DataLinesOfFile
<1>2. line + 1 \in DOMAIN file
  BY <1>1, SMT
<1>3. file[line + 1] = Blank => line + 1 \notin DataLines
  BY DEF DataLines, TextLines
<1>4. file[line + 1] \notin {Blank, Header} => line + 1 \in DataLines
  BY <1>2 DEF DataLines, TextLines
<1>5. ASSUME file[line + 1] = Header, first_line  PROVE line + 1 \notin DataLines
  <2>1. \A j \in TextLines : line + 1 <= j
    <3>1. \A k \in 1..line : file[k] = Blank
      BY <1>5 DEF FirstLine
    <3> QED BY <1>1, <3>1, SMT DEF TextLines
  <2> QED BY <1>5, <2>1 DEF DataLines
<1> QED BY <1>3, <1>4, <1>5

\* A line that is no data line changes no number.
LEMMA LineSkipped ==
    ASSUME LoaderTypeOK, LinesLoaded, line < Len(file), line + 1 \notin DataLines,
           UNCHANGED <<file, instructions>>, line' = line + 1
    PROVE  LinesLoaded'
<1>1. /\ DataLines \in SUBSET (1..Len(file)) /\ Len(file) \in Nat /\ line \in 0..Len(file)
  BY DataLinesOfFile
<1>2. DataLines' = DataLines
  BY DEF DataLines, TextLines
<1>3. Rank(DataLines, line + 1) = Rank(DataLines, line)
  BY <1>1, RankFacts
<1>4. UpTo(DataLines, line + 1) = UpTo(DataLines, line)
  BY DataLinesOfFile DEF UpTo
<1>5. \A k : Deps(file[k])' = Deps(file[k]) /\ ParseRow(file[k])' = ParseRow(file[k])
  BY DEF Deps, Number, ParseRow, Latency, Read, Starts, Whole, Separator
<1>6. Rank(DataLines, line)' = Rank(DataLines, line + 1)
  BY <1>2
<1>7. UpTo(DataLines, line)' = UpTo(DataLines, line + 1)
  BY <1>2
<1>8. \A k : Rank(DataLines, k)' = Rank(DataLines, k)
  BY <1>2
<1> QED BY <1>3, <1>4, <1>6, <1>7, <1>8 DEF LinesLoaded

\* A step that neither reads nor stores keeps the agreement.
LEMMA SameLines ==
    ASSUME LinesLoaded, UNCHANGED <<file, line, instructions>>
    PROVE  LinesLoaded'
<1>1. DataLines' = DataLines
  BY DEF DataLines, TextLines
<1>2. /\ Rank(DataLines, line)' = Rank(DataLines, line)
      /\ UpTo(DataLines, line)' = UpTo(DataLines, line)
      /\ \A k : Rank(DataLines, k)' = Rank(DataLines, k)
  BY <1>1
<1> QED BY <1>2 DEF LinesLoaded

\* Every step keeps the instructions and the lines read in agreement.
LEMMA RowsStep == RowsInv /\ [Next]_vars => RowsInv'
<1> SUFFICES ASSUME RowsInv, [Next]_vars PROVE RowsInv'
  OBVIOUS
<1>0. /\ LoaderInv /\ LoaderTypeOK /\ FirstLine /\ LinesLoaded /\ AllRead /\ LoaderInv'
      /\ DOMAIN file = 1..Len(file)
      /\ DataLines \in SUBSET (1..Len(file)) /\ Len(file) \in Nat /\ line \in 0..Len(file)
  BY LoaderStep, DataLinesOfFile DEF RowsInv, LoaderInv
<1>1. ASSUME UNCHANGED <<file, line, first_line, instructions>>,
             state' \in {"check", "returned"} => state = state' \/ line = Len(file)
                                                 \/ state = "check"
      PROVE  RowsInv'
  <2>1. FirstLine'
    BY <1>0, <1>1 DEF FirstLine
  <2>2. LinesLoaded'
    BY <1>0, <1>1, SameLines
  <2>3. AllRead'
    BY <1>0, <1>1 DEF AllRead
  <2> QED BY <1>0, <2>1, <2>2, <2>3 DEF RowsInv
<1>2. CASE \/ OpenFile \/ OpenFails \/ RejectHeader \/ RejectRow \/ EndOfFile \/ CheckOne
           \/ MissingDependency \/ ReturnInstructions \/ UNCHANGED vars
  <2>1. CASE OpenFile \/ OpenFails \/ RejectHeader \/ RejectRow \/ EndOfFile
    BY <1>1, <2>1 DEF OpenFile, OpenFails, RejectHeader, RejectRow, EndOfFile, NextLine
  <2>2. CASE CheckOne \/ MissingDependency \/ ReturnInstructions \/ UNCHANGED vars
    BY <1>1, <2>2 DEF CheckOne, MissingDependency, ReturnInstructions, vars
  <2> QED BY <1>2, <2>1, <2>2
<1>3. CASE SkipBlank \/ SkipHeader
  <2>1. /\ state = "read" /\ state' = state /\ line < Len(file) /\ line' = line + 1
        /\ UNCHANGED <<file, instructions>>
        /\ \/ file[line + 1] = Blank /\ first_line' = first_line
           \/ file[line + 1] = Header /\ first_line /\ first_line' = FALSE
    BY <1>3 DEF SkipBlank, SkipHeader, NextLine
  <2>2. LinesLoaded'
    BY <1>0, <2>1, WhichLines, LineSkipped
  <2>3. FirstLine'
    <3>1. 1..line' = (1..line) \cup {line + 1}
      BY <1>0, <2>1, SMT
    <3>2. Header # Blank
      BY LoaderConstants
    <3> QED BY <1>0, <2>1, <3>1, <3>2 DEF FirstLine
  <2>4. AllRead'
    BY <2>1 DEF AllRead
  <2> QED BY <1>0, <2>2, <2>3, <2>4 DEF RowsInv
<1>4. CASE AddRow
  <2>1. PICK row \in {file[k] : k \in DOMAIN file} \ {Blank, Header} :
           /\ NextLine(row) /\ RowParses(row)
           /\ instructions' = Append(instructions, ParseRow(row))
    BY <1>4 DEF AddRow
  <2>2. /\ state = "read" /\ state' = state /\ line < Len(file) /\ line' = line + 1
        /\ first_line' = FALSE /\ file' = file /\ row = file[line + 1]
    BY <1>4, <2>1 DEF AddRow, NextLine
  <2>3. line + 1 \in DataLines
    BY <1>0, <2>1, <2>2, WhichLines
  <2>4. row \in Row
    <3>1. file \in Seq({Blank, Header} \cup Row)
      BY <1>0 DEF LoaderTypeOK
    <3>2. \A k \in DOMAIN file : file[k] \in {Blank, Header} \cup Row
      BY <3>1
    <3> QED BY <2>1, <3>2
  <2>5. DataLines' = DataLines
    BY <2>2 DEF DataLines, TextLines
  <2>6. /\ Rank(DataLines, line) \in Nat
        /\ Rank(DataLines, line + 1) = Rank(DataLines, line) + 1
        /\ \A k \in UpTo(DataLines, line) : Rank(DataLines, k) \in 1..Rank(DataLines, line)
    BY <1>0, <2>3, RankFacts
  <2>7. /\ Len(instructions) = Rank(DataLines, line)
        /\ instructions \in Seq(Loaded)
    BY <1>0 DEF LinesLoaded, LoaderTypeOK, Loaded
  <2>8. /\ Len(instructions') = Len(instructions) + 1
        /\ instructions'[Len(instructions) + 1] = ParseRow(row)
        /\ \A k \in 1..Len(instructions) : instructions'[k] = instructions[k]
    BY <2>1, <2>7
  <2>9. UpTo(DataLines, line + 1) = UpTo(DataLines, line) \cup {line + 1}
    <3>1. \A j \in DataLines : j <= line + 1 <=> (j <= line \/ j = line + 1)
      BY <1>0, DataLinesOfFile
    <3> QED BY <2>3, <3>1, Zenon DEF UpTo
  <2>10. ASSUME NEW k \in UpTo(DataLines, line + 1)
         PROVE  /\ file[k] \in Row
                /\ instructions'[Rank(DataLines, k)] = ParseRow(file[k])
    <3>1. CASE k \in UpTo(DataLines, line)
      BY <1>0, <2>6, <2>7, <2>8, <3>1 DEF LinesLoaded
    <3>2. CASE k = line + 1
      BY <2>2, <2>4, <2>6, <2>7, <2>8, <3>2
    <3> QED BY <2>9, <3>1, <3>2
  <2>11. LinesLoaded'
    <3>1. Len(instructions') = Rank(DataLines, line + 1)
      BY <2>6, <2>7, <2>8
    <3> QED BY <2>2, <2>5, <2>10, <3>1 DEF LinesLoaded
  <2>12. FirstLine'
    <3>1. line' \in 1..line' /\ file'[line'] # Blank
      BY <1>0, <2>1, <2>2, SMT
    <3> QED BY <2>2, <3>1 DEF FirstLine
  <2>13. AllRead'
    BY <2>2 DEF AllRead
  <2> QED BY <1>0, <2>11, <2>12, <2>13 DEF RowsInv
<1> QED BY <1>2, <1>3, <1>4 DEF Next

\* A dependency column with one kind of separator is split at all of them.
LEMMA SplitEverywhere ==
    ASSUME NEW d \in DepsColumn,
           Cardinality({d.separators[j] : j \in DOMAIN d.separators}) <= 1
    PROVE  Read(d) = {k \in DOMAIN d.tokens : d.tokens[k] \notin {NoText, 0}}
<1> DEFINE kinds == {d.separators[j] : j \in DOMAIN d.separators}
<1>1. /\ d.separators \in Seq({"|", ";"}) /\ d.tokens \in Seq(Token)
      /\ Len(d.tokens) = Len(d.separators) + 1
  BY DEF DepsColumn
<1>2. \A S : \A q \in Seq(S) : /\ DOMAIN q = 1..Len(q) /\ Len(q) \in Nat
                              /\ \A j \in DOMAIN q : q[j] \in S
  OBVIOUS
<1>3. /\ DOMAIN d.separators = 1..Len(d.separators) /\ Len(d.separators) \in Nat
      /\ \A j \in DOMAIN d.separators : d.separators[j] \in {"|", ";"}
      /\ DOMAIN d.tokens = 1..(Len(d.separators) + 1)
  BY <1>1, <1>2, Zenon
<1>4. ~("|" \in kinds /\ ";" \in kinds)
  <2>1. IsFiniteSet({"|"}) /\ Cardinality({"|"}) = 1
    BY FS_Singleton
  <2>2. /\ IsFiniteSet({"|"} \cup {";"})
        /\ Cardinality({"|"} \cup {";"}) = Cardinality({"|"}) + 1
    <3>1. ";" \notin {"|"}
      OBVIOUS
    <3> QED BY <2>1, <3>1, FS_AddElement
  <2>3. kinds \in SUBSET ({"|"} \cup {";"})
    BY <1>3
  <2>4. IsFiniteSet(kinds)
    BY <2>2, <2>3, FS_Subset
  <2>5. Cardinality(kinds) \in Nat /\ Cardinality(kinds) <= 1
    BY <2>4, FS_CardinalityType
  <2>6. ASSUME {"|"} \cup {";"} \in SUBSET kinds PROVE FALSE
    <3>1. Cardinality({"|"} \cup {";"}) <= Cardinality(kinds)
      BY <2>4, <2>6, FS_Subset
    <3>2. ASSUME NEW c \in Nat, c <= 1, 1 + 1 <= c PROVE FALSE
      BY <3>2
    <3> QED BY <2>1, <2>2, <2>5, <3>1, <3>2, Zenon
  <2> QED BY <2>6, Zenon
<1>5. \A j \in DOMAIN d.separators : d.separators[j] = Separator(d)
  BY <1>3, <1>4 DEF Separator
<1>6. Starts(d) = DOMAIN d.tokens
  <2>1. \A k \in DOMAIN d.tokens : k = 1 \/ k - 1 \in DOMAIN d.separators
    <3>1. \A n \in Nat : \A k \in 1..(n + 1) : k = 1 \/ k - 1 \in 1..n
      OBVIOUS
    <3> QED BY <1>3, <3>1, Zenon
  <2> QED BY <1>5, <2>1 DEF Starts
<1>7. \A k \in DOMAIN d.tokens : Whole(d, k)
  <2>1. \A k \in DOMAIN d.tokens : k = Len(d.tokens) \/ k + 1 \in DOMAIN d.tokens
    <3>1. \A n \in Nat : \A k \in 1..(n + 1) : k = n + 1 \/ k + 1 \in 1..(n + 1)
      OBVIOUS
    <3> QED BY <1>1, <1>3, <3>1, Zenon
  <2> QED BY <1>6, <2>1 DEF Whole
<1> QED BY <1>6, <1>7 DEF Read

LEMMA OneSeparator ==
    ASSUME NEW row \in Row, row.cols > 4,
           Cardinality({row.deps.separators[j] : j \in DOMAIN row.deps.separators}) <= 1
    PROVE  Deps(row) = {Number(t) : t \in {row.deps.tokens[j] : j \in DOMAIN row.deps.tokens}
                                              \ {NoText, 0}}
<1>1. row.deps \in DepsColumn /\ row.cols \in Nat
  BY DEF Row
<1>2. Read(row.deps) = {k \in DOMAIN row.deps.tokens : row.deps.tokens[k] \notin {NoText, 0}}
  BY <1>1, SplitEverywhere
<1>3. Deps(row) = {Number(row.deps.tokens[k]) : k \in Read(row.deps)}
  <2>1. ~(row.cols < 5)
    BY <1>1
  <2> QED BY <2>1 DEF Deps
<1> QED BY <1>2, <1>3

\* Whatever the file holds, if load_workload_csv returns, no row was dropped,
\* doubled or reordered, and dependency lists were read completely.
THEOREM LoadedFaithfully == Spec => []LoadedAsWritten
<1>1. RowsInv => LoadedAsWritten
  <2> SUFFICES ASSUME RowsInv, state = "returned"
               PROVE  LoadedAsWritten
    BY DEF LoadedAsWritten
  <2>1. /\ LoaderTypeOK /\ LinesLoaded /\ line = Len(file)
        /\ DataLines \in SUBSET (1..Len(file)) /\ Len(file) \in Nat
    BY DataLinesOfFile DEF RowsInv, LoaderInv, AllRead
  <2>2. Len(file) \in 0..Len(file)
    BY <2>1, SMT
  <2>3. Rank(DataLines, Len(file)) = Cardinality(DataLines)
    BY <2>1, <2>2, RankFacts
  <2>4. UpTo(DataLines, Len(file)) = DataLines
    BY <2>1, DataLinesOfFile DEF UpTo
  <2>5. Len(instructions) = Cardinality(DataLines)
    BY <2>1, <2>3 DEF LinesLoaded
  <2>6. ASSUME NEW k \in DataLines
        PROVE  LET loaded == instructions[Cardinality({j \in DataLines : j <= k})]
                   d == file[k].deps IN
               /\ loaded.id = file[k].id
               /\ (/\ file[k].cols > 4
                   /\ Cardinality({d.separators[j] : j \in DOMAIN d.separators}) <= 1)
                  => loaded.deps =
                       {Number(t) : t \in {d.tokens[j] : j \in DOMAIN d.tokens} \ {NoText, 0}}
    <3>1. /\ file[k] \in Row
          /\ instructions[Rank(DataLines, k)] = ParseRow(file[k])
      BY <2>1, <2>4 DEF LinesLoaded
    <3>2. Rank(DataLines, k) = Cardinality({j \in DataLines : j <= k})
      BY DEF Rank, UpTo
    <3>3. ParseRow(file[k]).id = file[k].id /\ ParseRow(file[k]).deps = Deps(file[k])
      BY DEF ParseRow
    <3> QED BY <3>1, <3>2, <3>3, OneSeparator
  <2> QED BY <2>5, <2>6 DEF LoadedAsWritten
<1> QED BY RowsInit, RowsStep, <1>1, PTL DEF Spec
=============================================================================

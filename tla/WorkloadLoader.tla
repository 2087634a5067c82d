--------------------------- MODULE WorkloadLoader ---------------------------
(***************************************************************************)
(* load_workload_csv of src/workload_runner.cpp: reads a workload file     *)
(* line by line, then checks that every dependency exists.                 *)
(*                                                                         *)
(* A line is what the program distinguishes in it: nothing but white       *)
(* space, a text that starts with "id,", or the columns of a row.  A       *)
(* number column is the natural std::stoull reads from it, or BadText when *)
(* stoull throws.  Every exception of one row ends the call in the same    *)
(* way, so they are one action.                                            *)
(***************************************************************************)
EXTENDS Naturals, Sequences, FiniteSets

CONSTANTS
    Files,          \* the sequences of lines a file may hold
    Blank, Header,  \* lines that are no rows
    BadText,        \* a text stoull or stoul throws on
    NoText,         \* an empty token
    OtherZero,      \* a token stoull reads as 0 that is not the text "0", as "00"
    U32             \* 2^32, the values of uint32_t

Token == Nat \cup {BadText, NoText, OtherZero}

\* The dependency column: tokens[k] and tokens[k + 1] are separated by
\* separators[k], a bar or a semicolon.  The tokens are trimmed.
DepsColumn ==
    {d \in [tokens : Seq(Token), separators : Seq({"|", ";"})] :
        Len(d.tokens) = Len(d.separators) + 1}

\* cols is the number of columns; op is the text in upper case.
Row == [cols : Nat, id : Nat \cup {BadText}, op : STRING,
        latency : Nat \cup {BadText}, memory_bytes : Nat \cup {BadText},
        deps : DepsColumn]

ASSUME LoaderConstants ==
    /\ U32 \in Nat \ {0, 1}
    /\ {BadText, NoText, OtherZero} \cap Nat = {}
    /\ BadText # NoText /\ OtherZero \notin {BadText, NoText}
    /\ Blank # Header
    /\ Files \subseteq Seq({Blank, Header} \cup Row)

VARIABLES
    file,          \* the lines of the file, never changed
    state,         \* "open", "read", "check", "returned" or "threw"
    line,          \* lines read so far
    first_line, ids, instructions,
    checked,       \* instructions whose dependencies were looked up
    workload_name  \* config->workload_name: "default" or "stem"

vars == <<file, state, line, first_line, ids, instructions, checked, workload_name>>

Init ==
    /\ file \in Files
    /\ state = "open" /\ line = 0 /\ first_line = TRUE
    /\ ids = {} /\ instructions = <<>> /\ checked = 0
    /\ workload_name = "default"
-----------------------------------------------------------------------------
(* The columns of a row.                                                   *)

parse_op_type == [COMPUTE |-> "Compute", LOAD |-> "Load", STORE |-> "Store"]

\* Mutant: the column is always split at semicolons.
Separator_Semicolon(d) == ";"

\* A bar anywhere in the column makes it the separator.
Separator(d) ==
    IF \E k \in DOMAIN d.separators : d.separators[k] = "|" THEN "|" ELSE ";"

\* split: the tokens that start a piece, and whether a token is a whole piece.
Starts(d) ==
    {k \in DOMAIN d.tokens : k = 1 \/ d.separators[k - 1] = Separator(d)}
Whole(d, k) == k = Len(d.tokens) \/ k + 1 \in Starts(d)

\* Pieces that are empty or the text "0" are no dependencies; of a piece that
\* holds the other separator stoull reads the number in front of it.
Read(d) == {k \in Starts(d) : ~(Whole(d, k) /\ d.tokens[k] \in {NoText, 0})}
Number(token) == IF token = OtherZero THEN 0 ELSE token
Deps(row) ==
    IF row.cols < 5 THEN {} ELSE {Number(row.deps.tokens[k]) : k \in Read(row.deps)}

\* Mutant: 0 is kept, as stoul returns it.
Latency_Plain(row) == row.latency % U32

\* static_cast<uint32_t>, and 0 becomes 1.
Latency(row) == IF row.latency % U32 = 0 THEN 1 ELSE row.latency % U32

ParseRow(row) ==
    [id |-> row.id, type |-> parse_op_type[row.op],
     execute_latency |-> Latency(row), deps |-> Deps(row)]

\* Mutant: the texts of the dependencies are not checked.
RowParses_AnyDeps(row) ==
    /\ row.cols >= 4
    /\ row.id # BadText /\ row.id \notin ids
    /\ row.op \in DOMAIN parse_op_type
    /\ row.latency # BadText /\ row.memory_bytes # BadText

\* No statement of the loop body throws.
RowParses(row) ==
    /\ row.cols >= 4
    /\ row.id # BadText /\ row.id \notin ids
    /\ row.op \in DOMAIN parse_op_type
    /\ row.latency # BadText /\ row.memory_bytes # BadText
    /\ Deps(row) \cap {BadText, NoText} = {}
-----------------------------------------------------------------------------
OpenFile ==
    /\ state = "open"
    /\ state' = "read" /\ workload_name' = "stem"
    /\ UNCHANGED <<file, line, first_line, ids, instructions, checked>>

OpenFails ==
    /\ state = "open"
    /\ state' = "threw"
    /\ UNCHANGED <<file, line, first_line, ids, instructions, checked, workload_name>>

NextLine(l) == state = "read" /\ line < Len(file) /\ l = file[line + 1]

SkipBlank ==
    /\ NextLine(Blank)
    /\ line' = line + 1
    /\ UNCHANGED <<file, state, first_line, ids, instructions, checked, workload_name>>

SkipHeader ==
    /\ NextLine(Header) /\ first_line
    /\ line' = line + 1 /\ first_line' = FALSE
    /\ UNCHANGED <<file, state, ids, instructions, checked, workload_name>>

\* Only the first line that is not blank may be a header.
RejectHeader ==
    /\ NextLine(Header) /\ ~first_line
    /\ state' = "threw"
    /\ UNCHANGED <<file, line, first_line, ids, instructions, checked, workload_name>>

AddRow ==
    /\ \E row \in {file[k] : k \in DOMAIN file} \ {Blank, Header} :
        /\ NextLine(row) /\ RowParses(row)
        /\ ids' = ids \cup {row.id}
        /\ instructions' = Append(instructions, ParseRow(row))
    /\ line' = line + 1 /\ first_line' = FALSE
    /\ UNCHANGED <<file, state, checked, workload_name>>

RejectRow ==
    /\ \E row \in {file[k] : k \in DOMAIN file} \ {Blank, Header} :
        NextLine(row) /\ ~RowParses(row)
    /\ state' = "threw"
    /\ UNCHANGED <<file, line, first_line, ids, instructions, checked, workload_name>>

EndOfFile ==
    /\ state = "read" /\ line = Len(file)
    /\ state' = "check"
    /\ UNCHANGED <<file, line, first_line, ids, instructions, checked, workload_name>>

CheckOne ==
    /\ state = "check" /\ checked < Len(instructions)
    /\ instructions[checked + 1].deps \subseteq ids
    /\ checked' = checked + 1
    /\ UNCHANGED <<file, state, line, first_line, ids, instructions, workload_name>>

MissingDependency ==
    /\ state = "check" /\ checked < Len(instructions)
    /\ ~(instructions[checked + 1].deps \subseteq ids)
    /\ state' = "threw"
    /\ UNCHANGED <<file, line, first_line, ids, instructions, checked, workload_name>>

\* Mutant: the loop over the instructions stops before the last one.
ReturnInstructions_OneLess ==
    /\ state = "check" /\ checked + 1 >= Len(instructions)
    /\ state' = "returned"
    /\ UNCHANGED <<file, line, first_line, ids, instructions, checked, workload_name>>

ReturnInstructions ==
    /\ state = "check" /\ checked = Len(instructions)
    /\ state' = "returned"
    /\ UNCHANGED <<file, line, first_line, ids, instructions, checked, workload_name>>

Next ==
    \/ OpenFile \/ OpenFails
    \/ SkipBlank \/ SkipHeader \/ RejectHeader \/ AddRow \/ RejectRow \/ EndOfFile
    \/ CheckOne \/ MissingDependency \/ ReturnInstructions

Spec == Init /\ [][Next]_vars
-----------------------------------------------------------------------------
(* Properties.                                                             *)

\* The types of the locals; no piece of text that is not a number gets past
\* the parsing and into an instruction.
LoaderTypeOK ==
    /\ file \in Seq({Blank, Header} \cup Row)
    /\ state \in {"open", "read", "check", "returned", "threw"}
    /\ line \in 0..Len(file) /\ first_line \in BOOLEAN
    /\ ids \subseteq Nat
    /\ instructions \in Seq([id : Nat, type : {"Compute", "Load", "Store"},
                            execute_latency : 0..(U32 - 1), deps : SUBSET Nat])
    /\ checked \in 0..Len(instructions)

\* What run_workload is handed: ids name instructions uniquely, every
\* dependency is the id of one of them, and no latency is 0, although ids,
\* forward references and the check of them are spread over two loops.
LoadedIsClosed ==
    state = "returned" =>
        /\ \A j, k \in DOMAIN instructions :
              instructions[j].id = instructions[k].id => j = k
        /\ \A k \in DOMAIN instructions :
              /\ instructions[k].execute_latency > 0
              /\ \A d \in instructions[k].deps :
                    \E j \in DOMAIN instructions : instructions[j].id = d

\* A row as the file's author means it: the rows are the lines that are not
\* blank, except for a header in front of them.
TextLines == {k \in DOMAIN file : file[k] # Blank}
DataLines ==
    {k \in TextLines : ~(file[k] = Header /\ \A j \in TextLines : k <= j)}

\* No row is dropped, doubled or reordered: the result has one instruction for
\* each data line, in the order of the lines, whatever blank lines and header
\* the file has; and a dependency list that keeps to one separator, either of
\* the two, is read completely, but for the text "0".
LoadedAsWritten ==
    state = "returned" =>
        /\ Len(instructions) = Cardinality(DataLines)
        /\ \A k \in DataLines :
              LET loaded == instructions[Cardinality({j \in DataLines : j <= k})]
                  d == file[k].deps IN
              /\ loaded.id = file[k].id
              /\ (/\ file[k].cols > 4
                  /\ Cardinality({d.separators[j] : j \in DOMAIN d.separators}) <= 1)
                 => loaded.deps =
                      {Number(t) : t \in {d.tokens[j] : j \in DOMAIN d.tokens} \ {NoText, 0}}
=============================================================================

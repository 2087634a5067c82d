--------------------------- MODULE StorageDatapath --------------------------
(***************************************************************************)
(* The storage datapath program: parse_workload_csv, Simulator::run and    *)
(* Simulator::summarize of storage_datapath.cpp, called in this order by   *)
(* main of storage_datapath_cli.cpp.                                       *)
(*                                                                         *)
(* Times are naturals in half microseconds and sizes in units of 2048      *)
(* bytes, so that the default bandwidth of 4096 bytes per microsecond      *)
(* moves one unit per half microsecond.  Rates and percentiles are exact   *)
(* fractions: percentiles are given in hundredths of the time unit.        *)
(***************************************************************************)
EXTENDS Naturals, Sequences, FiniteSets, SequencesExt

CONSTANTS
    Files,          \* the sequences of lines a file may hold
    Configs,        \* the Config values a Simulator may be built with
    Blank, Header,  \* lines that are no rows
    BadText,        \* a text std::stoull throws on
    SizeT           \* 2^64, the values of size_t

\* The texts of a row; block is only parsed.
Row == [id : Nat \cup {BadText}, operation : STRING, block : Nat \cup {BadText},
        size : Nat \cup {BadText}, cache_hit : STRING]

Config == [max_queue_depth : Nat, cache_hit_latency : Nat, cache_miss_latency : Nat,
           write_base_latency : Nat, queue_penalty : Nat]

ASSUME StorageConstants ==
    /\ Files \subseteq Seq({Blank, Header} \cup Row)
    /\ Configs \subseteq Config
    /\ Blank # Header
    /\ SizeT \in Nat \ {0}
    /\ \A c \in Configs : c.max_queue_depth < SizeT

VARIABLES
    file, config,
    state,      \* "open", "parse", "run", "summarize", "exit0" or "exit1"
    line, first, requests,
    results, virtual_time, completion_time,
    summary     \* what main prints, a sequence that is empty before

vars == <<file, config, state, line, first, requests, results, virtual_time,
          completion_time, summary>>
parsing == <<line, first, requests>>
running == <<results, virtual_time, completion_time>>

Init ==
    /\ file \in Files /\ config \in Configs
    /\ state = "open" /\ line = 0 /\ first = TRUE
    /\ requests = <<>> /\ results = <<>>
    /\ virtual_time = 0 /\ completion_time = 0 /\ summary = <<>>
-----------------------------------------------------------------------------
(* parse_workload_csv.                                                     *)

OpenFile ==
    /\ state = "open"
    /\ state' = "parse"
    /\ UNCHANGED <<file, config, parsing, running, summary>>

OpenFails ==
    /\ state = "open"
    /\ state' = "exit1"
    /\ UNCHANGED <<file, config, parsing, running, summary>>

NextLine == file[line + 1]
Reading == state = "parse" /\ line < Len(file)

SkipBlank ==
    /\ Reading /\ NextLine = Blank
    /\ line' = line + 1
    /\ UNCHANGED <<file, config, state, first, requests, running, summary>>

SkipHeader ==
    /\ Reading /\ NextLine = Header /\ first
    /\ line' = line + 1 /\ first' = FALSE
    /\ UNCHANGED <<file, config, state, requests, running, summary>>

RowParses(row) == BadText \notin {row.id, row.block, row.size}

\* Any operation but "read" is a write, any hit text but "true" a miss.
ParseRow(row) ==
    [id |-> row.id,
     operation |-> IF row.operation = "read" THEN "Read" ELSE "Write",
     size |-> row.size, cache_hit |-> row.cache_hit = "true"]

\* Mutant: the flag is cleared by data rows only after the row was dropped.
AddRow_DropsFirst ==
    /\ Reading /\ NextLine \notin {Blank, Header} /\ RowParses(NextLine)
    /\ requests' = IF first THEN requests ELSE Append(requests, ParseRow(NextLine))
    /\ line' = line + 1 /\ first' = FALSE
    /\ UNCHANGED <<file, config, state, running, summary>>

AddRow ==
    /\ Reading /\ NextLine \notin {Blank, Header} /\ RowParses(NextLine)
    /\ requests' = Append(requests, ParseRow(NextLine))
    /\ line' = line + 1 /\ first' = FALSE
    /\ UNCHANGED <<file, config, state, running, summary>>

\* stoull throws, on a later header too; main prints the error.
RejectRow ==
    /\ Reading /\ NextLine # Blank
    /\ IF NextLine = Header THEN ~first ELSE ~RowParses(NextLine)
    /\ state' = "exit1"
    /\ UNCHANGED <<file, config, parsing, running, summary>>

EndOfFile ==
    /\ state = "parse" /\ line = Len(file)
    /\ state' = "run"
    /\ UNCHANGED <<file, config, parsing, running, summary>>
-----------------------------------------------------------------------------
(* Simulator::run.                                                         *)

service_latency(request) ==
    request.size +
    IF request.operation = "Read"
    THEN IF request.cache_hit THEN config.cache_hit_latency
                              ELSE config.cache_miss_latency
    ELSE config.write_base_latency

\* i is the source's i + 1.
QueueDepth(i) == Min({i, config.max_queue_depth})

\* queue_depth - 1 is a size_t and wraps when the depth is 0.
QueueDelay(depth) == ((depth + SizeT - 1) % SizeT) * config.queue_penalty

\* Mutant: the clock jumps to the arrival when the device is busy.
Completion_Arrival(total) == (virtual_time + 2) + total

Completion(total) == Max({completion_time, virtual_time + 2}) + total

RunOne ==
    /\ state = "run" /\ Len(results) < Len(requests)
    /\ LET i       == Len(results) + 1
           depth   == QueueDepth(i)
           delay   == QueueDelay(depth)
           service == service_latency(requests[i]) IN
       /\ completion_time' = Completion(delay + service)
       /\ results' = Append(results,
             [id |-> requests[i].id, queue_delay |-> delay,
              service_latency |-> service, total_latency |-> delay + service,
              queue_depth |-> depth, cache_hit |-> requests[i].cache_hit])
    /\ virtual_time' = virtual_time + 2
    /\ UNCHANGED <<file, config, state, parsing, summary>>

RunEnd ==
    /\ state = "run" /\ Len(results) = Len(requests)
    /\ state' = "summarize"
    /\ UNCHANGED <<file, config, parsing, running, summary>>
-----------------------------------------------------------------------------
(* Simulator::summarize.                                                   *)

Count(s, Test(_)) == Quantify(DOMAIN s, LAMBDA k : Test(s[k]))

\* std::sort: each value is at the place that the number of smaller ones, and of
\* equal ones up to it, tells.
PlaceOf(values, k) ==
    Cardinality({j \in DOMAIN values : \/ values[j] < values[k]
                                       \/ values[j] = values[k] /\ j <= k})
Sorted(values) ==
    [i \in DOMAIN values |-> values[CHOOSE k \in DOMAIN values : PlaceOf(values, k) = i]]

\* Mutant: the weights of the two neighbours are swapped.
percentile_Swapped(values, p) ==
    IF values = <<>> THEN 0
    ELSE LET sorted == Sorted(values)
             index  == p * (Len(values) - 1)
             lower  == index \div 100
             weight == index % 100 IN
         IF weight = 0 THEN 100 * sorted[lower + 1]
         ELSE sorted[lower + 1] * weight + sorted[lower + 2] * (100 - weight)

\* In hundredths; p is in percent.
percentile(values, p) ==
    IF values = <<>> THEN 0
    ELSE LET sorted == Sorted(values)
             index  == p * (Len(values) - 1)
             lower  == index \div 100
             weight == index % 100 IN
         IF weight = 0 THEN 100 * sorted[lower + 1]
         ELSE sorted[lower + 1] * (100 - weight) + sorted[lower + 2] * weight

\* Mutant: > where the source has >=.
QueuePressure_Strict(n) ==
    5 * Count(results, LAMBDA r : r.queue_depth >= config.max_queue_depth) > 2 * n

\* queue_rate >= 0.40
QueuePressure(n) ==
    5 * Count(results, LAMBDA r : r.queue_depth >= config.max_queue_depth) >= 2 * n

classify_bottleneck ==
    LET n == Len(requests) IN
    IF n = 0 THEN "none"
    ELSE IF QueuePressure(n) THEN "queue_depth_pressure"
    ELSE IF 2 * Count(requests, LAMBDA r : ~r.cache_hit) >= n THEN "cache_miss_pressure"
    ELSE IF 5 * Count(requests, LAMBDA r : r.size >= 8) >= 2 * n
         THEN "memory_bandwidth_pressure"
    ELSE "balanced"

\* The sum of a sequence, as the size of a disjoint union.
Total(values) == Cardinality(UNION {{k} \X (1..values[k]) : k \in DOMAIN values})

Latencies == [k \in DOMAIN results |-> results[k].total_latency]

Summary ==
    [total_requests |-> Len(requests),
     read_requests |-> Count(requests, LAMBDA r : r.operation = "Read"),
     write_requests |-> Count(requests, LAMBDA r : r.operation # "Read"),
     cache_hits |-> Count(requests, LAMBDA r : r.cache_hit),
     cache_misses |-> Count(requests, LAMBDA r : ~r.cache_hit),
     max_observed_queue_depth |->
        Max({0} \cup {results[k].queue_depth : k \in DOMAIN results}),
     total_runtime |-> Total(Latencies),
     p50 |-> percentile(Latencies, 50), p95 |-> percentile(Latencies, 95),
     p99 |-> percentile(Latencies, 99),
     bottleneck |-> classify_bottleneck]

Summarize ==
    /\ state = "summarize"
    /\ summary' = <<Summary>>
    /\ state' = "exit0"
    /\ UNCHANGED <<file, config, parsing, running>>

Next ==
    \/ OpenFile \/ OpenFails \/ SkipBlank \/ SkipHeader \/ AddRow \/ RejectRow
    \/ EndOfFile \/ RunOne \/ RunEnd \/ Summarize

Spec == Init /\ [][Next]_vars
-----------------------------------------------------------------------------
(* Properties.                                                             *)

TextLines == {k \in DOMAIN file : file[k] # Blank}
DataLines ==
    {k \in TextLines : ~(file[k] = Header /\ \A j \in TextLines : k <= j)}

\* A printed summary accounts for every data row of the file once, as a read
\* or a write and as a hit or a miss; nothing is printed for a file with a row
\* that does not parse, however many good rows come before it.
AllRowsCounted ==
    summary # <<>> =>
        LET s == summary[1] IN
        /\ \A k \in DataLines : file[k] # Header /\ RowParses(file[k])
        /\ s.total_requests = Cardinality(DataLines)
        /\ s.read_requests + s.write_requests = s.total_requests
        /\ s.cache_hits + s.cache_misses = s.total_requests
        /\ s.read_requests = Cardinality({k \in DataLines : file[k].operation = "read"})
        /\ s.cache_hits = Cardinality({k \in DataLines : file[k].cache_hit = "true"})
        /\ Len(results) = s.total_requests

\* The interpolated percentiles are ordered and within the observed latencies,
\* and as many values as the rank asks for are not above them.
PercentilesSound ==
    (summary # <<>> /\ results # <<>>) =>
        LET s == summary[1]
            NotAbove(v) == Cardinality({k \in DOMAIN results :
                                           100 * results[k].total_latency <= v}) IN
        /\ s.p50 <= s.p95 /\ s.p95 <= s.p99
        /\ \E k \in DOMAIN results : s.p99 <= 100 * results[k].total_latency
        /\ 2 * NotAbove(s.p50) >= Len(results)
        /\ 100 * NotAbove(s.p95) > 95 * (Len(results) - 1)

\* Whether queue_depth_pressure is reported depends on the number of requests
\* and on max_queue_depth alone: from 5 requests for every 3 places beyond the
\* first, every workload is reported as limited by the queue.
SaturationRule ==
    (summary # <<>> /\ requests # <<>>) =>
        LET n == Len(requests)
            d == Max({config.max_queue_depth, 1}) IN
        (summary[1].bottleneck = "queue_depth_pressure")
            <=> (n >= d /\ 3 * n >= 5 * (d - 1))

\* The throughput is computed from the sum of the latencies; this is the time
\* the device's own clock ran since the first arrival, so idle time is never
\* counted as work (no latency is below the arrival interval).
RuntimeIsBusyTime ==
    (summary # <<>> /\ results # <<>>
       /\ \A k \in DOMAIN results : results[k].total_latency >= 2)
        => completion_time = summary[1].total_runtime + 2
=============================================================================

----------------------------- MODULE MCPipeline -----------------------------
(***************************************************************************)
(* Small instances of Pipeline: every program of up to three instructions  *)
(* over two resources, latency 0 included, dependencies of every kind, and *)
(* configurations in which each width, unit, port and capacity is the      *)
(* bottleneck in turn, or zero.                                            *)
(***************************************************************************)
EXTENDS Pipeline

Config(w, issue, units, ports, dcap, rcap) ==
    [fetch_width |-> w, decode_width |-> w, dispatch_width |-> w,
     issue_width |-> issue, compute_units |-> units, memory_ports |-> ports,
     dispatch_queue_capacity |-> dcap, ready_queue_capacity |-> rcap]

\* Ids differ from positions, as in the workload files.
Id(p) == 10 + p

Instr(p, types, latencies, deps) ==
    [id : {Id(p)}, type : types, execute_latency : latencies,
     deps : SUBSET {Id(d) : d \in deps}]

\* Dependencies on earlier instructions only, as in the workload files.
TwoBackward(types, latencies) ==
    {<<a, b>> : a \in Instr(1, types, latencies, {}),
                b \in Instr(2, types, latencies, {1})}
ThreeBackward(types, latencies) ==
    {Append(ab, c) : ab \in TwoBackward(types, latencies),
                     c \in Instr(3, types, latencies, {1, 2})}

\* Dependencies in any direction, on itself and on an id that is not there.
TwoAnyDeps ==
    {<<a, b>> : a \in Instr(1, {"Store"}, {2}, {1, 2, 3}),
                b \in Instr(2, {"Store"}, {2}, {1, 2, 3})}

\* Dependencies of three instructions on each other in any direction.
ThreeAnyDeps ==
    {<<a, b, c>> : a \in Instr(1, {"Compute"}, {1}, {2, 3}),
                   b \in Instr(2, {"Load"}, {1}, {1, 3}),
                   c \in Instr(3, {"Compute"}, {1}, {1, 2})}

MCPrograms ==
    {<<>>} \cup TwoBackward({"Compute", "Load"}, {0, 1, 3})
        \cup ThreeBackward({"Compute", "Load"}, {0, 2})
        \cup TwoAnyDeps \cup ThreeAnyDeps

\* In the last six one width, unit, port or capacity is zero.
MCConfigs ==
    {Config(1, 1, 1, 1, 1, 1), Config(2, 1, 2, 1, 2, 1),
     Config(3, 3, 1, 1, 3, 3), Config(3, 2, 2, 2, 2, 3),
     Config(3, 1, 2, 2, 3, 3),
     Config(1, 1, 1, 0, 1, 1), Config(2, 2, 0, 1, 1, 2), Config(2, 0, 1, 1, 2, 2),
     Config(2, 1, 1, 1, 2, 0), Config(2, 1, 1, 1, 0, 2), Config(0, 1, 1, 1, 1, 1)}
=============================================================================

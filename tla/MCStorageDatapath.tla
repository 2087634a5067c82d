-------------------------- MODULE MCStorageDatapath -------------------------
(***************************************************************************)
(* Files of up to five lines and queues of depth 0, 2 and 4.  The times    *)
(* are those of Config's default values, in half microseconds.             *)
(***************************************************************************)
EXTENDS StorageDatapath

MCRow(size, operation, hit) ==
    [id |-> 1, operation |-> operation, block |-> 0, size |-> size, cache_hit |-> hit]

Rows == {MCRow(2, "read", "true"), MCRow(2, "read", "false"), MCRow(8, "write", "true"),
         MCRow(8, "READ", "TRUE"), MCRow(BadText, "read", "true")}

MCFiles == BoundedSeq(Rows \cup {Blank, Header}, 5)

MCConfigs ==
    {[max_queue_depth |-> depth, cache_hit_latency |-> 4, cache_miss_latency |-> 36,
      write_base_latency |-> 24, queue_penalty |-> 3] : depth \in {0, 2, 4}}
=============================================================================

--------------------------- MODULE LoggerService ---------------------------
(***************************************************************************)
(* The logger service of services/logger/logger_service.c: one buffer per  *)
(* level, filled by logger_service_process_message with the entries that   *)
(* arrive over publish/subscribe, and the status that                      *)
(* logger_service_get_status saves for logger_service_get_last_status.     *)
(*                                                                         *)
(* Nothing ever takes an entry out of a buffer, so that read_index stays 0 *)
(* and write_index follows entry_count: a buffer is its capacity and the   *)
(* sequence of its entries.  A stored entry is the number of its arrival.  *)
(* The service checks its own copy of an entry against a checksum it has   *)
(* just computed from that copy, so that the check cannot fail.            *)
(* A message of the wrong size changes nothing and is left out.            *)
(* since and refused are history variables.                                *)
(***************************************************************************)
EXTENDS LogEntry, Sequences, FiniteSetsExt, Functions

CONSTANTS
  ServiceLevelCount,  \* LOGGER_SERVICE_LEVEL_COUNT
  Capacity            \* LOGGER_SERVICE_BUFFER_CAPACITY

ASSUME ServiceAssumption ==
  ServiceLevelCount \in Nat \ {0} /\ Capacity \in Nat \ {0}

Level == 0 .. ServiceLevelCount - 1

VARIABLES
  buffers,       \* g_level_buffers
  running,       \* g_logger_service.service_running
  last_status,   \* g_last_status
  arrivals,      \* messages processed so far
  since,         \* the value of arrivals at the last ServiceInit
  refused        \* the messages for which an error was returned

serviceVars == <<buffers, running, last_status, arrivals, since, refused>>

ServiceTypeOK ==
  /\ buffers \in [Level -> [size : {0, Capacity}, entries : Seq(Nat)]]
  /\ \A l \in Level : Len(buffers[l].entries) <= buffers[l].size
  /\ running \in BOOLEAN
  /\ last_status \in [entry_count : 0 .. ServiceLevelCount * Capacity,
                      dropped_count : {0}]
  /\ arrivals \in Nat
  /\ since \in 0 .. arrivals
  /\ refused \subseteq 1 .. arrivals
-----------------------------------------------------------------------------
\* A faulty buffer that writes over its latest entry when it is full.
PutReplacesLast(b, n) ==
  IF Len(b.entries) < b.size THEN [b EXCEPT !.entries = Append(@, n)]
  ELSE IF b.size = 0 THEN b ELSE [b EXCEPT !.entries = [@ EXCEPT ![b.size] = n]]

\* A faulty buffer that accepts one entry too many.
PutOneMore(b, n) ==
  IF Len(b.entries) > b.size THEN b ELSE [b EXCEPT !.entries = Append(@, n)]

\* logger_service_buffer_put
Put(b, n) ==
  IF Len(b.entries) >= b.size THEN b ELSE [b EXCEPT !.entries = Append(@, n)]

TotalEntries == SumFunction([l \in Level |-> Len(buffers[l].entries)])
-----------------------------------------------------------------------------
\* The static buffers have capacity zero until the service sets them up.
ServiceInit ==
  /\ buffers = [l \in Level |-> [size |-> 0, entries |-> << >>]]
  /\ running = FALSE
  /\ last_status = [entry_count |-> 0, dropped_count |-> 0]
  /\ arrivals = 0
  /\ since = 0
  /\ refused = {}

\* logger_service_init; the registration with the kernel may fail, and the
\* service runs only if it does not.  g_last_status keeps its value.
InitService ==
  /\ buffers' = [l \in Level |-> [size |-> Capacity, entries |-> << >>]]
  /\ running' \in BOOLEAN
  /\ since' = arrivals
  /\ UNCHANGED <<last_status, arrivals, refused>>

\* A faulty service that trusts its own checksum of its own copy.
ProcessTrusting(e) ==
  /\ arrivals' = arrivals + 1
  /\ buffers' = IF e.level \in Level
                THEN [buffers EXCEPT ![e.level] = Put(@, arrivals + 1)]
                ELSE buffers
  /\ UNCHANGED <<running, last_status, since, refused>>

\* logger_service_process_message with an entry: it succeeds whether or not
\* the entry is stored, and it does not ask whether the service is running.
Process(e) ==
  /\ arrivals' = arrivals + 1
  /\ IF VerifyIntegrity(e)
     THEN /\ buffers' = IF e.level \in Level
                        THEN [buffers EXCEPT ![e.level] = Put(@, arrivals + 1)]
                        ELSE buffers
          /\ UNCHANGED refused
     ELSE /\ refused' = refused \cup {arrivals + 1}
          /\ UNCHANGED buffers
  /\ UNCHANGED <<running, last_status, since>>

\* logger_service_get_status
GetStatus ==
  /\ running
  /\ last_status' = [entry_count |-> TotalEntries, dropped_count |-> 0]
  /\ UNCHANGED <<buffers, running, arrivals, since, refused>>
=============================================================================

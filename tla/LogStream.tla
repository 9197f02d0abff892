----------------------------- MODULE LogStream -----------------------------
(***************************************************************************)
(* A stream of binary log entries and its two readers.  log_create_entry   *)
(* makes the entries; the logger service receives them as messages, and    *)
(* the log parser reads them from a file, as tests/binary_log_generator.c  *)
(* writes it.  Both readers check the entries with code of their own, and  *)
(* here both get the same bytes, so that their verdicts can be compared.   *)
(*                                                                         *)
(* On its way an entry may be damaged, before either reader has it: one of *)
(* its bytes is changed, or two of them change places.  original is a      *)
(* history variable: the entries as they were created.                     *)
(***************************************************************************)
EXTENDS LoggerService, LogParser

CONSTANTS
  Request,       \* the parameters with which log_create_entry is called
  DamagedByte,   \* the values a damaged byte may take
  MaxEntries,    \* bound on the entries
  MaxDamages     \* bound on the damaged entries

ASSUME StreamAssumption ==
  /\ Request \subseteq [level : Byte, tag_id : Byte, message_id : Byte, data : Byte]
  /\ DamagedByte \subseteq Byte
  /\ MaxEntries \in Nat /\ MaxDamages \in Nat

VARIABLES
  original,   \* the entries created so far
  stream      \* the same entries as the readers get them

vars == <<original, stream, serviceVars, parserVars>>

\* The fields of entry i in which it is not what was created.
Altered(i) ==
  {f \in Field \cup {"checksum"} : stream[i][f] # original[i][f]}

Damages == Cardinality({i \in DOMAIN stream : stream[i] # original[i]})
-----------------------------------------------------------------------------
Init ==
  /\ original = << >>
  /\ stream = << >>
  /\ ServiceInit
  /\ ParserInit

\* log_create_entry; a request out of range creates nothing.
CreateEntry(r) ==
  /\ Len(stream) < MaxEntries
  /\ InRange(r.level, r.tag_id, r.message_id)
  /\ LET e == Created(r.level, r.tag_id, r.message_id, r.data)
     IN  original' = Append(original, e) /\ stream' = Append(stream, e)
  /\ UNCHANGED <<serviceVars, parserVars>>

\* Entry i is still untouched and on its way to both readers.
Underway(i) ==
  /\ i > arrivals /\ i > position
  /\ stream[i] = original[i]
  /\ Damages < MaxDamages

\* One byte of entry i is changed; of the checksum, the lower one.
ChangeByte(i, f, v) ==
  /\ Underway(i)
  /\ stream' = [stream EXCEPT ![i][f] =
                  IF f = "checksum" THEN @ - (@ % 256) + v ELSE v]
  /\ UNCHANGED <<original, serviceVars, parserVars>>

\* Two bytes of entry i change places.
SwapBytes(i, f, g) ==
  /\ Underway(i)
  /\ stream' = [stream EXCEPT ![i][f] = stream[i][g], ![i][g] = stream[i][f]]
  /\ UNCHANGED <<original, serviceVars, parserVars>>

Service ==
  /\ \/ InitService
     \/ arrivals < Len(stream) /\ Process(stream[arrivals + 1])
     \/ GetStatus
  /\ UNCHANGED <<original, stream, parserVars>>

Parser ==
  /\ \/ GiveUp
     \/ Open
     \/ position < Len(stream) /\ ReadEntry(stream[position + 1])
     \/ position = Len(stream) /\ Finish
  /\ UNCHANGED <<original, stream, serviceVars>>

Next ==
  \/ \E r \in Request : CreateEntry(r)
  \/ \E i \in DOMAIN stream, f \in Field \cup {"checksum"}, v \in DamagedByte :
       ChangeByte(i, f, v)
  \/ \E i \in DOMAIN stream, f, g \in Field : SwapBytes(i, f, g)
  \/ Service
  \/ Parser

Spec == Init /\ [][Next]_vars
-----------------------------------------------------------------------------
\* One type invariant.
TypeOK ==
  /\ original \in Seq(Entry) /\ stream \in Seq(Entry)
  /\ Len(original) = Len(stream)
  /\ ServiceTypeOK /\ arrivals <= Len(stream)
  /\ ParserTypeOK /\ position <= Len(stream)

Stored == UNION {Range(buffers[l].entries) : l \in Level}
Printed == {printed[i].entry : i \in DOMAIN printed}

\* The sound entries of level l that arrived since the buffers were set up.
SoundSince(l) ==
  {n \in since + 1 .. arrivals :
     VerifyIntegrity(stream[n]) /\ stream[n].level = l}

(* Whatever arrives on the other levels, and also when damaged entries     *)
(* come in between, a level keeps sound entries of its own only, in the    *)
(* order of their arrival and each once; it loses one only for want of     *)
(* room, and never from between two that it keeps                          *)
(* (logger_service.c:127-141, 307, 340).                                   *)
KeptWithoutGaps ==
  \A l \in Level :
    LET kept == buffers[l].entries
    IN  /\ \A i, j \in DOMAIN kept : i < j => kept[i] < kept[j]
        /\ Range(kept) \subseteq SoundSince(l)
        /\ \A n \in SoundSince(l) \ Range(kept) :
             /\ Len(kept) = buffers[l].size
             /\ \/ \A m \in Range(kept) : m < n
                \/ \A m \in Range(kept) : m > n

\* LOG_LEVEL_INFO, the level L2 of the documents.
Info == 2

(* docs/architecture.md:491 and 510 promise circular storage of the most   *)
(* recent entries of level L2: once the buffers are set up, the latest     *)
(* sound one is stored (logger_service.c:132).                             *)
RecentInfoKept ==
  \A n \in SoundSince(Info) :
    (\A m \in SoundSince(Info) : m <= n) =>
      buffers[Info].size = 0 \/ n \in Range(buffers[Info].entries)

(* An entry of which one byte was changed after its creation gets nowhere: *)
(* the service does not store it and the parser does not print it          *)
(* (log_core.c:402, logger_service.c:307, log_parser.c:208).  Two bytes    *)
(* that change places are not noticed, since the checksum is a sum.        *)
OneByteDetected ==
  \A i \in DOMAIN stream :
    Cardinality(Altered(i)) = 1 => i \notin Stored \cup Printed

(* What log_create_entry makes, the parser accepts: as long as it has read *)
(* only undamaged entries, all of them are valid, none is corrupted and    *)
(* none has an unknown tag (log_core.c:575-577, log_parser.c:214-220).     *)
CreatedAccepted ==
  (\A i \in 1 .. position : Altered(i) = {}) =>
    stats = [total |-> position, valid |-> position, corrupted |-> 0, unknown |-> 0]

(* The two readers agree on what is corrupted although each has a checksum *)
(* loop of its own: once the service has seen what the parser has read,    *)
(* the parser's count is the number of entries the service refused         *)
(* (log_parser.c:200-211, log_core.c:424).                                 *)
SameVerdict ==
  position <= arrivals =>
    stats.corrupted = Cardinality(refused \cap 1 .. position)

(* The parser prints entries in the order of the file and each once, and   *)
(* only entries that verify and have a known level.  With accepted filters *)
(* it prints none of another tag than theirs, and it prints every valid    *)
(* entry that has the tag and the very level of one of them, whichever of  *)
(* them that is (log_parser.c:208-216, 611-621; main.c:185).               *)
OutputRespectsFilters ==
  LET asked == Range(options.filters)
      valid == {n \in 1 .. position :
                  VerifyIntegrity(stream[n]) /\ stream[n].level < LevelCount}
  IN  /\ \A i, j \in DOMAIN printed : i < j => printed[i].entry < printed[j].entry
      /\ Printed \subseteq valid
      /\ asked # {} =>
           \A n \in valid :
             /\ n \in Printed => \E f \in asked : stream[n].tag_id = f.tag_id
             /\ (\E f \in asked : /\ stream[n].tag_id = f.tag_id
                                  /\ stream[n].level = f.min_level)
                  => n \in Printed
=============================================================================

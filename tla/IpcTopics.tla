----------------------------- MODULE IpcTopics -----------------------------
(***************************************************************************)
(* The names of topics (lib/libipc/ipc_topics.c).                          *)
(*                                                                         *)
(* A name is the sequence of its segments between slashes, so that a       *)
(* leading, trailing or double slash is an empty segment, and the empty    *)
(* name is one empty segment.  A C string that is a null pointer is        *)
(* NoTopic.  The length of a name matters at its limit only, by the two    *)
(* sets of constants.  ipc_parse_topic is a placeholder that returns false.*)
(***************************************************************************)
EXTENDS Integers, Sequences

CONSTANTS
  LongTopic,        \* names of MAX_TOPIC_LENGTH characters
  OverlongTopic     \* longer names

NoTopic == << >>
EmptyTopic == <<"">>

\* TOPIC_BASE_STRINGS, in the order of ipc_topic_category_t, from 0
BaseString == <<"vision", "vehicle", "ai", "system", "safety",
                "communication", "diagnostics", "power">>
\* TOPIC_SYSTEM_STRINGS and TOPIC_LOGGING_STRINGS
SystemString == <<"monitor", "diagnostic", "logging", "power">>
LoggingString == <<"emergency", "error", "info", "debug">>

CategoryCount == Len(BaseString)
SystemCount == Len(SystemString)
LoggingCount == Len(LoggingString)

\* IPC_TOPIC_CATEGORY_SYSTEM and IPC_TOPIC_SYSTEM_LOGGING
System == 3
Logging == 2

\* RESERVED_NAMESPACES; validation skips "system".
Reserved == {"system", "kernel", "safety"}

\* PREDEFINED_TOPICS
Predefined ==
  {<<"system", "logging", l>> : l \in {"emergency", "error", "info", "debug"}}
  \cup {<<"system", s, "status">> : s \in {"monitor", "diagnostic", "power"}}
  \cup {<<"system", "watchdog", w>> : w \in {"status", "event", "heartbeat"}}
  \cup {<<"safety", "status", "overall">>, <<"vehicle", "control", "command">>,
        <<"vision", "camera", "frame">>, <<"ai", "inference", "result">>,
        <<"communication", "can", "message">>}
-----------------------------------------------------------------------------
WellFormed(topic) ==
  Len(topic) = 3 /\ \A i \in 1 .. 3 : topic[i] # ""

\* ipc_validate_topic
Validate(topic) ==
  IF topic = EmptyTopic \/ topic \in OverlongTopic THEN "LENGTH_EXCEEDED"
  ELSE IF ~WellFormed(topic) THEN "INVALID_FORMAT"
  ELSE IF topic[1] \in Reserved \ {"system"} THEN "RESERVED_NAMESPACE"
  ELSE "VALID"

\* The last two segments of the only topic built for the other categories.
FixedString == <<
  <<"camera", "frame">>, <<"control", "command">>, <<"inference", "result">>,
  << >>, <<"status", "overall">>, <<"can", "message">>,
  <<"status", "overall">>, <<"status", "overall">> >>

\* A faulty text for which a system type takes the next type's name.
TopicTextShifted(category, system, logging) ==
  IF category # System
  THEN <<BaseString[category + 1]>> \o FixedString[category + 1]
  ELSE <<BaseString[category + 1], SystemString[((system + 1) % SystemCount) + 1],
         IF system = Logging THEN LoggingString[logging + 1] ELSE "status">>

\* What ipc_build_topic writes into its buffer for parameters in range
TopicText(category, system, logging) ==
  IF category # System
  THEN <<BaseString[category + 1]>> \o FixedString[category + 1]
  ELSE <<BaseString[category + 1], SystemString[system + 1],
         IF system = Logging THEN LoggingString[logging + 1] ELSE "status">>

\* ipc_build_topic refuses parameters it uses only.
InTables(category, system, logging) ==
  /\ category < CategoryCount
  /\ category = System =>
       system < SystemCount /\ (system = Logging => logging < LoggingCount)

\* The buffer of ipc_build_topic after the call: cleared, and written unless
\* the parameters are refused.
Buffered(category, system, logging) ==
  IF InTables(category, system, logging)
  THEN TopicText(category, system, logging) ELSE EmptyTopic

\* ipc_build_topic: what it returns
Build(category, system, logging) ==
  LET topic == Buffered(category, system, logging)
  IN  IF Validate(topic) = "VALID" THEN topic ELSE NoTopic

\* ipc_get_topic_category of a name with a slash
TopicCategory(topic) ==
  IF \E c \in 1 .. CategoryCount : BaseString[c] = topic[1]
  THEN (CHOOSE c \in 1 .. CategoryCount : BaseString[c] = topic[1]) - 1
  ELSE CategoryCount
=============================================================================

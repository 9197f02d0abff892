------------------------------ MODULE LogEntry ------------------------------
(***************************************************************************)
(* One binary log entry (lib/logging/log_common.h, log_core.c): the range  *)
(* checks of its creation and its additive checksum.                       *)
(*                                                                         *)
(* The fields of an entry are bytes.  data stands for the bytes that no    *)
(* reader interprets (time stamp, process, payload, the high byte of the   *)
(* message number, which is 0 in every predefined message); the checksum   *)
(* has 16 bits.                                                            *)
(***************************************************************************)
EXTENDS Naturals

CONSTANTS
  LevelCount,     \* LOG_LEVEL_COUNT
  TagCount,       \* LOG_TAG_COUNT
  MessageCount,   \* LOG_MSG_COUNT
  ChecksumMod     \* 2^16, the range of the checksum field

Byte == 0 .. 255

ASSUME EntryAssumption ==
  /\ LevelCount \in Byte \ {0}
  /\ TagCount \in Byte \ {0}
  /\ MessageCount \in Byte \ {0}
  /\ ChecksumMod \in Nat /\ ChecksumMod > 4 * 255 /\ ChecksumMod % 256 = 0

Field == {"level", "tag_id", "message_id", "data"}

Entry == [level : Byte, tag_id : Byte, message_id : Byte, data : Byte,
          checksum : 0 .. ChecksumMod - 1]
-----------------------------------------------------------------------------
\* log_calculate_checksum
Checksum(e) == (e.level + e.tag_id + e.message_id + e.data) % ChecksumMod

\* log_verify_entry_integrity_safe
VerifyIntegrity(e) == e.checksum = Checksum(e)

\* A faulty parameter check that forgets the tag.
InRangeNoTag(level, tag_id, message_id) ==
  level < LevelCount /\ message_id < MessageCount

\* LOG_SAFETY_CHECK_LEVEL, _TAG and _MESSAGE_ID
InRange(level, tag_id, message_id) ==
  level < LevelCount /\ tag_id < TagCount /\ message_id < MessageCount

\* log_create_entry with parameters in range.
Created(level, tag_id, message_id, data) ==
  LET new_entry == [level |-> level, tag_id |-> tag_id,
                    message_id |-> message_id, data |-> data, checksum |-> 0]
  IN  [new_entry EXCEPT !.checksum = Checksum(new_entry)]
=============================================================================

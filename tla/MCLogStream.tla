---------------------------- MODULE MCLogStream ----------------------------
(***************************************************************************)
(* The instance of LogStream that TLC checks: the counts of log_common.h,  *)
(* the requests and command lines below, and room for two filters instead  *)
(* of 16.                                                                  *)
(***************************************************************************)
EXTENDS LogStream

\* Two requests in range, and one beyond it in each parameter.
MCRequest ==
  {[level |-> r[1], tag_id |-> r[2], message_id |-> r[3], data |-> 9] :
     r \in {<<1, 4, 2>>, <<3, 8, 2>>, <<4, 4, 2>>, <<1, 9, 2>>, <<1, 4, 18>>}}

\* One request of the level INFO.
MCInfoRequest ==
  {[level |-> 2, tag_id |-> 5, message_id |-> 2, data |-> 9]}

Name == [option |-> "name"]
Filter(t, l) == [option |-> "module", value |-> [tag |-> t, level |-> l]]

\* The defaults, a format without output, colours, filters that are accepted,
\* refused (as in the help text) and too many, and lines that end at once.
MCCommandLine ==
  { <<Name, Name>>,
    <<Name, Name, [option |-> "format", value |-> "json"]>>,
    <<Name, Name, [option |-> "color", value |-> "never"], Filter("CAN", "INFO")>>,
    <<[option |-> "style", value |-> "minimal"], Filter("DRIVER_CAN", "INFO"),
      Filter("APPLICATION", "DEBUG"), Name, Name>>,
    <<Filter("DRIVER_CAN", "ERROR"), Filter("SYSTEM", "DEBUG"),
      Filter("APPLICATION", "DEBUG"), Name>>,
    <<[option |-> "verbose"], Name, [option |-> "help"], Name>> }

Pair(i, t) == [kind |-> "pair", id |-> i, text |-> t]

\* Excerpts of tags.db and formats.db, with a line that does not scan.
MCTagFile ==
  <<[kind |-> "comment"], Pair(0, "SYSTEM"), Pair(1, "KERNEL"),
    Pair(4, "SERVICE_AI"), [kind |-> "bad"], Pair(4, "DRIVER_CAN")>>
MCFormatFile == <<[kind |-> "comment"], Pair(2, "Service ready")>>
=============================================================================

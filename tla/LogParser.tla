----------------------------- MODULE LogParser -----------------------------
(***************************************************************************)
(* The offline log parser, tools/log_parser: the command line (main.c),    *)
(* the databases of tag names and message formats, the validation of the   *)
(* entries of a file, their selection and their output (log_parser.c).     *)
(*                                                                         *)
(* A command line is a sequence of options with their values and of file   *)
(* names; a database is a sequence of lines.  A printed line is the number *)
(* of its entry in the file, the names it is printed with and whether it   *)
(* is red; its layout is left out.                                         *)
(***************************************************************************)
EXTENDS LogEntry, SequencesExt

CONSTANTS
  MaxFilters,    \* the size of the array of module filters
  CommandLine,   \* the command lines with which the parser is started
  TagFile,       \* the lines of tags.db
  FormatFile     \* the lines of formats.db

Argument ==
  [option : {"name", "help", "verbose"}]
  \cup [option : {"format", "color", "style"}, value : STRING]
  \cup [option : {"module"}, value : [tag : STRING, level : STRING]]

DatabaseLine ==
  [kind : {"comment", "bad"}] \cup [kind : {"pair"}, id : Nat, text : STRING]

ASSUME ParserAssumption ==
  /\ MaxFilters \in Nat \ {0}
  /\ CommandLine \subseteq Seq(Argument)
  /\ TagFile \in Seq(DatabaseLine) /\ FormatFile \in Seq(DatabaseLine)

VARIABLES
  options,     \* what main makes of its arguments
  phase,       \* where main is
  tag_db,      \* g_tag_db
  format_db,   \* g_format_db
  stats,       \* g_parser_stats
  position,    \* entries read from the file
  printed      \* the lines of the output file

parserVars == <<options, phase, tag_db, format_db, stats, position, printed>>
-----------------------------------------------------------------------------
(* The command line.                                                       *)

DefaultOptions ==
  [help |-> FALSE, files |-> 0, filters |-> << >>,
   format |-> "text", color |-> "minimal", style |-> "smart"]

\* parse_format, parse_color_mode, parse_log_format
FormatOf(v) == IF v \in {"text", "json", "csv", "binary"} THEN v ELSE "text"
ColorOf(v) == IF v \in {"never", "minimal", "always"} THEN v ELSE "minimal"
StyleOf(v) == IF v \in {"smart", "fixed", "minimal", "verbose"} THEN v ELSE "smart"

\* The names parse_module_filter knows, with their enumerators in log_common.h.
FilterTag ==
  [SYSTEM |-> 0, KERNEL |-> 1, DRIVER_CAN |-> 4, SERVICE_AI |-> 5,
   SERVICE_DIAG |-> 6, APPLICATION |-> 8]
FilterLevel == [EMERGENCY |-> 0, ERROR |-> 1, INFO |-> 2, DEBUG |-> 3]

\* parse_module_filter: the filters after the value v, unchanged if invalid.
WithFilter(filters, v) ==
  IF v.tag \in DOMAIN FilterTag /\ v.level \in DOMAIN FilterLevel
  THEN Append(filters, [tag_id |-> FilterTag[v.tag],
                        min_level |-> FilterLevel[v.level]])
  ELSE filters

\* One turn of main's loop over its arguments.  The help option ends main.
\* Once the array of filters is full, the option -m does not take its value,
\* which is then read as a file name.
WithArgument(o, a) ==
  CASE o.help -> o
    [] ~o.help /\ a.option = "help" -> [o EXCEPT !.help = TRUE]
    [] ~o.help /\ a.option = "verbose" -> o
    [] ~o.help /\ a.option = "format" -> [o EXCEPT !.format = FormatOf(a.value)]
    [] ~o.help /\ a.option = "color" -> [o EXCEPT !.color = ColorOf(a.value)]
    [] ~o.help /\ a.option = "style" -> [o EXCEPT !.style = StyleOf(a.value)]
    [] ~o.help /\ a.option = "module" /\ Len(o.filters) < MaxFilters ->
         [o EXCEPT !.filters = WithFilter(@, a.value)]
    [] OTHER -> [o EXCEPT !.files = IF @ < 2 THEN @ + 1 ELSE @]

Parsed(argv) == FoldLeft(WithArgument, DefaultOptions, argv)

\* The condition under which main calls log_parser_process_file_ex.
Extended(o) ==
  o.filters # << >> \/ o.color # "minimal" \/ o.style # "smart"
-----------------------------------------------------------------------------
(* The databases: comments and lines that do not scan are skipped.         *)

\* load_format_database and load_tag_database fail only on a file that
\* cannot be opened or has nothing but comments.
Loadable(file) == \E i \in DOMAIN file : file[i].kind # "comment"
WithLine(db, line) == IF line.kind = "pair" THEN Append(db, line) ELSE db
Loaded(file) == FoldLeft(WithLine, << >>, file)

\* log_parser_get_tag_name, log_parser_get_message_text: the first match.
LookUp(db, id, default) ==
  LET i == SelectInSeq(db, LAMBDA pair : pair.id = id)
  IN  IF i = 0 THEN default ELSE db[i].text
-----------------------------------------------------------------------------
(* Validation, selection and output of an entry.                           *)

\* The parser has its own loop over the bytes of an entry.
ParserChecksum(e) == (e.level + e.tag_id + e.message_id + e.data) % ChecksumMod

\* A faulty validation that looks at the level before the checksum.
VerdictLevelFirst(e) ==
  CASE e.level >= LevelCount -> "bad_level"
    [] e.level < LevelCount /\ ParserChecksum(e) # e.checksum -> "corrupted"
    [] e.level < LevelCount /\ ParserChecksum(e) = e.checksum
         /\ e.tag_id >= TagCount -> "unknown_tag"
    [] OTHER -> "known"

\* log_parser_validate_entry: what becomes of an entry.
Verdict(e) ==
  CASE ParserChecksum(e) # e.checksum -> "corrupted"
    [] ParserChecksum(e) = e.checksum /\ e.level >= LevelCount -> "bad_level"
    [] ParserChecksum(e) = e.checksum /\ e.level < LevelCount
         /\ e.tag_id >= TagCount -> "unknown_tag"
    [] OTHER -> "known"

Valid(e) == Verdict(e) \in {"unknown_tag", "known"}

\* A faulty selection that considers the first filter only.
PassesFirst(filters, e) ==
  filters = << >> \/ (/\ filters[1].tag_id = e.tag_id
                      /\ e.level >= filters[1].min_level)

\* The filters of log_parser_process_file_ex.
Passes(filters, e) ==
  \/ filters = << >>
  \/ \E i \in DOMAIN filters : /\ filters[i].tag_id = e.tag_id
                               /\ e.level >= filters[i].min_level

\* Whether an entry is printed: the plain loop prints text only, the
\* extended one prints text for every format.
Prints(o, e) ==
  IF Extended(o) THEN Passes(o.filters, e) ELSE o.format = "text"

\* log_parser_format_entry_smart, or the plain line.  Only the former uses
\* colour, and only in the minimal mode.
Line(o, n, e) ==
  [entry   |-> n,
   tag     |-> LookUp(tag_db, e.tag_id, "UNKNOWN"),
   message |-> LookUp(format_db, e.message_id, "Unknown message"),
   red     |-> /\ Extended(o) /\ o.format = "text" /\ o.color = "minimal"
               /\ e.level \in {FilterLevel.ERROR, FilterLevel.EMERGENCY}]
-----------------------------------------------------------------------------
NoStats == [total |-> 0, valid |-> 0, corrupted |-> 0, unknown |-> 0]

ParserInit ==
  /\ \E argv \in CommandLine : options = Parsed(argv)
  /\ phase = "start"
  /\ tag_db = << >>
  /\ format_db = << >>
  /\ stats = NoStats
  /\ position = 0
  /\ printed = << >>

\* main ends before it reads an entry: with the help or the usage, because a
\* database cannot be loaded, or because a file cannot be opened.
GiveUp ==
  /\ phase = "start"
  /\ phase' = "ended"
  /\ UNCHANGED <<options, tag_db, format_db, stats, position, printed>>

\* log_parser_init, and the files are opened.
Open ==
  /\ phase = "start"
  /\ ~options.help /\ options.files = 2
  /\ Loadable(TagFile) /\ Loadable(FormatFile)
  /\ phase' = "reading"
  /\ tag_db' = Loaded(TagFile)
  /\ format_db' = Loaded(FormatFile)
  /\ stats' = NoStats
  /\ UNCHANGED <<options, position, printed>>

\* One turn of the loop of log_parser_process_file or _ex.
ReadEntry(e) ==
  /\ phase = "reading"
  /\ position' = position + 1
  /\ stats' = [total     |-> stats.total + 1,
               valid     |-> stats.valid + (IF Valid(e) THEN 1 ELSE 0),
               corrupted |-> stats.corrupted
                               + (IF Verdict(e) = "corrupted" THEN 1 ELSE 0),
               unknown   |-> stats.unknown
                               + (IF Verdict(e) = "unknown_tag" THEN 1 ELSE 0)]
  /\ printed' = IF Valid(e) /\ Prints(options, e)
                THEN Append(printed, Line(options, position + 1, e))
                ELSE printed
  /\ UNCHANGED <<options, phase, tag_db, format_db>>

\* The end of the file: the statistics are printed.
Finish ==
  /\ phase = "reading"
  /\ phase' = "ended"
  /\ UNCHANGED <<options, tag_db, format_db, stats, position, printed>>

\* The names in a database, and a default
Names(file, default) ==
  {line.text : line \in {l \in Range(file) : l.kind = "pair"}} \cup {default}

ParserTypeOK ==
  /\ options \in [help : BOOLEAN, files : 0 .. 2,
                  filters : Seq([tag_id : Range(FilterTag),
                                 min_level : Range(FilterLevel)]),
                  format : {"text", "json", "csv", "binary"},
                  color : {"never", "minimal", "always"},
                  style : {"smart", "fixed", "minimal", "verbose"}]
  /\ Len(options.filters) <= MaxFilters
  /\ phase \in {"start", "reading", "ended"}
  /\ tag_db \in Seq(Range(TagFile)) /\ format_db \in Seq(Range(FormatFile))
  /\ stats \in [total : Nat, valid : Nat, corrupted : Nat, unknown : Nat]
  /\ position \in Nat
  /\ printed \in Seq([entry : Nat, tag : Names(TagFile, "UNKNOWN"),
                      message : Names(FormatFile, "Unknown message"),
                      red : BOOLEAN])
=============================================================================

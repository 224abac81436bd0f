--------------------------------- MODULE Logging ---------------------------------
(***************************************************************************)
(* The log.  A message is formatted into one shared buffer, from there,    *)
(* with its time and origin, into a second one, and that line is written   *)
(* under a mutex; only the writing is.  At the start a directory with too  *)
(* many old logs is emptied and a new one is made.                         *)
(*                                                                         *)
(* A message is the thread that prints it, a line its origin and message.  *)
(* The file is opened to append, so what is written comes after the rest;  *)
(* a line and its end are two writes.  Two threads that use a buffer at    *)
(* once may leave anything in it.                                          *)
(***************************************************************************)
EXTENDS Integers, Sequences, FiniteSets

CONSTANTS
  Printers,       \* threads that print
  Prints,         \* bound: prints of each of them
  MaxOldLogs,     \* bound: logs in the directory before the start
  KeptLogs        \* entries of the directory, "." and ".." included, that are too many

(* The directory has "." and "..", so the first log makes three entries.   *)
ASSUME LogAssumption ==
  /\ Prints \in Nat /\ MaxOldLogs \in Nat /\ KeptLogs \in Nat /\ KeptLogs >= 3
  /\ {"nobody", "garbled", "end"} \cap Printers = {}

Nobody == "nobody"
Garbled == "garbled"
NoLine == [origin |-> Nobody, message |-> Nobody]
LineEnd == [origin |-> "end", message |-> "end"]

VARIABLES
  oldLogs,        \* logs in the directory
  undeleted,      \* a log could not be listed or deleted at the start (history)
  log_file,       \* none, failed or open
  written,        \* what was written to the file
  printer,        \* ready, message, line, waiting, writing
  prints,         \* how often a thread printed
  logging_tstr,   \* the shared buffers
  logging_tline,
  logging_mutex,
  disturbed       \* threads that met another one while they printed (history)

logVars == <<oldLogs, undeleted, log_file, written, printer, prints,
             logging_tstr, logging_tline, logging_mutex, disturbed>>

LogInit ==
  /\ oldLogs \in 0..MaxOldLogs
  /\ undeleted = FALSE
  /\ log_file = "null"
  /\ written = << >>
  /\ printer = [p \in Printers |-> "ready"]
  /\ prints = [p \in Printers |-> 0]
  /\ logging_tstr = Nobody
  /\ logging_tline = NoLine
  /\ logging_mutex = Nobody
  /\ disturbed = {}

-----------------------------------------------------------------------------
(* LoggingInitResetDir: the entries are listed first, "." and ".." too;    *)
(* if they are too many, all but those that begin with a dot go.           *)

ResetDir(old) == IF old + 2 < KeptLogs THEN old ELSE 0

LoggingInit ==
  /\ log_file = "null"
  /\ \/ oldLogs' = ResetDir(oldLogs) + 1 /\ UNCHANGED undeleted
     \/ oldLogs' \in (ResetDir(oldLogs) + 1)..(oldLogs + 1) /\ undeleted' = TRUE
  /\ log_file' \in {"open", "failed"}
  /\ UNCHANGED <<written, printer, prints, logging_tstr, logging_tline, logging_mutex, disturbed>>

-----------------------------------------------------------------------------
(* LoggingPrint.                                                           *)

Busy == {p \in Printers : printer[p] # "ready"}

Goes(p, to) == printer' = [printer EXCEPT ![p] = to]

(* What a buffer may hold after p used it.                                 *)
Leaves(p, value, garbled) == IF Busy \subseteq {p} THEN {value} ELSE {value, garbled}

LoggingPrint(p) ==
  /\ log_file # "null" /\ printer[p] = "ready" /\ prints[p] < Prints
  /\ prints' = [prints EXCEPT ![p] = @ + 1]
  /\ disturbed' = IF Busy = {} THEN disturbed \ {p} ELSE disturbed \cup Busy \cup {p}
  /\ Goes(p, "message")
  /\ UNCHANGED <<oldLogs, undeleted, log_file, written, logging_tstr, logging_tline, logging_mutex>>

FormatsMessage(p) ==
  /\ printer[p] = "message"
  /\ logging_tstr' \in Leaves(p, p, Garbled)
  /\ Goes(p, "line")
  /\ UNCHANGED <<oldLogs, undeleted, log_file, written, prints, logging_tline, logging_mutex, disturbed>>

FormatsLine(p) ==
  /\ printer[p] = "line"
  /\ logging_tline' \in Leaves(p, [origin |-> p, message |-> logging_tstr],
                                  [origin |-> Garbled, message |-> Garbled])
  /\ Goes(p, "waiting")
  /\ UNCHANGED <<oldLogs, undeleted, log_file, written, prints, logging_tstr, logging_mutex, disturbed>>

(* LoggingAppendLine.                                                      *)
AppendLineUnlocked(p) ==         \* mutant
  /\ printer[p] = "waiting"
  /\ logging_mutex' = p
  /\ written' = IF log_file = "open"
                  THEN Append(written, [line |-> logging_tline, by |-> p, alone |-> p \notin disturbed])
                  ELSE written
  /\ Goes(p, "writing")
  /\ UNCHANGED <<oldLogs, undeleted, log_file, prints, logging_tstr, logging_tline, disturbed>>

AppendLine(p) ==
  /\ printer[p] = "waiting" /\ logging_mutex = Nobody
  /\ logging_mutex' = p
  /\ written' = IF log_file = "open"
                  THEN Append(written, [line |-> logging_tline, by |-> p, alone |-> p \notin disturbed])
                  ELSE written
  /\ Goes(p, "writing")
  /\ UNCHANGED <<oldLogs, undeleted, log_file, prints, logging_tstr, logging_tline, disturbed>>

AppendEnd(p) ==
  /\ printer[p] = "writing"
  /\ logging_mutex' = Nobody
  /\ written' = IF log_file = "open"
                  THEN Append(written, [line |-> LineEnd, by |-> p, alone |-> TRUE])
                  ELSE written
  /\ Goes(p, "ready")
  /\ UNCHANGED <<oldLogs, undeleted, log_file, prints, logging_tstr, logging_tline, disturbed>>

LogStep ==
  \/ LoggingInit
  \/ \E p \in Printers : LoggingPrint(p) \/ FormatsMessage(p) \/ FormatsLine(p)
                           \/ AppendLine(p) \/ AppendEnd(p)

-----------------------------------------------------------------------------
(* Every line is followed by its own end, whoever prints beside it, and is *)
(* the message of the thread that prints it, with its origin, unless       *)
(* another thread was printing (Logging.cpp:65 formats outside the mutex). *)
(* After the start the directory has fewer entries than are too many, plus *)
(* the new log, if all that is old could be listed and deleted.            *)
LinesWhole ==
  /\ \A i \in 1..Len(written) :
       LET w == written[i] IN
       IF i % 2 = 1 THEN w.line # LineEnd /\ (w.alone => w.line = [origin |-> w.by, message |-> w.by])
                    ELSE w.line = LineEnd /\ w.by = written[i - 1].by
  /\ log_file # "null" /\ ~undeleted => oldLogs + 2 <= KeptLogs

LogTypeOK ==
  /\ oldLogs \in 0..(MaxOldLogs + 1) /\ undeleted \in BOOLEAN
  /\ log_file \in {"null", "failed", "open"}
  /\ printer \in [Printers -> {"ready", "message", "line", "waiting", "writing"}]
  /\ prints \in [Printers -> 0..Prints]
  /\ logging_mutex \in Printers \cup {Nobody}
  /\ disturbed \subseteq Printers
=============================================================================

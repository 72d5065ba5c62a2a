---- MODULE Daemon ----
(***************************************************************************)
(* The daemon's loop and what may cut into it. A pass polls, replaces the  *)
(* state file, and appends one row per radio to the history file of the    *)
(* day; a file of that name with other columns is first moved aside. The   *)
(* SIGTERM handler runs in the main thread, between any two steps of it,   *)
(* and closes the history file under its feet. systemd watches over the    *)
(* process: the watchdog, restart on failure, a stop that may time out.    *)
(*                                                                         *)
(* A row is the version of the columns it was written with. A failing      *)
(* write writes nothing. What the poll itself does is left to the modules  *)
(* of the follower.                                                        *)
(*                                                                         *)
(* The history variables: stuck, the date whose file the process could not *)
(* move aside; unread, that a header could not be read.                    *)
(***************************************************************************)
EXTENDS Integers

CONSTANTS
  Versions, \* of HISTORY_COLUMNS, of which an upgrade installs another one
  Days,     \* the dates, as numbers from 1
  Radios,   \* the most radios a poll finds
  Events,   \* faults, signals, midnights and upgrades in a behaviour
  None

ASSUME DaemonAssumption ==
  /\ Versions # {} /\ None \notin Versions \cup {"header", "row", "part", "whole"}
  /\ Days \subseteq Nat /\ 1 \in Days /\ 0 \notin Days
  /\ Radios \in Nat /\ Events \in Nat

VARIABLES
  pc, running, columns,        \* the loop, self.running, HISTORY_COLUMNS as loaded
  date, handle, writer,        \* _history_date (0 for ""), the open file's, _history_writer
  buffer,                      \* a line written and not flushed
  opening,                     \* _open_history's date_str
  todo,                        \* the radios of this pass without their row
  state, tmp,                  \* the state file, its .tmp: None, "part" or "whole"
  files, rotated,              \* the history files by date, those moved aside
  today, installed,
  wanted, failed,              \* systemd: the unit is to run; the process ended in failure
  left, stuck, unread

file    == <<handle, writer, buffer>>
process == <<pc, running, columns, opening, date, file, todo>>
report  == <<state, tmp>>
disk    == <<files, rotated>>
systemd == <<wanted, failed>>
vars == <<process, report, disk, systemd, today, installed, left, stuck, unread>>

Steps == {"off", "poll", "hung", "tmp", "fill", "replace", "rows", "close", "prepare", "open",
          "wrap", "header", "flushed", "dated", "check", "row", "flush", "notify", "sleep"}

File   == [header : Versions \cup {None}, rows : SUBSET Versions]
NoFile == [header |-> None, rows |-> {}]

TypeOK ==
  /\ pc \in Steps /\ running \in BOOLEAN /\ columns \in Versions
  /\ date \in Days \cup {0} /\ opening \in Days \cup {0} /\ handle \in Days \cup {0}
  /\ writer \in BOOLEAN /\ (writer => handle # 0)
  /\ buffer \in {None, "header", "row"} /\ (buffer # None => handle # 0)
  /\ todo \in 0 .. Radios /\ stuck \in Days \cup {0}
  /\ state \in {None, "part", "whole"} /\ tmp \in {None, "part", "whole"}
  /\ files \in [Days -> File] /\ rotated \subseteq File
  /\ today \in Days /\ installed \in Versions
  /\ wanted \in BOOLEAN /\ failed \in BOOLEAN
  /\ left \in 0 .. Events /\ unread \in BOOLEAN

\* The service starts on a machine where another version may have written today's file.
Init ==
  /\ pc = "poll" /\ running = TRUE /\ installed \in Versions /\ columns = installed
  /\ date = 0 /\ opening = 0 /\ handle = 0 /\ writer = FALSE /\ buffer = None /\ todo = 0
  /\ state = None /\ tmp = None
  /\ \E v \in Versions : files \in [Days -> {NoFile, [header |-> v, rows |-> {v}]}]
  /\ rotated = {} /\ today = 1
  /\ wanted = TRUE /\ failed = FALSE
  /\ left = Events /\ stuck = 0 /\ unread = FALSE

Alive == pc # "off"
WantsDaemon == wanted /\ (Alive \/ failed)
Trouble == left > 0 /\ left' = left - 1
Calm == left' = left

-----------------------------------------------------------------------------
(* How the process ends. *)

\* Mutant: the writer is kept when its file is closed.
ClosedOnly == handle' = 0 /\ buffer' = None /\ UNCHANGED writer

\* _close_history
Closed == handle' = 0 /\ buffer' = None /\ writer' = FALSE

\* The process is gone, and what it had not flushed with it.
Gone(failure) ==
  /\ pc' = "off" /\ failed' = failure
  /\ Closed
  /\ UNCHANGED <<running, columns, opening, date, todo, report, disk, today, installed, wanted,
                 stuck, unread>>

\* A write or an open that fails is not caught either.
Fails == pc \in {"tmp", "fill", "replace", "prepare", "open", "flushed", "flush"} /\ Trouble /\ Gone(TRUE)

Killed == Alive /\ Trouble /\ Gone(TRUE)

-----------------------------------------------------------------------------
(* One pass of run(). *)

Goes(from, to) == pc = from /\ pc' = to /\ UNCHANGED <<running, columns>>

PollOnce ==
  /\ Goes("poll", "tmp")
  /\ todo' \in 0 .. Radios
  /\ Calm
  /\ UNCHANGED <<opening, date, file, report, disk, today, installed, systemd, stuck, unread>>

\* A poll that does not come back: no ping of the watchdog.
Hangs ==
  /\ Goes("poll", "hung") /\ Trouble
  /\ UNCHANGED <<opening, date, file, todo, report, disk, today, installed, systemd, stuck, unread>>

\* write_state: the temporary file is opened, filled, and put in the other's place.
WriteTmp == tmp' = "part" /\ UNCHANGED state

WriteState ==
  /\ \/ Goes("tmp", "fill") /\ WriteTmp
     \/ Goes("fill", "replace") /\ tmp' = "whole" /\ UNCHANGED state
     \/ Goes("replace", "rows") /\ state' = tmp /\ tmp' = None
  /\ Calm
  /\ UNCHANGED <<opening, date, file, todo, disk, today, installed, systemd, stuck, unread>>

\* A flush or a close writes what is buffered to the open file.
Flushed ==
  CASE buffer = "header" -> [files EXCEPT ![handle].header = columns]
    [] buffer = "row"    -> [files EXCEPT ![handle].rows = @ \cup {columns}]
    [] OTHER             -> files

\* write_history, for the next radio: the first row of a day opens the day's file.
NextRow ==
  /\ \/ todo = 0 /\ Goes("rows", "notify") /\ UNCHANGED opening
     \/ /\ todo > 0 /\ today # date
        /\ Goes("rows", IF handle # 0 THEN "close" ELSE "prepare") /\ opening' = today
     \/ todo > 0 /\ today = date /\ Goes("rows", "check") /\ UNCHANGED opening
  /\ Calm
  /\ UNCHANGED <<date, file, todo, report, disk, today, installed, systemd, stuck, unread>>

\* The day's file was begun with other columns.
OtherShape == files[opening].header \notin {None, columns}

\* Mutant: the columns of a file that exists are not looked at.
AlwaysOurs == FALSE

Rotates == OtherShape

\* _open_history: the file of the day before is closed, and one of another shape moved aside.
CloseOld ==
  /\ handle # 0 /\ Goes("close", "prepare")
  /\ Closed
  /\ Calm
  /\ UNCHANGED <<date, disk, stuck, unread>>

Prepare ==
  /\ Goes("prepare", "open")
  /\ files' = IF Rotates THEN [files EXCEPT ![opening] = NoFile] ELSE files
  /\ rotated' = IF Rotates THEN rotated \cup {files[opening]} ELSE rotated
  /\ Calm
  /\ UNCHANGED <<date, stuck, unread>>

\* A header that cannot be read passes for none: the file is kept as it is.
PrepareUnread ==
  /\ Goes("prepare", "open") /\ Trouble
  /\ OtherShape
  /\ unread' = TRUE
  /\ UNCHANGED <<date, stuck, disk>>

\* A file that cannot be moved is left alone: no writer until the date changes.
PrepareStuck ==
  /\ Goes("prepare", "check") /\ Trouble
  /\ Rotates
  /\ date' = opening /\ stuck' = opening
  /\ UNCHANGED <<unread, disk>>

MakeRoom ==
  /\ CloseOld \/ ((Prepare \/ PrepareUnread \/ PrepareStuck) /\ UNCHANGED file)
  /\ UNCHANGED <<opening, todo, report, today, installed, systemd>>

\* The rest of _open_history, step by step: the handler may have closed the file since
\* the step before, and the next one then raises.
Open ==
  /\ \/ Goes("open", "wrap") /\ handle' = opening /\ UNCHANGED <<date, writer, buffer, files>>
     \/ /\ handle # 0 /\ Goes("wrap", IF files[opening].header = None THEN "header" ELSE "dated")
        /\ writer' = TRUE /\ UNCHANGED <<date, handle, buffer, files>>
     \/ /\ writer /\ Goes("header", "flushed")
        /\ buffer' = "header" /\ UNCHANGED <<date, handle, writer, files>>
     \/ /\ writer /\ Goes("flushed", "dated")
        /\ files' = Flushed /\ buffer' = None /\ UNCHANGED <<date, handle, writer>>
     \/ Goes("dated", "check") /\ date' = opening /\ UNCHANGED <<file, files>>
  /\ Calm
  /\ UNCHANGED <<opening, todo, report, rotated, today, installed, systemd, stuck, unread>>

\* The row itself: `if self._history_writer', writerow, flush.
WriteRow ==
  /\ \/ writer /\ Goes("check", "row") /\ UNCHANGED <<buffer, files, todo>>
     \/ ~writer /\ Goes("check", "rows") /\ todo' = todo - 1 /\ UNCHANGED <<buffer, files>>
     \/ writer /\ Goes("row", "flush") /\ buffer' = "row" /\ UNCHANGED <<files, todo>>
     \/ /\ writer /\ Goes("flush", "rows")
        /\ files' = Flushed /\ buffer' = None
        /\ todo' = todo - 1
  /\ Calm
  /\ UNCHANGED <<opening, date, handle, writer, report, rotated, today, installed, systemd, stuck, unread>>

\* What a step needs was closed by the handler: the exception ends the process.
Pulled ==
  /\ pc \in {"close", "wrap", "header", "flushed", "row", "flush"}
  /\ handle = 0
  /\ Calm /\ Gone(TRUE)

\* sd_notify and the sleep, which a signal does not shorten.
Rests ==
  /\ Goes("notify", "sleep") \/ (running /\ Goes("sleep", "poll"))
  /\ Calm
  /\ UNCHANGED <<opening, date, file, todo, report, disk, today, installed, systemd, stuck, unread>>

\* `while self.running' is false: a clean exit.
Leaves == pc = "sleep" /\ ~running /\ Calm /\ Gone(FALSE)

-----------------------------------------------------------------------------
(* The signal handler. *)

\* Mutant: the handler closes the file and the loop goes on.
StopAndGoOn == UNCHANGED running

StopRunning == running' = FALSE

\* stop(): a close flushes what is buffered. In a hung poll it waits for the poll.
Stop ==
  /\ Alive /\ pc # "hung"
  /\ StopRunning
  /\ files' = Flushed
  /\ Closed
  /\ UNCHANGED <<pc, columns, opening, date, todo>>

-----------------------------------------------------------------------------
(* systemd, the installer and the calendar. *)

Starts ==
  /\ pc' = "poll" /\ running' = TRUE /\ columns' = installed
  /\ date' = 0 /\ opening' = 0 /\ todo' = 0 /\ stuck' = 0 /\ failed' = FALSE
  /\ UNCHANGED <<file, report, disk, today, installed, unread>>

\* Mutant: a daemon that hangs is waited for.
NoWatchdog == FALSE

\* WatchdogSec: no ping for 45 s.
Watchdog == pc = "hung"

WatchdogKills == Watchdog /\ Calm /\ Gone(TRUE)

\* Restart=on-failure.
Restarts == ~Alive /\ failed /\ wanted /\ Calm /\ UNCHANGED wanted /\ Starts

\* systemctl stop: SIGTERM, and SIGKILL for what does not end in time.
UserStops ==
  /\ wanted /\ Trouble /\ wanted' = FALSE
  /\ (Alive /\ pc # "hung" /\ Stop) \/ ((~Alive \/ pc = "hung") /\ UNCHANGED <<process, files>>)
  /\ UNCHANGED <<report, rotated, today, installed, failed, stuck, unread>>

StopTimesOut == pc = "hung" /\ ~wanted /\ Calm /\ Gone(TRUE)

UserStarts == ~Alive /\ ~WantsDaemon /\ Calm /\ wanted' = TRUE /\ Starts

\* A SIGTERM or SIGINT that does not come from systemd.
Signalled ==
  /\ Trouble /\ Stop
  /\ UNCHANGED <<report, rotated, today, installed, systemd, stuck, unread>>

Midnight ==
  /\ Trouble
  /\ today + 1 \in Days /\ today' = today + 1
  /\ UNCHANGED <<process, report, disk, installed, systemd, stuck, unread>>

Upgrade ==
  /\ Trouble
  /\ installed' \in Versions \ {installed}
  /\ UNCHANGED <<process, report, disk, today, systemd, stuck, unread>>

Pass == PollOnce \/ WriteState \/ NextRow \/ MakeRoom \/ Open \/ WriteRow \/ Pulled \/ Rests \/ Leaves

Next ==
  \/ Pass
  \/ Hangs \/ Fails \/ Killed
  \/ WatchdogKills \/ Restarts \/ StopTimesOut
  \/ UserStops \/ UserStarts \/ Signalled
  \/ Midnight \/ Upgrade

\* The process runs; the steps that need trouble may wait for ever.
Fairness == WF_vars(Pass /\ Calm) /\ WF_vars(WatchdogKills) /\ WF_vars(StopTimesOut) /\ WF_vars(Restarts)

Spec == Init /\ [][Next]_vars /\ Fairness

-----------------------------------------------------------------------------
(* Properties. *)

Covered(f) == f.rows \subseteq {f.header}

\* No history file holds rows of another shape than its header, through upgrades, crashes,
\* signals in the middle of opening it, and files that cannot be moved aside: unless a
\* header could not be read.
RowsUnderTheirHeader ==
  unread \/ (\A f \in rotated \cup {files[d] : d \in Days} : Covered(f))

\* A radio goes without its row only after a signal, or on a day whose file could not be
\* moved aside: whatever closes the file, the loop opens one again or ends.
RowsKept ==
  [][pc = "check" /\ pc' = "rows" => ~running \/ (stuck = date /\ date # 0)]_vars

\* A stop is a stop: the process ends, whatever it was doing, and stays away until wanted.
StopEnds == ~wanted ~> (~Alive \/ wanted)

\* As long as the service is wanted, new whole documents keep coming: a hung poll, an exception and a
\* kill only interrupt them. Only a signal that systemd did not send ends it for good.
KeepsReporting ==
  <>[]WantsDaemon => []<><<pc = "replace" /\ pc' = "rows" /\ state' = "whole">>_vars
====

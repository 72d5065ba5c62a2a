---- MODULE DaemonProofs ----
(***************************************************************************)
(* What the daemon leaves on disk, for every number of versions, days,     *)
(* radios and faults: first the types, with what the loop knows at each of *)
(* its steps (Known), then the shape of the history files (Shapes) and the *)
(* rows (Rowed), each inductive relative to the ones before.               *)
(***************************************************************************)
EXTENDS Daemon, TLAPS

Opens == {"close", "prepare", "open", "wrap", "header", "flushed", "dated"}
Rows  == {"check", "row", "flush"}

\* Where the loop is tells what it still has to do, which file is open, and what is buffered.
Known ==
  /\ pc \in Opens \cup Rows => todo > 0
  /\ pc \in Opens => opening # 0
  /\ pc \in {"off", "prepare", "open"} => handle = 0
  /\ handle # 0 /\ ~writer => pc = "wrap"
  /\ pc \in {"wrap", "header", "flushed", "dated"} /\ handle # 0 => handle = opening
  /\ buffer = "header" => pc = "flushed"
  /\ buffer = "row" => pc = "flush"
  /\ pc = "flushed" /\ writer => buffer = "header"

TypeInv == TypeOK /\ Known

\* The steps of Next, one by one.
LEMMA Actions ==
  ASSUME [Next]_vars
  PROVE  \/ PollOnce \/ WriteState \/ NextRow \/ MakeRoom \/ Open \/ WriteRow \/ Rests \/ Hangs
         \/ (\E failure \in BOOLEAN : Gone(failure) /\ (Calm \/ Trouble))
         \/ (~Alive /\ Starts /\ Calm /\ (wanted' = wanted \/ wanted' = TRUE))
         \/ (Stop /\ Trouble /\ (wanted' = wanted \/ wanted' = FALSE) /\ UNCHANGED <<report, rotated, today, installed, failed, stuck, unread>>)
         \/ (Trouble /\ wanted' = FALSE /\ UNCHANGED <<process, files, report, rotated, today, installed, failed, stuck, unread>>)
         \/ Midnight \/ Upgrade \/ UNCHANGED vars
BY DEF Next, Pass, Pulled, Leaves, Fails, Killed, WatchdogKills, StopTimesOut, Restarts,
       UserStarts, UserStops, Signalled, systemd

LEMMA Budget ==
  ASSUME left \in 0 .. Events, Calm \/ Trouble
  PROVE  left' \in 0 .. Events
BY DaemonAssumption DEF Calm, Trouble

LEMMA FlushedType ==
  ASSUME TypeOK
  PROVE  Flushed \in [Days -> File]
BY DaemonAssumption DEF TypeOK, Flushed, File

LEMMA TypeStep ==
  ASSUME TypeInv, [Next]_vars
  PROVE  TypeInv'
<1> USE DaemonAssumption DEF TypeInv, TypeOK, Known, Steps, Opens, Rows, Goes, file
<1>0. left \in 0 .. Events /\ Flushed \in [Days -> File]
  BY FlushedType
<1>1. CASE PollOnce
  BY <1>1, <1>0 DEF PollOnce, report, disk, systemd, Calm
<1>2. CASE WriteState
  BY <1>2, <1>0 DEF WriteState, WriteTmp, disk, systemd, Calm
<1>3. CASE NextRow
  BY <1>3, <1>0 DEF NextRow, report, disk, systemd, Calm
<1>4. CASE MakeRoom
  <2>1. left' \in 0 .. Events
    BY <1>0, <1>4, Budget DEF MakeRoom, CloseOld, Prepare, PrepareUnread, PrepareStuck
  <2>2. CASE CloseOld
    BY <1>4, <2>1, <2>2 DEF MakeRoom, CloseOld, report, disk, systemd, Closed
  <2>3. CASE (Prepare \/ PrepareUnread \/ PrepareStuck) /\ UNCHANGED file
    <3>1. opening \in Days /\ files[opening] \in File /\ NoFile \in File
      BY <2>3 DEF Prepare, PrepareUnread, PrepareStuck, File, NoFile
    <3>2. files' \in [Days -> File] /\ rotated' \subseteq File
      BY <2>3, <3>1 DEF Prepare, PrepareUnread, PrepareStuck, disk
    <3> QED
      BY <1>4, <2>1, <2>3, <3>1, <3>2 DEF MakeRoom, Prepare, PrepareUnread, PrepareStuck, report, systemd
  <2> QED  BY <1>4, <2>2, <2>3 DEF MakeRoom
<1>5. CASE Open
  <2>1. UNCHANGED <<left, state, tmp, wanted, failed, running, columns, opening, todo, rotated, today, installed, stuck, unread>>
    BY <1>5 DEF Open, report, systemd, Calm
  <2>2. files' \in [Days -> File]
    BY <1>5, <1>0 DEF Open
  <2>3. Known' /\ pc' \in Steps
    BY <1>5, <2>1 DEF Open
  <2>4. date' \in Days \cup {0} /\ handle' \in Days \cup {0}
    BY <1>5 DEF Open
  <2>5. writer' \in BOOLEAN /\ buffer' \in {None, "header", "row"}
    BY <1>5 DEF Open
  <2>6. (writer' => handle' # 0) /\ (buffer' # None => handle' # 0)
    BY <1>5 DEF Open
  <2> QED  BY <2>1, <2>2, <2>3, <2>4, <2>5, <2>6
<1>6. CASE WriteRow
  BY <1>6, <1>0 DEF WriteRow, report, systemd, Calm
<1>7. CASE Rests
  BY <1>7, <1>0 DEF Rests, report, disk, systemd, Calm
<1>8. CASE Hangs
  BY <1>8, <1>0, Budget DEF Hangs, report, disk, systemd
<1>9. CASE \E failure \in BOOLEAN : Gone(failure) /\ (Calm \/ Trouble)
  BY <1>9, <1>0, Budget DEF Gone, Closed, report, disk
<1>10. CASE ~Alive /\ Starts /\ Calm /\ (wanted' = wanted \/ wanted' = TRUE)
  <2>1. left' \in 0 .. Events /\ wanted' \in BOOLEAN
    BY <1>10, <1>0 DEF Calm
  <2>2. ~Alive /\ Starts
    BY <1>10
  <2>3. pc' = "poll" /\ running' = TRUE /\ columns' \in Versions /\ failed' = FALSE
    BY <2>2 DEF Starts
  <2>4. date' = 0 /\ opening' = 0 /\ todo' = 0 /\ stuck' = 0
    BY <2>2 DEF Starts
  <2>5. UNCHANGED <<files, state, tmp, rotated, today, installed, unread>>
    BY <2>2 DEF Starts, report, disk
  <2>6. UNCHANGED file /\ handle = 0 /\ buffer = None /\ writer = FALSE
    BY <2>2 DEF Alive, Starts
  <2>7. Known'
    BY <2>3, <2>4, <2>6
  <2>8. todo' \in 0 .. Radios
    BY <2>4
  <2>9. date' \in Days \cup {0} /\ opening' \in Days \cup {0} /\ stuck' \in Days \cup {0}
    BY <2>4
  <2> HIDE DEF Known
  <2> QED  BY <2>1, <2>3, <2>5, <2>6, <2>7, <2>8, <2>9
<1>11. CASE Stop /\ Trouble /\ (wanted' = wanted \/ wanted' = FALSE) /\ UNCHANGED <<report, rotated, today, installed, failed, stuck, unread>>
  <2>1. left' \in 0 .. Events /\ wanted' \in BOOLEAN
    BY <1>11, <1>0, Budget
  <2>2. Stop /\ UNCHANGED <<report, rotated, today, installed, failed, stuck, unread>>
    BY <1>11
  <2>3. Known' /\ pc' \in Steps /\ running' \in BOOLEAN
    BY <2>2 DEF Stop, StopRunning, Closed
  <2>4. files' \in [Days -> File] /\ handle' = 0 /\ writer' = FALSE /\ buffer' = None
    BY <1>0, <2>2 DEF Stop, Closed
  <2>5. UNCHANGED <<columns, date, opening, todo, stuck, state, tmp, rotated, today, installed, failed, unread>>
    BY <2>2 DEF Stop, report
  <2> HIDE DEF Known
  <2> QED  BY <2>1, <2>3, <2>4, <2>5
<1>12. CASE Trouble /\ wanted' = FALSE /\ UNCHANGED <<process, files, report, rotated, today, installed, failed, stuck, unread>>
  <2>1. left' \in 0 .. Events /\ wanted' \in BOOLEAN
    BY <1>12, <1>0, Budget
  <2>2. UNCHANGED <<pc, running, columns, opening, date, handle, writer, buffer, todo, files,
                     state, tmp, rotated, today, installed, failed, stuck, unread>>
    BY <1>12 DEF process, report
  <2>3. Known'
    BY <2>2
  <2> HIDE DEF Known
  <2> QED  BY <2>1, <2>2, <2>3
<1>13. CASE Midnight \/ Upgrade
  BY <1>13, <1>0, Budget DEF Midnight, Upgrade, process, report, disk, systemd
<1>14. CASE UNCHANGED vars
  BY <1>14 DEF vars, process, report, disk, systemd
<1> QED
  BY <1>1, <1>2, <1>3, <1>4, <1>5, <1>6, <1>7, <1>8, <1>9, <1>10, <1>11, <1>12, <1>13, <1>14, Actions

LEMMA TypeInit ==
  ASSUME Init
  PROVE  TypeInv
<1> USE DaemonAssumption DEF Init
<1>1. files \in [Days -> File]
  BY DEF File, NoFile
<1>2. todo \in 0 .. Radios /\ left \in 0 .. Events
  OBVIOUS
<1>3. Known
  BY DEF Known, Opens, Rows
<1> QED  BY <1>1, <1>2, <1>3 DEF TypeInv, TypeOK, Steps

\* Types, and what the loop knows where it is.
THEOREM TypeCorrect == Spec => []TypeOK
<1>1. Spec => []TypeInv
  BY TypeInit, TypeStep, PTL DEF Spec
<1> QED  BY <1>1, PTL DEF TypeInv

-----------------------------------------------------------------------------
(* The history files. *)

AllCovered == \A f \in rotated \cup {files[d] : d \in Days} : Covered(f)

\* The file that is open, or about to be, has no columns or the daemon's own.
OpenShape ==
  /\ pc = "open" => files[opening].header \in {None, columns}
  /\ handle # 0 => files[handle].header \in {None, columns}
  /\ pc \in {"header", "flushed"} /\ handle # 0 => files[handle].header = None
  /\ writer /\ pc \notin {"header", "flushed"} => files[handle].header = columns

Shapes == unread \/ (AllCovered /\ OpenShape)

LEMMA FlushedShape ==
  ASSUME TypeInv, AllCovered, OpenShape
  PROVE  \A d \in Days : Covered(Flushed[d])
<1> USE DaemonAssumption DEF TypeInv, TypeOK, Known, OpenShape, Flushed
<1> SUFFICES ASSUME NEW d \in Days PROVE Covered(Flushed[d])
  OBVIOUS
<1>1. files[d] \in File /\ Covered(files[d])
  BY DEF AllCovered
<1>2. CASE buffer = "header"
  <2>1. writer /\ handle # 0 /\ files[handle].header = None
    BY <1>2
  <2>2. d = handle => files[d].rows = {}
    BY <1>1, <2>1 DEF Covered, File
  <2> QED  BY <1>1, <1>2, <2>2 DEF Covered, File
<1>3. CASE buffer = "row"
  <2>1. writer /\ handle # 0 /\ files[handle].header = columns
    BY <1>3
  <2> QED  BY <1>1, <1>3, <2>1 DEF Covered, File
<1>4. CASE buffer = None
  BY <1>1, <1>4
<1> QED  BY <1>2, <1>3, <1>4

LEMMA SameFiles ==
  ASSUME AllCovered, UNCHANGED <<files, rotated>>
  PROVE  AllCovered'
BY DEF AllCovered, Covered

\* Nothing about the files changes, and no step between opening and writing is entered.
LEMMA Elsewhere ==
  ASSUME AllCovered, OpenShape,
         UNCHANGED <<files, rotated, opening, columns, handle, writer>>,
         pc \notin {"header", "flushed"}, pc' \notin {"open", "header", "flushed"}
  PROVE  AllCovered' /\ OpenShape'
BY SameFiles DEF OpenShape

\* With no file open and no step of _open_history under way there is nothing to keep.
LEMMA NoneOpen ==
  ASSUME handle' = 0, writer' = FALSE, pc' \notin {"open"}
  PROVE  OpenShape'
BY DEF OpenShape

LEMMA Unread ==
  ASSUME TypeInv, [Next]_vars, unread
  PROVE  unread'
<1>1. CASE PollOnce \/ WriteState \/ NextRow \/ Rests \/ Hangs \/ MakeRoom
  BY <1>1 DEF PollOnce, WriteState, NextRow, Rests, Hangs, MakeRoom, CloseOld, Prepare, PrepareUnread, PrepareStuck
<1>2. CASE Open \/ WriteRow \/ Midnight \/ Upgrade
  BY <1>2 DEF Open, WriteRow, Midnight, Upgrade
<1>3. CASE UNCHANGED vars
  BY <1>3 DEF vars
<1> QED  BY <1>1, <1>2, <1>3, Actions DEF Gone, Starts

LEMMA ShapesPass ==
  ASSUME AllCovered, OpenShape, PollOnce \/ WriteState \/ NextRow \/ Rests \/ Hangs
  PROVE  AllCovered' /\ OpenShape'
<1> USE DEF Goes, file
<1>1. UNCHANGED <<files, rotated, columns, handle, writer>>
  BY DEF PollOnce, WriteState, NextRow, Rests, Hangs, disk
<1>2. pc \notin {"open", "header", "flushed"} /\ pc' \notin {"open", "header", "flushed"}
  <2>1. CASE PollOnce \/ Rests \/ Hangs
    BY <2>1 DEF PollOnce, Rests, Hangs
  <2>2. CASE WriteState
    BY <2>2 DEF WriteState
  <2>3. CASE NextRow
    BY <2>3 DEF NextRow
  <2> QED  BY <2>1, <2>2, <2>3
<1> QED  BY <1>1, <1>2, SameFiles DEF OpenShape

LEMMA ShapesMakeRoom ==
  ASSUME TypeInv, AllCovered, OpenShape, MakeRoom, ~unread'
  PROVE  AllCovered' /\ OpenShape'
<1> USE DaemonAssumption DEF Goes, file
<1>0. UNCHANGED opening
  BY DEF MakeRoom
<1>1. CASE CloseOld
  BY <1>1, SameFiles, NoneOpen DEF CloseOld, disk, Closed
<1>2. CASE Prepare /\ UNCHANGED file
  <2>1. files \in [Days -> File] /\ opening \in Days /\ handle = 0 /\ writer = FALSE
    BY <1>2 DEF TypeInv, TypeOK, Known, Opens, Prepare
  <2>2. AllCovered'
    BY <1>2, <2>1 DEF Prepare, AllCovered, Covered, NoFile
  <2>3. files'[opening].header \in {None, columns}
    BY <1>2, <2>1 DEF Prepare, Rotates, OtherShape, NoFile
  <2>4. OpenShape'
    BY <1>0, <1>2, <2>1, <2>3 DEF OpenShape, Prepare
  <2> QED  BY <2>2, <2>4
<1>3. CASE PrepareStuck /\ UNCHANGED file
  BY <1>0, <1>3, Elsewhere DEF PrepareStuck, disk
<1>4. CASE PrepareUnread
  BY <1>4 DEF PrepareUnread
<1> QED  BY <1>1, <1>2, <1>3, <1>4 DEF MakeRoom

\* A flush leaves the other files, and gives an empty one the daemon's own columns.
LEMMA FlushedOpen ==
  ASSUME TypeInv, AllCovered, OpenShape, writer, buffer # None
  PROVE  Flushed[handle].header = columns
<1> USE DaemonAssumption DEF TypeInv, TypeOK, Known
<1>1. handle \in Days /\ files[handle] \in File
  OBVIOUS
<1>2. CASE buffer = "header"
  BY <1>1, <1>2 DEF Flushed, File
<1>3. CASE buffer = "row"
  <2>1. files[handle].header = columns
    BY <1>3 DEF OpenShape
  <2> QED  BY <1>1, <1>3, <2>1 DEF Flushed, File
<1> QED  BY <1>2, <1>3

LEMMA ShapesOpen ==
  ASSUME TypeInv, AllCovered, OpenShape, Open
  PROVE  AllCovered' /\ OpenShape'
<1> USE DaemonAssumption DEF Goes, file
<1>1. UNCHANGED <<opening, columns, rotated>>
  BY DEF Open
<1>2. CASE pc = "flushed"
  <2>1. files' = Flushed /\ writer /\ UNCHANGED <<handle, writer>> /\ pc' = "dated"
    BY <1>2 DEF Open
  <2>2. AllCovered'
    BY <1>1, <2>1, FlushedShape DEF AllCovered
  <2>3. handle # 0 /\ Flushed[handle].header = columns
    BY <1>2, <2>1, FlushedOpen, DaemonAssumption DEF TypeInv, TypeOK, Known
  <2>4. OpenShape'
    BY <1>1, <2>1, <2>3 DEF OpenShape
  <2> QED  BY <2>2, <2>4
<1>3. CASE pc # "flushed"
  <2>1. UNCHANGED files
    BY <1>3 DEF Open
  <2>2. AllCovered'
    BY <1>1, <2>1, SameFiles
  <2>3. CASE pc = "open"
    <3>1. handle' = opening /\ pc' = "wrap" /\ UNCHANGED writer
      BY <2>3 DEF Open
    <3>2. writer = FALSE
      BY <2>3 DEF TypeInv, TypeOK, Known
    <3> QED  BY <1>1, <2>1, <2>2, <2>3, <3>1, <3>2 DEF OpenShape
  <2>4. CASE pc = "wrap"
    <3>1. handle # 0 /\ UNCHANGED handle /\ pc' = IF files[opening].header = None THEN "header" ELSE "dated"
      BY <2>4 DEF Open
    <3>2. handle = opening
      BY <2>4, <3>1 DEF TypeInv, Known
    <3> QED  BY <1>1, <2>1, <2>2, <2>4, <3>1, <3>2 DEF OpenShape
  <2>5. CASE pc = "header"
    <3>1. pc' = "flushed" /\ UNCHANGED <<handle, writer>>
      BY <2>5 DEF Open
    <3> QED  BY <1>1, <2>1, <2>2, <2>5, <3>1 DEF OpenShape
  <2>6. CASE pc = "dated"
    <3>1. pc' = "check" /\ UNCHANGED <<handle, writer>>
      BY <2>6 DEF Open
    <3> QED  BY <1>1, <2>1, <2>2, <2>6, <3>1 DEF OpenShape
  <2> QED  BY <1>3, <2>3, <2>4, <2>5, <2>6 DEF Open
<1> QED  BY <1>2, <1>3

LEMMA ShapesRow ==
  ASSUME TypeInv, AllCovered, OpenShape, WriteRow
  PROVE  AllCovered' /\ OpenShape'
<1> USE DaemonAssumption DEF Goes
<1>1. UNCHANGED <<opening, columns, rotated, handle, writer>> /\ pc \in Rows /\ pc' \in Rows \cup {"rows"}
  BY DEF WriteRow, Rows
<1>2. CASE pc = "flush"
  <2>1. files' = Flushed
    BY <1>2 DEF WriteRow
  <2>2. AllCovered'
    BY <1>1, <2>1, FlushedShape DEF AllCovered
  <2>3. CASE buffer = None
    <3>1. files' = files
      BY <2>1, <2>3, DaemonAssumption DEF Flushed
    <3> QED  BY <1>1, <1>2, <2>2, <3>1 DEF OpenShape, Rows
  <2>4. CASE buffer # None
    <3>1. writer /\ pc' = "rows"
      BY <1>2 DEF WriteRow
    <3>2. files'[handle].header = columns
      BY <2>1, <2>4, <3>1, FlushedOpen
    <3> QED  BY <1>1, <2>2, <3>1, <3>2 DEF OpenShape
  <2> QED  BY <2>2, <2>3, <2>4
<1>3. CASE pc # "flush"
  BY <1>1, <1>3, Elsewhere DEF WriteRow, Rows
<1> QED  BY <1>2, <1>3

LEMMA ShapesStop ==
  ASSUME TypeInv, AllCovered, OpenShape, Stop, UNCHANGED rotated
  PROVE  AllCovered' /\ OpenShape'
<1>1. files' = Flushed /\ handle' = 0 /\ writer' = FALSE /\ UNCHANGED <<pc, opening, columns>>
  BY DEF Stop, Closed
<1>2. AllCovered'
  BY <1>1, FlushedShape DEF AllCovered
<1>3. CASE pc = "open"
  <2>1. buffer = None
    BY <1>3, DaemonAssumption DEF TypeInv, TypeOK, Known
  <2>2. files' = files
    BY <1>1, <2>1, DaemonAssumption DEF Flushed
  <2> QED  BY <1>1, <1>2, <1>3, <2>2 DEF OpenShape
<1>4. CASE pc # "open"
  BY <1>1, <1>2, <1>4, NoneOpen
<1> QED  BY <1>3, <1>4

LEMMA ShapesStep ==
  ASSUME TypeInv, Shapes, [Next]_vars
  PROVE  Shapes'
<1> SUFFICES ASSUME ~unread' PROVE AllCovered' /\ OpenShape'
  BY DEF Shapes
<1>0. AllCovered /\ OpenShape
  BY Unread DEF Shapes
<1>1. CASE PollOnce \/ WriteState \/ NextRow \/ Rests \/ Hangs
  BY <1>0, <1>1, ShapesPass
<1>2. CASE MakeRoom
  BY <1>0, <1>2, ShapesMakeRoom
<1>3. CASE Open
  BY <1>0, <1>3, ShapesOpen
<1>4. CASE WriteRow
  BY <1>0, <1>4, ShapesRow
<1>5. CASE Stop /\ UNCHANGED <<report, rotated, today, installed, failed, stuck, unread>>
  BY <1>0, <1>5, ShapesStop
<1>6. CASE \E failure \in BOOLEAN : Gone(failure)
  BY <1>0, <1>6, SameFiles, NoneOpen DEF Gone, Closed, disk
<1>7. CASE ~Alive /\ Starts
  <2>1. handle' = 0 /\ writer' = FALSE
    BY <1>7 DEF Alive, Starts, file, TypeInv, TypeOK, Known
  <2> QED  BY <1>0, <1>7, <2>1, SameFiles, NoneOpen DEF Starts, disk
<1>8. CASE UNCHANGED <<process, files, rotated>>
  <2>1. UNCHANGED <<files, rotated, pc, opening, columns, handle, writer>>
    BY <1>8 DEF process, file
  <2> QED  BY <1>0, <2>1, SameFiles DEF OpenShape
<1>9. Midnight \/ Upgrade \/ UNCHANGED vars => UNCHANGED <<process, files, rotated>>
  BY DEF Midnight, Upgrade, vars, disk
<1> QED  BY <1>1, <1>2, <1>3, <1>4, <1>5, <1>6, <1>7, <1>8, <1>9, Actions

LEMMA ShapesInit ==
  ASSUME Init
  PROVE  Shapes
<1>1. AllCovered
  BY DaemonAssumption DEF Init, AllCovered, Covered, NoFile
<1>2. OpenShape
  BY DEF Init, OpenShape
<1> QED  BY <1>1, <1>2 DEF Shapes

\* No history file holds rows of another shape than its header, whatever cuts into the loop.
THEOREM RowsUnderTheirHeaderHolds == Spec => []RowsUnderTheirHeader
<1>1. Spec => []TypeInv
  BY TypeInit, TypeStep, PTL DEF Spec
<1>2. Spec => []Shapes
  BY <1>1, ShapesInit, ShapesStep, PTL DEF Spec
<1>3. Shapes => RowsUnderTheirHeader
  BY DEF Shapes, AllCovered, RowsUnderTheirHeader
<1> QED  BY <1>2, <1>3, PTL

-----------------------------------------------------------------------------
(* The rows. *)

Idle == {"poll", "hung", "tmp", "fill", "replace", "rows", "notify", "sleep"}

\* As long as the loop runs it has a writer, or stands on a day that is stuck.
Rowed ==
  running =>
    /\ pc \in {"header", "flushed", "dated", "row", "flush"} => writer
    /\ pc = "check" => writer \/ (stuck = date /\ date # 0)
    /\ pc \in Idle /\ date # 0 => writer \/ stuck = date

LEMMA RowedStep ==
  ASSUME TypeInv, Rowed, [Next]_vars
  PROVE  Rowed'
<1> USE DEF Goes, file
<1>1. CASE PollOnce \/ WriteState \/ Rests \/ Hangs
  <2>1. UNCHANGED <<running, writer, stuck, date>>
    BY <1>1 DEF PollOnce, WriteState, Rests, Hangs
  <2>2. pc \in Idle /\ pc' \in Idle
    BY <1>1 DEF PollOnce, WriteState, Rests, Hangs, Idle
  <2> QED  BY <2>1, <2>2 DEF Rowed, Idle
<1>2. CASE NextRow
  <2>1. UNCHANGED <<running, writer, stuck, date, today>> /\ pc = "rows"
    BY <1>2 DEF NextRow
  <2>2. pc' \in {"notify", "close", "prepare"} \/ (pc' = "check" /\ date = today)
    BY <1>2 DEF NextRow
  <2>3. date = today => date # 0
    BY DaemonAssumption DEF TypeInv, TypeOK
  <2> QED  BY <2>1, <2>2, <2>3 DEF Rowed, Idle
<1>3. CASE MakeRoom
  <2>1. CASE CloseOld
    BY <2>1 DEF CloseOld, Rowed, Idle
  <2>2. CASE Prepare \/ PrepareUnread
    BY <2>2 DEF Prepare, PrepareUnread, Rowed, Idle
  <2>3. CASE PrepareStuck
    BY <2>3 DEF PrepareStuck, Rowed, Idle, TypeInv, Known, Opens
  <2> QED  BY <1>3, <2>1, <2>2, <2>3 DEF MakeRoom
<1>4. CASE Open
  <2>1. UNCHANGED <<running, stuck>>
    BY <1>4 DEF Open
  <2>2. CASE pc \in {"open", "wrap"}
    BY <1>4, <2>1, <2>2 DEF Open, Rowed, Idle
  <2>3. CASE pc \in {"header", "flushed", "dated"}
    BY <1>4, <2>1, <2>3 DEF Open, Rowed, Idle
  <2> QED  BY <1>4, <2>2, <2>3 DEF Open
<1>5. CASE WriteRow
  <2>1. UNCHANGED <<running, writer, stuck, date>>
    BY <1>5 DEF WriteRow
  <2>2. CASE pc = "check"
    BY <1>5, <2>1, <2>2 DEF WriteRow, Rowed, Idle
  <2>3. CASE pc \in {"row", "flush"}
    BY <1>5, <2>1, <2>3 DEF WriteRow, Rowed, Idle
  <2> QED  BY <1>5, <2>2, <2>3 DEF WriteRow
<1>6. CASE Stop
  BY <1>6 DEF Stop, StopRunning, Rowed
<1>7. CASE \E failure \in BOOLEAN : Gone(failure)
  BY <1>7 DEF Gone, Rowed, Idle
<1>8. CASE Starts
  BY <1>8 DEF Starts, Rowed, Idle
<1>9. CASE UNCHANGED <<process, stuck>>
  BY <1>9 DEF process, Rowed
<1>10. Midnight \/ Upgrade \/ UNCHANGED vars => UNCHANGED <<process, stuck>>
  BY DEF Midnight, Upgrade, vars
<1> QED  BY <1>1, <1>2, <1>3, <1>4, <1>5, <1>6, <1>7, <1>8, <1>9, <1>10, Actions

\* A radio goes without its row only after a signal, or on a day that is stuck.
THEOREM RowsKeptHolds == Spec => RowsKept
<1>1. Spec => []TypeInv
  BY TypeInit, TypeStep, PTL DEF Spec
<1>2. Init => Rowed
  BY DEF Init, Rowed, Idle
<1>3. Spec => []Rowed
  BY <1>1, <1>2, RowedStep, PTL DEF Spec
<1>4. ASSUME TypeInv, Rowed, [Next]_vars, pc = "check", pc' = "rows"
      PROVE  ~running \/ (stuck = date /\ date # 0)
  <2>1. WriteRow => ~writer
    BY <1>4 DEF WriteRow, Goes
  <2>2. CASE ~writer
    BY <1>4, <2>2 DEF Rowed
  <2>3. PollOnce \/ WriteState \/ NextRow \/ Rests \/ Hangs => FALSE
    BY <1>4 DEF PollOnce, WriteState, NextRow, Rests, Hangs, Goes
  <2>4. MakeRoom \/ Open => FALSE
    BY <1>4 DEF MakeRoom, CloseOld, Prepare, PrepareUnread, PrepareStuck, Open, Goes
  <2>5. Stop \/ UNCHANGED process => FALSE
    BY <1>4 DEF Stop, process
  <2>6. (\E failure \in BOOLEAN : Gone(failure)) \/ Starts => FALSE
    BY <1>4 DEF Gone, Starts
  <2>7. Midnight \/ Upgrade \/ UNCHANGED vars => UNCHANGED process
    BY DEF Midnight, Upgrade, vars
  <2> QED  BY <1>4, <2>1, <2>2, <2>3, <2>4, <2>5, <2>6, <2>7, Actions
<1>5. TypeInv /\ Rowed /\ [Next]_vars
      => [pc = "check" /\ pc' = "rows" => ~running \/ (stuck = date /\ date # 0)]_vars
  BY <1>4
<1> QED  BY <1>1, <1>3, <1>5, PTL DEF Spec, RowsKept
====

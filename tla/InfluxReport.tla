---------------------------- MODULE InfluxReport ----------------------------
(***************************************************************************)
(* Reporting to InfluxDB (influx_db.rs, and its use in gossip_main.rs).    *)
(* The main thread pushes data points into a locked queue; the influx      *)
(* thread takes them out and spawns a task for each, which posts it over   *)
(* HTTP; a Tracker counts what was taken and what was answered.  The last  *)
(* point, "end", tells the influx thread to leave once the two counts are  *)
(* equal; main joins it before the program ends.                           *)
(*                                                                         *)
(* A step is what a thread does between two points where another can       *)
(* interfere: one locked section, one spawn, one answer of the server.     *)
(* The executor has a fixed number of threads, and `send` blocks the one   *)
(* it runs on until the server answers.  A panic of run_simulation, or a   *)
(* missing credential, ends the process with everything in it.             *)
(***************************************************************************)
EXTENDS DataPoints, FiniteSets

CONSTANTS
  Settings,   \* the cases considered: see SettingsAssumption
  Buckets,    \* buckets of each histogram
  Workers     \* threads of the executor

\* A setting has a script, the points run_simulation pushes; what becomes of
\* each request, "ok", "error", or "silent" where no answer ever comes; and
\* whether the clock may stand still from one point to the next.
ASSUME SettingsAssumption ==
  /\ {Buckets, Workers} \subseteq Nat \ {0}
  /\ \A s \in Settings :
       /\ s.script \in Seq([kind : {"stakes", "start", "config", "round", "final"}, sim : Nat])
       /\ s.fate \in [DOMAIN s.script -> {"ok", "error", "silent"}]
       /\ s.standstill \in BOOLEAN

VARIABLES
  setting,      \* input: one of Settings
  points,       \* the points main has pushed, each as its lines
  clock,        \* what main would read from the system's clock
  mainPc,       \* "simulate", then "join" and "exit", or "dead"
  queue,        \* datapoint_queue: positions in the script; one past it is "end"
  influxPc,     \* the influx thread's place in its loop
  taken,        \* the point it holds
  rxLast,       \* rx_last_datapoint
  dequeued,     \* Tracker.dequeued
  sent,         \* Tracker.sent
  spawned,      \* points whose task waits for a thread of the executor
  posting,      \* points whose task waits for the server's answer
  answered,     \* points whose task has the answer and not yet counted it
  stored,       \* points the server has accepted
  lost,         \* points that met an error
  database      \* the fields the server has for each key

mainVars == <<setting, points, clock, mainPc>>
threadVars == <<influxPc, taken, rxLast>>
taskVars == <<spawned, posting, answered, stored, lost, database>>
vars == <<mainVars, queue, threadVars, dequeued, sent, taskVars>>

Script == setting.script
Positions == DOMAIN Script
EndMark == Len(Script) + 1
DataPoints == {p \in Positions : Script[p].kind # "start"}

Init ==
  /\ setting \in Settings
  /\ points = <<>>
  /\ clock = 0
  /\ mainPc = "simulate"
  /\ queue = <<>>
  /\ influxPc = "begin"
  /\ taken = 0
  /\ rxLast = FALSE
  /\ dequeued = 0
  /\ sent = 0
  /\ spawned = {} /\ posting = {} /\ answered = {} /\ stored = {} /\ lost = {}
  /\ database = <<>>

\* The process runs.
Alive == mainPc \in {"simulate", "join"}

-----------------------------------------------------------------------------
(* The main thread.                                                        *)

\* The lines of a point; a start point has none that are sent.
LinesOf(point) ==
  CASE point.kind = "stakes" -> StakesPoint(Buckets)
    [] point.kind = "config" -> ConfigPoint(point.sim)
    [] point.kind = "round" -> RoundPoint(point.sim)
    [] point.kind = "final" -> FinalPoint(point.sim, Buckets)
    [] OTHER -> <<>>

\* run_simulation creates a point and pushes it under the queue's lock.
PushPoint ==
  /\ mainPc = "simulate"
  /\ Len(points) < Len(Script)
  /\ LET now == IF setting.standstill THEN clock ELSE clock + 1
         lines == LinesOf(Script[Len(points) + 1])
     IN  /\ points' = Append(points, Stamped(lines, now))
         /\ clock' = ClockAfter(lines, now)
  /\ queue' = Append(queue, Len(points'))
  /\ UNCHANGED <<setting, mainPc, threadVars, dequeued, sent, taskVars>>

\* run_simulation panics: main unwinds, and the process ends without "end".
\* It may do so before it has its nodes, and in what comes before a round's
\* point and before the final one.
Panic ==
  /\ mainPc = "simulate"
  /\ Len(points) < Len(Script)
  /\ LET next == Script[Len(points) + 1]
     IN  next.kind \in {"stakes", "round", "final"} \/ (next.kind = "start" /\ next.sim > 0)
  /\ mainPc' = "dead"
  /\ UNCHANGED <<setting, points, clock, queue, threadVars, dequeued, sent, taskVars>>

\* The simulations are over: push "end" and join the influx thread.
PushLast ==
  /\ mainPc = "simulate"
  /\ Len(points) = Len(Script)
  /\ queue' = Append(queue, EndMark)
  /\ mainPc' = "join"
  /\ UNCHANGED <<setting, points, clock, threadVars, dequeued, sent, taskVars>>

\* join returns once the influx thread has left its loop.
JoinReturns ==
  /\ mainPc = "join"
  /\ influxPc = "left"
  /\ mainPc' = "exit"
  /\ UNCHANGED <<setting, points, clock, queue, threadVars, dequeued, sent, taskVars>>

-----------------------------------------------------------------------------
(* InfluxThread::start.                                                    *)

\* The thread reads the credentials from the environment: one that is not set
\* ends the process, whatever main is doing.
Begin ==
  /\ Alive
  /\ influxPc = "begin"
  /\ \/ influxPc' = "pop" /\ UNCHANGED mainPc
     \/ mainPc' = "dead" /\ UNCHANGED influxPc
  /\ UNCHANGED <<setting, points, clock, queue, taken, rxLast, dequeued, sent, taskVars>>

\* pop_front on an empty queue: look at the counts if the end has been seen.
PopNothing ==
  /\ Alive
  /\ influxPc = "pop"
  /\ queue = <<>>
  /\ influxPc' = IF rxLast THEN "check" ELSE "pop"
  /\ UNCHANGED <<mainVars, queue, taken, rxLast, dequeued, sent, taskVars>>

\* pop_front of "end": the end has been seen.
PopLast ==
  /\ Alive
  /\ influxPc = "pop"
  /\ queue # <<>>
  /\ Head(queue) = EndMark
  /\ queue' = Tail(queue)
  /\ rxLast' = TRUE
  /\ influxPc' = "check"
  /\ UNCHANGED <<mainVars, taken, dequeued, sent, taskVars>>

\* pop_front of a start point: it sets the pace and is not sent.
PopStart ==
  /\ Alive
  /\ influxPc = "pop"
  /\ queue # <<>>
  /\ Head(queue) # EndMark
  /\ Script[Head(queue)].kind = "start"
  /\ queue' = Tail(queue)
  /\ influxPc' = IF rxLast THEN "check" ELSE "pop"
  /\ UNCHANGED <<mainVars, taken, rxLast, dequeued, sent, taskVars>>

\* pop_front of a data point.
PopData ==
  /\ Alive
  /\ influxPc = "pop"
  /\ queue # <<>>
  /\ Head(queue) # EndMark
  /\ Script[Head(queue)].kind # "start"
  /\ taken' = Head(queue)
  /\ queue' = Tail(queue)
  /\ influxPc' = "spawn"
  /\ UNCHANGED <<mainVars, rxLast, dequeued, sent, taskVars>>

\* Mutant: the thread waits for the requests that are open.
SpawnWhenIdle ==
  /\ Alive
  /\ influxPc = "spawn"
  /\ spawned \cup posting \cup answered = {}
  /\ spawned' = spawned \cup {taken}
  /\ influxPc' = "count"
  /\ UNCHANGED <<mainVars, queue, taken, rxLast, dequeued, sent, posting, answered, stored,
                 lost, database>>

\* send_data_points: the task is spawned, and the thread does not wait for it.
Spawn ==
  /\ Alive
  /\ influxPc = "spawn"
  /\ spawned' = spawned \cup {taken}
  /\ influxPc' = "count"
  /\ UNCHANGED <<mainVars, queue, taken, rxLast, dequeued, sent, posting, answered, stored,
                 lost, database>>

\* add_dequeued, under the tracker's lock.
CountDequeued ==
  /\ Alive
  /\ influxPc = "count"
  /\ dequeued' = dequeued + 1
  /\ influxPc' = IF rxLast THEN "check" ELSE "pop"
  /\ UNCHANGED <<mainVars, queue, taken, rxLast, sent, taskVars>>

\* Mutant: one open task is overlooked.
EqualButOne == dequeued <= sent + 1

\* Tracker::equal.
Equal == sent = dequeued

\* equal, under the tracker's lock: leave the loop or go round again.
CheckDrained ==
  /\ Alive
  /\ influxPc = "check"
  /\ influxPc' = IF Equal THEN "left" ELSE "pop"
  /\ UNCHANGED <<mainVars, queue, taken, rxLast, dequeued, sent, taskVars>>

-----------------------------------------------------------------------------
(* ReportToInflux::send, one task for each point.                          *)

\* A thread of the executor takes the task up and posts the point.
Post(p) ==
  /\ Alive
  /\ p \in spawned
  /\ Cardinality(posting \cup answered) < Workers
  /\ spawned' = spawned \ {p}
  /\ posting' = posting \cup {p}
  /\ UNCHANGED <<mainVars, queue, threadVars, dequeued, sent, answered, stored, lost, database>>

\* The server accepts the point.
AnswerOk(p) ==
  /\ Alive
  /\ p \in posting
  /\ setting.fate[p] = "ok"
  /\ posting' = posting \ {p}
  /\ answered' = answered \cup {p}
  /\ stored' = stored \cup {p}
  /\ database' = Written(database, p, points[p])
  /\ UNCHANGED <<mainVars, queue, threadVars, dequeued, sent, spawned, lost>>

\* Mutant: after an error the task returns before add_sent.
AnswerErrorUncounted(p) ==
  /\ Alive
  /\ p \in posting
  /\ setting.fate[p] = "error"
  /\ posting' = posting \ {p}
  /\ lost' = lost \cup {p}
  /\ UNCHANGED <<mainVars, queue, threadVars, dequeued, sent, spawned, answered, stored, database>>

\* The server refuses it, or the request fails: logged, and not tried again.
AnswerError(p) ==
  /\ Alive
  /\ p \in posting
  /\ setting.fate[p] = "error"
  /\ posting' = posting \ {p}
  /\ answered' = answered \cup {p}
  /\ lost' = lost \cup {p}
  /\ UNCHANGED <<mainVars, queue, threadVars, dequeued, sent, spawned, stored, database>>

\* add_sent, under the tracker's lock, whatever the answer was.
CountSent(p) ==
  /\ Alive
  /\ p \in answered
  /\ answered' = answered \ {p}
  /\ sent' = sent + 1
  /\ UNCHANGED <<mainVars, queue, threadVars, dequeued, spawned, posting, stored, lost, database>>

-----------------------------------------------------------------------------
Main == PushPoint \/ PushLast \/ JoinReturns
Influx == \/ Begin \/ PopNothing \/ PopLast \/ PopStart \/ PopData
          \/ Spawn \/ CountDequeued \/ CheckDrained
Answer(p) == AnswerOk(p) \/ AnswerError(p)
Task(p) == Post(p) \/ Answer(p) \/ CountSent(p)
Tasks == \E p \in DataPoints : Task(p)

\* The program has ended.
Ended == ~Alive /\ UNCHANGED vars

Next == Main \/ Panic \/ Influx \/ Ended \/ Tasks

\* Main, the influx thread and the executor's threads run on.  A task has three
\* steps and there are finitely many tasks, so that what is fair to all of them
\* together is fair to each.  An answer comes unless the setting has it that
\* the server is silent.
Spec ==
  /\ Init /\ [][Next]_vars
  /\ WF_vars(Main) /\ WF_vars(Influx) /\ WF_vars(Tasks)

\* A position of any script.
AnyPosition == UNION {DOMAIN s.script : s \in Settings}

-----------------------------------------------------------------------------
(* Properties.                                                             *)

\* Every variable keeps its type.
TypeOK ==
  /\ setting \in Settings
  /\ Len(points) \in 0..Len(Script)
  /\ mainPc \in {"simulate", "join", "exit", "dead"}
  /\ queue \in Seq(1..EndMark)
  /\ influxPc \in {"begin", "pop", "spawn", "count", "check", "left"}
  /\ taken \in 0..Len(points)
  /\ rxLast \in BOOLEAN
  /\ dequeued \in Nat /\ sent \in Nat
  /\ spawned \subseteq DataPoints /\ posting \subseteq DataPoints /\ answered \subseteq DataPoints
  /\ stored \subseteq DataPoints /\ lost \subseteq DataPoints

\* The tasks that are open.
Open == spawned \cup posting \cup answered

\* The tracker counts the open tasks: what was taken and not answered.  While
\* the influx thread has spawned a task and not counted it, the tracker is one
\* short, so that sent may be ahead of dequeued; where `equal` is read, it is
\* not.
TrackerCountsTasks ==
  dequeued + (IF influxPc = "count" THEN 1 ELSE 0) = sent + Cardinality(Open)

\* The queue holds points later than the one taken, in the order of the script,
\* and "end" only once main has pushed it.
QueueInOrder ==
  /\ \A i \in 1..Len(queue) : queue[i] > taken
  /\ mainPc = "simulate" => \A i \in 1..Len(queue) : queue[i] <= Len(points)
  /\ \A i, j \in 1..Len(queue) : i < j => queue[i] < queue[j]

\* A task is in one place, has an outcome from its answer on, and there is none
\* yet for a point that has not been taken out of the queue.
TasksApart ==
  /\ spawned \cap posting = {}
  /\ (spawned \cup posting) \cap (answered \cup stored \cup lost) = {}
  /\ answered \subseteq stored \cup lost
  /\ \A p \in Open \cup stored \cup lost : p <= taken /\ (influxPc = "spawn" => p # taken)
  /\ influxPc = "spawn" => taken \in DataPoints

\* A point that has been pushed is in the queue, about to be spawned, or has its
\* task; the influx thread looks at the counts once it has seen the end, which
\* comes after all points.
NoneForgotten ==
  /\ \A p \in DataPoints : p <= Len(points) =>
       \/ \E i \in 1..Len(queue) : queue[i] = p
       \/ influxPc = "spawn" /\ p = taken
       \/ p \in Open \cup stored \cup lost
  /\ mainPc \in {"join", "exit"} => Len(points) = Len(Script)
  /\ rxLast => queue = <<>> /\ Len(points) = Len(Script) /\ mainPc # "simulate"
  /\ influxPc \in {"check", "left"} => rxLast

\* The invariant behind the two that follow from it: the account of the tracker
\* and the promise of Delivery.
ReportInv == TypeOK /\ TrackerCountsTasks /\ QueueInOrder /\ TasksApart /\ NoneForgotten

\* "need this delay because timestamps are somtimes the same across calls ...
\* when this happens influx takes only one of the datapoints with the same
\* timestamp" (influx_db.rs:327): whatever order the points arrive in, the
\* database has every line of every histogram it was sent, also of those whose
\* lines have no tag to tell one simulation from the next.  The other lines
\* rely on the clock to move on from one point to the next.
Excused(line, given) == line.own /\ given.standstill
LinesKept ==
  \A p \in stored : \A i \in DOMAIN points[p] :
    LET line == points[p][i]
    IN  Excused(line, setting) \/ database[KeyOf(line)] = <<p, i>>

\* The invariant behind it: the lines of a histogram are told from the others by
\* their measurement, and bear a time before the clock, no two of them the same;
\* what has been stored is in the database, unless it could be overwritten.
OwnMeasurements ==
  {"simulation_config", "config", "rmr", "coverage", "hops_stat", "stranded_node_stats",
   "branching_factor", "iteration", "stranded_node_iterations"}
LineInTime(line, now) ==
  /\ line.own <=> line.series[1] \in OwnMeasurements
  /\ line.time \in 0..now
  /\ ~line.own => line.time < now
LinesInv ==
  /\ clock \in Nat
  /\ \A p \in 1..Len(points) :
       DOMAIN points[p] \subseteq Nat /\ \A i \in DOMAIN points[p] : LineInTime(points[p][i], clock)
  /\ \A p, q \in 1..Len(points) : \A i \in DOMAIN points[p], j \in DOMAIN points[q] :
       KeyOf(points[p][i]) = KeyOf(points[q][j]) /\ <<p, i>> # <<q, j>>
         => Excused(points[p][i], setting)
  /\ \A p \in stored : \A i \in DOMAIN points[p] :
       /\ KeyOf(points[p][i]) \in DOMAIN database
       /\ Excused(points[p][i], setting) \/ database[KeyOf(points[p][i])] = <<p, i>>

\* The program ends if no request is left without an answer.
Ends ==
  (\A p \in DataPoints : setting.fate[p] # "silent") => <>(mainPc \in {"exit", "dead"})

\* A request that is never answered holds up one thread of the executor and
\* nothing else: while there are fewer such requests than threads, every point
\* of every simulation is posted in the end, unless the process ends before.
AllPosted ==
  Cardinality({p \in DataPoints : setting.fate[p] = "silent"}) < Workers =>
    <>(mainPc = "dead" \/ DataPoints \subseteq posting \cup answered \cup stored \cup lost)

\* The report keeps the promise Delivery states: it is closed only when every
\* data point of every simulation has come to an end, and so never after a
\* panic.
Reporting == INSTANCE Delivery
  WITH Points <- AnyPosition,
       outcome <- [p \in DataPoints |-> IF p \in stored THEN "stored"
                                        ELSE IF p \in lost THEN "lost" ELSE "pending"],
       closed <- (influxPc = "left")
KeepsPromise == Reporting!DeliverySpec
=============================================================================

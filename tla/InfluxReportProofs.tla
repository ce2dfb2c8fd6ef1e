------------------------- MODULE InfluxReportProofs -------------------------
(***************************************************************************)
(* Theorems about the reporting to InfluxDB, for every script of points,   *)
(* every fate of the requests, every number of threads of the executor.    *)
(* ReportInv, defined in InfluxReport, is the inductive invariant; each    *)
(* action preserves it by one lemma.  That the report keeps the promise of *)
(* Delivery follows from it.  With LinesInv it also shows that the         *)
(* database keeps the lines of the points, in the second half.             *)
(***************************************************************************)
EXTENDS InfluxReport, DataProofs

-----------------------------------------------------------------------------
(* The setting.                                                            *)

\* A script has finitely many positions, and the end mark lies past them.
LEMMA ScriptFacts ==
  ASSUME setting \in Settings
  PROVE  /\ Len(Script) \in Nat
         /\ Positions = 1..Len(Script)
         /\ EndMark = Len(Script) + 1
         /\ DataPoints \subseteq 1..Len(Script)
         /\ IsFiniteSet(DataPoints)
<1> DEFINE Kinds == {"stakes", "start", "config", "round", "final"}
<1>1. Script \in Seq([kind : Kinds, sim : Nat])
  BY SettingsAssumption DEF Script
<1>2. Len(Script) \in Nat /\ Positions = 1..Len(Script)
  BY <1>1 DEF Positions
<1>3. DataPoints \subseteq 1..Len(Script)
  BY <1>2 DEF DataPoints
<1>4. IsFiniteSet(1..Len(Script))
  BY <1>2, FS_Interval
<1>5. IsFiniteSet(DataPoints)
  BY <1>3, <1>4, FS_Subset
<1>6. QED
  BY <1>2, <1>3, <1>5 DEF EndMark

\* Nothing that depends on the setting changes.
LEMMA SameSetting ==
  ASSUME setting' = setting
  PROVE  Script' = Script /\ EndMark' = EndMark /\ DataPoints' = DataPoints
BY DEF Script, EndMark, DataPoints, Positions

\* The open tasks are finitely many.
LEMMA OpenFinite ==
  ASSUME TypeOK
  PROVE  IsFiniteSet(Open) /\ Cardinality(Open) \in Nat /\ Open \subseteq DataPoints
<1>1. Open \subseteq DataPoints /\ setting \in Settings
  BY DEF TypeOK, Open
<1>2. IsFiniteSet(DataPoints)
  BY <1>1, ScriptFacts
<1>3. QED
  BY <1>1, <1>2, FS_Subset, FS_CardinalityType

-----------------------------------------------------------------------------
(* The initial states, and a step that changes nothing.                    *)

\* Nothing is pushed, queued or counted at the start.
LEMMA InitReportInv == Init => ReportInv
<1> SUFFICES ASSUME Init PROVE ReportInv
  OBVIOUS
<1> USE DEF Init
<1>1. setting \in Settings /\ Len(points) = 0 /\ Len(queue) = 0
  OBVIOUS
<1>2. Len(Script) \in Nat /\ DataPoints \subseteq 1..Len(Script)
  BY <1>1, ScriptFacts
<1>3. Open = {} /\ Cardinality(Open) = 0
  BY FS_EmptySet DEF Open
<1>4. TypeOK
  <2>1. queue \in Seq(1..EndMark)
    BY EmptySeq
  <2>2. Len(points) \in 0..Len(Script) /\ taken \in 0..Len(points)
    BY <1>1, <1>2
  <2>3. /\ mainPc \in {"simulate", "join", "exit", "dead"}
        /\ influxPc \in {"begin", "pop", "spawn", "count", "check", "left"}
        /\ rxLast \in BOOLEAN /\ dequeued \in Nat /\ sent \in Nat
    OBVIOUS
  <2>4. /\ spawned \subseteq DataPoints /\ posting \subseteq DataPoints
        /\ answered \subseteq DataPoints
        /\ stored \subseteq DataPoints /\ lost \subseteq DataPoints
    OBVIOUS
  <2>5. QED
    BY <1>1, <2>1, <2>2, <2>3, <2>4 DEF TypeOK
<1>5. TrackerCountsTasks
  BY <1>3 DEF TrackerCountsTasks
<1>6. QueueInOrder
  BY <1>1 DEF QueueInOrder
<1>7. TasksApart
  BY <1>3 DEF TasksApart
<1>8. NoneForgotten
  BY <1>1, <1>2 DEF NoneForgotten
<1>9. QED
  BY <1>4, <1>5, <1>6, <1>7, <1>8 DEF ReportInv

\* What the invariant is about.
invVars == <<setting, points, mainPc, queue, influxPc, taken, rxLast, dequeued, sent,
             spawned, posting, answered, stored, lost>>

\* A step outside the variables of the invariant preserves it.
LEMMA StutterReportInv == ReportInv /\ UNCHANGED invVars => ReportInv'
<1> SUFFICES ASSUME ReportInv, UNCHANGED invVars PROVE ReportInv'
  OBVIOUS
<1>1. Script' = Script /\ EndMark' = EndMark /\ DataPoints' = DataPoints
  BY SameSetting DEF invVars
<1>2. Open' = Open
  BY DEF Open, invVars
<1>3. TypeOK'
  BY <1>1 DEF ReportInv, TypeOK, invVars
<1>4. TrackerCountsTasks' /\ QueueInOrder' /\ TasksApart' /\ NoneForgotten'
  BY <1>1, <1>2
     DEF ReportInv, TrackerCountsTasks, QueueInOrder, TasksApart, NoneForgotten, invVars
<1>5. QED
  BY <1>3, <1>4 DEF ReportInv

-----------------------------------------------------------------------------
(* The main thread.                                                        *)

\* The points are a sequence, of whatever lines.
PointsInSeq == \E S : points \in Seq(S)

\* A pushed point makes the sequence one longer.
LEMMA AppendPoint ==
  ASSUME PointsInSeq, NEW lines, points' = Append(points, lines)
  PROVE  PointsInSeq' /\ Len(points') = Len(points) + 1
<1>1. PICK S : points \in Seq(S)
  BY DEF PointsInSeq
<1>2. points \in Seq(S \cup {lines})
  BY <1>1, SeqMonotonic
<1>3. points' \in Seq(S \cup {lines}) /\ Len(points') = Len(points) + 1
  BY <1>2, AppendProperties
<1>4. QED
  BY <1>3 DEF PointsInSeq

\* A position later than all others joins the queue.
LEMMA AppendPosition ==
  ASSUME TypeOK, NEW m \in 1..EndMark, queue' = Append(queue, m)
  PROVE  /\ queue' \in Seq(1..EndMark)
         /\ Len(queue) \in Nat /\ Len(queue') = Len(queue) + 1
         /\ \A i \in 1..Len(queue) : queue'[i] = queue[i] /\ queue[i] \in Nat
         /\ queue'[Len(queue) + 1] = m
<1>1. queue \in Seq(1..EndMark)
  BY DEF TypeOK
<1>2. EndMark \in Nat
  BY ScriptFacts DEF TypeOK
<1>3. Len(queue) \in Nat /\ \A i \in 1..Len(queue) : queue[i] \in 1..EndMark
  BY <1>1, LenProperties, ElementOfSeq
<1>4. /\ queue' \in Seq(1..EndMark)
      /\ Len(queue') = Len(queue) + 1
      /\ \A i \in 1..Len(queue) : queue'[i] = queue[i]
      /\ queue'[Len(queue) + 1] = m
  BY <1>1, AppendProperties
<1>5. QED
  BY <1>2, <1>3, <1>4

\* main pushes a point: the queue stays in the order of the script.
LEMMA PushPointReportInv ==
  ASSUME ReportInv, PointsInSeq, PushPoint
  PROVE  ReportInv' /\ PointsInSeq'
<1>0. TypeOK /\ TrackerCountsTasks /\ QueueInOrder /\ TasksApart /\ NoneForgotten
  BY DEF ReportInv
<1>1. /\ setting' = setting /\ mainPc = "simulate" /\ mainPc' = mainPc
      /\ UNCHANGED <<influxPc, taken, rxLast, dequeued, sent>>
      /\ UNCHANGED <<spawned, posting, answered, stored, lost>>
      /\ Len(points) < Len(Script)
      /\ queue' = Append(queue, Len(points'))
  BY DEF PushPoint, threadVars, taskVars
<1>2. PICK lines : points' = Append(points, lines)
  BY DEF PushPoint
<1>3. PointsInSeq' /\ Len(points') = Len(points) + 1
  BY <1>2, AppendPoint
<1>4. /\ Len(Script) \in Nat /\ EndMark = Len(Script) + 1 /\ DataPoints \subseteq 1..Len(Script)
      /\ Len(points) \in 0..Len(Script) /\ taken \in 0..Len(points)
  BY <1>0, ScriptFacts DEF TypeOK
<1>5. Script' = Script /\ EndMark' = EndMark /\ DataPoints' = DataPoints /\ Open' = Open
  BY <1>1, SameSetting DEF Open
<1>6. Len(points') \in 1..EndMark
  BY <1>1, <1>3, <1>4
<1>7. /\ queue' \in Seq(1..EndMark)
      /\ Len(queue) \in Nat /\ Len(queue') = Len(queue) + 1
      /\ \A i \in 1..Len(queue) : queue'[i] = queue[i] /\ queue[i] \in Nat
      /\ queue'[Len(queue) + 1] = Len(points')
  BY <1>0, <1>1, <1>6, AppendPosition
<1>8. TypeOK'
  <2>1. Len(points') \in 0..Len(Script) /\ taken \in 0..Len(points')
    BY <1>1, <1>3, <1>4
  <2>2. QED
    BY <1>0, <1>1, <1>5, <1>7, <2>1 DEF TypeOK
<1>9. TrackerCountsTasks'
  BY <1>0, <1>1, <1>5 DEF TrackerCountsTasks
<1>10. QueueInOrder'
  <2>1. \A i \in 1..Len(queue) : queue[i] > taken /\ queue[i] <= Len(points)
    BY <1>0, <1>1 DEF QueueInOrder
  <2>2. \A i, j \in 1..Len(queue) : i < j => queue[i] < queue[j]
    BY <1>0 DEF QueueInOrder
  <2>3. \A i \in 1..Len(queue') : queue'[i] > taken /\ queue'[i] <= Len(points')
    BY SMTT(60), <1>3, <1>4, <1>7, <2>1
  <2>4. \A i, j \in 1..Len(queue') : i < j => queue'[i] < queue'[j]
    <3> SUFFICES ASSUME NEW i \in 1..Len(queue'), NEW j \in 1..Len(queue'), i < j
                 PROVE  queue'[i] < queue'[j]
      OBVIOUS
    <3>1. i \in 1..Len(queue)
      BY <1>7
    <3>2. queue'[i] = queue[i] /\ queue[i] <= Len(points) /\ queue[i] \in Nat
      BY <1>7, <2>1, <3>1
    <3>3. CASE j = Len(queue) + 1
      <4>1. queue'[j] = Len(points) + 1 /\ Len(points) \in Nat
        BY <1>3, <1>4, <1>7, <3>3
      <4>2. QED
        BY <3>2, <4>1
    <3>4. CASE j \in 1..Len(queue)
      <4>1. queue'[j] = queue[j]
        BY <1>7, <3>4
      <4>2. queue[i] < queue[j]
        BY <2>2, <3>1, <3>4
      <4>3. QED
        BY <3>2, <4>1, <4>2
    <3>5. j = Len(queue) + 1 \/ j \in 1..Len(queue)
      BY <1>7
    <3>6. QED
      BY <3>3, <3>4, <3>5
  <2>5. QED
    BY <1>1, <2>3, <2>4 DEF QueueInOrder
<1>11. TasksApart'
  BY <1>0, <1>1, <1>5 DEF TasksApart
<1>12. NoneForgotten'
  <2>1. ~rxLast /\ influxPc \notin {"check", "left"}
    BY <1>0, <1>1 DEF NoneForgotten
  <2>2. ASSUME NEW p \in DataPoints, p <= Len(points')
        PROVE  \/ \E i \in 1..Len(queue') : queue'[i] = p
               \/ influxPc = "spawn" /\ p = taken
               \/ p \in Open \cup stored \cup lost
    <3>1. CASE p = Len(points')
      BY <1>7, <3>1
    <3>2. CASE p <= Len(points)
      BY <1>0, <1>7, <3>2 DEF NoneForgotten
    <3>3. QED
      BY <1>3, <1>4, <2>2, <3>1, <3>2
  <2>3. QED
    BY <1>1, <1>5, <2>1, <2>2 DEF NoneForgotten
<1>13. QED
  BY <1>3, <1>8, <1>9, <1>10, <1>11, <1>12 DEF ReportInv

\* main pushes the last data point, at the end of the queue.
LEMMA PushLastReportInv ==
  ASSUME ReportInv, PushLast
  PROVE  ReportInv'
<1>0. TypeOK /\ TrackerCountsTasks /\ QueueInOrder /\ TasksApart /\ NoneForgotten
  BY DEF ReportInv
<1>1. /\ setting' = setting /\ points' = points /\ mainPc = "simulate" /\ mainPc' = "join"
      /\ UNCHANGED <<influxPc, taken, rxLast, dequeued, sent>>
      /\ UNCHANGED <<spawned, posting, answered, stored, lost>>
      /\ Len(points) = Len(Script)
      /\ queue' = Append(queue, EndMark)
  BY DEF PushLast, threadVars, taskVars
<1>2. /\ Len(Script) \in Nat /\ EndMark = Len(Script) + 1 /\ DataPoints \subseteq 1..Len(Script)
      /\ taken \in 0..Len(points)
  BY <1>0, ScriptFacts DEF TypeOK
<1>3. Script' = Script /\ EndMark' = EndMark /\ DataPoints' = DataPoints /\ Open' = Open
  BY <1>1, SameSetting DEF Open
<1>4. EndMark \in 1..EndMark
  BY <1>2
<1>5. /\ queue' \in Seq(1..EndMark)
      /\ Len(queue) \in Nat /\ Len(queue') = Len(queue) + 1
      /\ \A i \in 1..Len(queue) : queue'[i] = queue[i] /\ queue[i] \in Nat
      /\ queue'[Len(queue) + 1] = EndMark
  BY <1>0, <1>1, <1>4, AppendPosition
<1>6. TypeOK'
  BY <1>0, <1>1, <1>3, <1>5 DEF TypeOK
<1>7. TrackerCountsTasks'
  BY <1>0, <1>1, <1>3 DEF TrackerCountsTasks
<1>8. QueueInOrder'
  <2>1. \A i \in 1..Len(queue) : queue[i] > taken /\ queue[i] <= Len(points)
    BY <1>0, <1>1 DEF QueueInOrder
  <2>2. \A i, j \in 1..Len(queue) : i < j => queue[i] < queue[j]
    BY <1>0 DEF QueueInOrder
  <2>3. \A i \in 1..Len(queue') : queue'[i] > taken
    BY <1>1, <1>2, <1>5, <2>1
  <2>4. \A i, j \in 1..Len(queue') : i < j => queue'[i] < queue'[j]
    <3> SUFFICES ASSUME NEW i \in 1..Len(queue'), NEW j \in 1..Len(queue'), i < j
                 PROVE  queue'[i] < queue'[j]
      OBVIOUS
    <3>1. i \in 1..Len(queue)
      BY <1>5
    <3>2. queue'[i] = queue[i] /\ queue[i] <= Len(points) /\ queue[i] \in Nat
      BY <1>5, <2>1, <3>1
    <3>3. CASE j = Len(queue) + 1
      <4>1. queue'[j] = Len(Script) + 1 /\ Len(points) = Len(Script)
        BY <1>1, <1>2, <1>5, <3>3
      <4>2. QED
        BY <1>2, <3>2, <4>1
    <3>4. CASE j \in 1..Len(queue)
      <4>1. queue'[j] = queue[j]
        BY <1>5, <3>4
      <4>2. queue[i] < queue[j]
        BY <2>2, <3>1, <3>4
      <4>3. QED
        BY <3>2, <4>1, <4>2
    <3>5. j = Len(queue) + 1 \/ j \in 1..Len(queue)
      BY <1>5
    <3>6. QED
      BY <3>3, <3>4, <3>5
  <2>5. QED
    BY <1>1, <2>3, <2>4 DEF QueueInOrder
<1>9. TasksApart'
  BY <1>0, <1>1, <1>3 DEF TasksApart
<1>10. NoneForgotten'
  <2>1. ~rxLast /\ influxPc \notin {"check", "left"}
    BY <1>0, <1>1 DEF NoneForgotten
  <2>2. ASSUME NEW p \in DataPoints, p <= Len(points)
        PROVE  \/ \E i \in 1..Len(queue') : queue'[i] = p
               \/ influxPc = "spawn" /\ p = taken
               \/ p \in Open \cup stored \cup lost
    BY <1>0, <1>5, <2>2 DEF NoneForgotten
  <2>3. QED
    BY <1>1, <1>3, <2>1, <2>2 DEF NoneForgotten
<1>11. QED
  BY <1>6, <1>7, <1>8, <1>9, <1>10 DEF ReportInv

\* main dies, alone or with the influx thread's credentials, or comes to its
\* end.
LEMMA MainStopsReportInv ==
  ASSUME ReportInv, mainPc' \in {"dead", "exit"},
         mainPc' = "exit" => mainPc = "join",
         UNCHANGED <<setting, points, queue, influxPc, taken, rxLast, dequeued, sent>>,
         UNCHANGED <<spawned, posting, answered, stored, lost>>
  PROVE  ReportInv'
<1>0. TypeOK /\ TrackerCountsTasks /\ QueueInOrder /\ TasksApart /\ NoneForgotten
  BY DEF ReportInv
<1>1. Script' = Script /\ EndMark' = EndMark /\ DataPoints' = DataPoints /\ Open' = Open
  BY SameSetting DEF Open
<1>2. TypeOK'
  BY <1>0, <1>1 DEF TypeOK
<1>3. TrackerCountsTasks' /\ TasksApart'
  BY <1>0, <1>1 DEF TrackerCountsTasks, TasksApart
<1>4. QueueInOrder'
  BY <1>0 DEF QueueInOrder
<1>5. NoneForgotten'
  BY <1>0, <1>1 DEF NoneForgotten
<1>6. QED
  BY <1>2, <1>3, <1>4, <1>5 DEF ReportInv

-----------------------------------------------------------------------------
(* The influx thread.                                                      *)

\* What its place in the loop says when it changes: the checks come after the
\* end, a task is not spawned and not counted in passing.
LEMMA ThreadMovesReportInv ==
  ASSUME ReportInv,
         influxPc \notin {"spawn", "count"}, influxPc' \in {"pop", "check", "left"},
         influxPc' \in {"check", "left"} => rxLast,
         UNCHANGED <<setting, points, mainPc, queue, taken, rxLast, dequeued, sent>>,
         UNCHANGED <<spawned, posting, answered, stored, lost>>
  PROVE  ReportInv'
<1>0. TypeOK /\ TrackerCountsTasks /\ QueueInOrder /\ TasksApart /\ NoneForgotten
  BY DEF ReportInv
<1>1. Script' = Script /\ EndMark' = EndMark /\ DataPoints' = DataPoints /\ Open' = Open
  BY SameSetting DEF Open
<1>2. TypeOK'
  BY <1>0, <1>1 DEF TypeOK
<1>3. TrackerCountsTasks'
  BY <1>0, <1>1 DEF TrackerCountsTasks
<1>4. QueueInOrder' /\ TasksApart'
  BY <1>0, <1>1 DEF QueueInOrder, TasksApart
<1>5. NoneForgotten'
  BY <1>0, <1>1 DEF NoneForgotten
<1>6. QED
  BY <1>2, <1>3, <1>4, <1>5 DEF ReportInv

\* The head leaves the queue.
LEMMA TakeHead ==
  ASSUME TypeOK, queue # <<>>, queue' = Tail(queue)
  PROVE  /\ queue' \in Seq(1..EndMark)
         /\ Len(queue) \in Nat /\ Len(queue) > 0 /\ Len(queue') = Len(queue) - 1
         /\ Head(queue) = queue[1]
         /\ \A i \in 1..Len(queue') : queue'[i] = queue[i + 1]
         /\ \A i \in 1..Len(queue) : queue[i] \in 1..EndMark
<1>1. queue \in Seq(1..EndMark)
  BY DEF TypeOK
<1>2. Len(queue) \in Nat /\ Len(queue) > 0 /\ \A i \in 1..Len(queue) : queue[i] \in 1..EndMark
  <2>1. Len(queue) \in Nat \ {0}
    BY <1>1, EmptySeq
  <2>2. \A i \in 1..Len(queue) : queue[i] \in 1..EndMark
    BY <1>1, ElementOfSeq
  <2>3. QED
    BY <2>1, <2>2
<1>3. /\ queue' \in Seq(1..EndMark) /\ Len(queue') = Len(queue) - 1
      /\ \A i \in 1..Len(queue') : queue'[i] = queue[i + 1]
  BY <1>1, HeadTailProperties
<1>4. Head(queue) = queue[1]
  BY <1>1
<1>5. QED
  BY <1>2, <1>3, <1>4

\* What a queue that is in order keeps when its head leaves.
LEMMA TailInOrder ==
  ASSUME TypeOK, QueueInOrder, queue # <<>>, queue' = Tail(queue)
  PROVE  /\ \A i \in 1..Len(queue') : queue'[i] > Head(queue) /\ queue'[i] > taken
         /\ mainPc = "simulate" => \A i \in 1..Len(queue') : queue'[i] <= Len(points)
         /\ \A i, j \in 1..Len(queue') : i < j => queue'[i] < queue'[j]
<1>1. /\ Len(queue) \in Nat /\ Len(queue) > 0 /\ Len(queue') = Len(queue) - 1
      /\ Head(queue) = queue[1]
      /\ \A i \in 1..Len(queue') : queue'[i] = queue[i + 1]
      /\ \A i \in 1..Len(queue) : queue[i] \in 1..EndMark
  BY TakeHead
<1>2. \A i \in 1..Len(queue') : i + 1 \in 1..Len(queue) /\ 1 \in 1..Len(queue) /\ 1 < i + 1
  BY <1>1
<1>3. \A i \in 1..Len(queue') : queue'[i] > Head(queue) /\ queue'[i] > taken
  <2> SUFFICES ASSUME NEW i \in 1..Len(queue')
               PROVE  queue'[i] > Head(queue) /\ queue'[i] > taken
    OBVIOUS
  <2>1. queue'[i] = queue[i + 1] /\ queue[i + 1] > taken /\ queue[1] < queue[i + 1]
    BY <1>1, <1>2 DEF QueueInOrder
  <2>2. EndMark \in Nat /\ queue[1] \in 1..EndMark /\ queue[i + 1] \in 1..EndMark
    BY <1>1, <1>2, ScriptFacts DEF TypeOK
  <2>3. QED
    BY <1>1, <2>1, <2>2
<1>4. mainPc = "simulate" => \A i \in 1..Len(queue') : queue'[i] <= Len(points)
  BY <1>1, <1>2 DEF QueueInOrder
<1>5. \A i, j \in 1..Len(queue') : i < j => queue'[i] < queue'[j]
  <2> SUFFICES ASSUME NEW i \in 1..Len(queue'), NEW j \in 1..Len(queue'), i < j
               PROVE  queue'[i] < queue'[j]
    OBVIOUS
  <2>1. i + 1 \in 1..Len(queue) /\ j + 1 \in 1..Len(queue) /\ i + 1 < j + 1
    BY <1>2
  <2>2. queue[i + 1] < queue[j + 1]
    BY <2>1 DEF QueueInOrder
  <2>3. QED
    BY <1>1, <2>2
<1>6. QED
  BY <1>3, <1>4, <1>5

\* The end mark is the last thing in the queue, and main has pushed all points.
LEMMA PopLastReportInv ==
  ASSUME ReportInv, PopLast
  PROVE  ReportInv'
<1>0. TypeOK /\ TrackerCountsTasks /\ QueueInOrder /\ TasksApart /\ NoneForgotten
  BY DEF ReportInv
<1>1. /\ UNCHANGED <<setting, points, mainPc, taken, dequeued, sent>>
      /\ UNCHANGED <<spawned, posting, answered, stored, lost>>
      /\ mainPc \in {"simulate", "join"} /\ influxPc = "pop" /\ influxPc' = "check"
      /\ queue # <<>> /\ Head(queue) = EndMark /\ queue' = Tail(queue) /\ rxLast' = TRUE
  BY DEF PopLast, Alive, mainVars, taskVars
<1>2. /\ Len(Script) \in Nat /\ EndMark = Len(Script) + 1 /\ DataPoints \subseteq 1..Len(Script)
      /\ Len(points) \in 0..Len(Script)
  BY <1>0, ScriptFacts DEF TypeOK
<1>3. Script' = Script /\ EndMark' = EndMark /\ DataPoints' = DataPoints /\ Open' = Open
  BY <1>1, SameSetting DEF Open
<1>4. /\ queue' \in Seq(1..EndMark)
      /\ Len(queue) \in Nat /\ Len(queue) > 0 /\ Len(queue') = Len(queue) - 1
      /\ Head(queue) = queue[1]
      /\ \A i \in 1..Len(queue') : queue'[i] = queue[i + 1]
      /\ \A i \in 1..Len(queue) : queue[i] \in 1..EndMark
  BY <1>0, <1>1, TakeHead
<1>5. Len(queue') = 0
  <2> SUFFICES ASSUME Len(queue') # 0 PROVE FALSE
    OBVIOUS
  <2>1. 1 \in 1..Len(queue') /\ 2 \in 1..Len(queue)
    BY <1>4
  <2>2. \A i \in 1..Len(queue') : queue'[i] > Head(queue)
    BY <1>0, <1>1, TailInOrder
  <2>3. queue'[1] > EndMark
    BY <1>1, <2>1, <2>2
  <2>4. queue'[1] = queue[2] /\ queue[2] \in 1..EndMark
    <3>1. queue'[1] = queue[1 + 1]
      BY <1>4, <2>1
    <3>2. QED
      BY <1>4, <2>1, <3>1
  <2>5. QED
    BY <1>2, <2>3, <2>4
<1>6. queue' = <<>>
  BY <1>4, <1>5, EmptySeq
<1>7. mainPc # "simulate"
  <2>1. 1 \in 1..Len(queue)
    BY <1>4
  <2>2. mainPc = "simulate" => queue[1] <= Len(points)
    BY <1>0, <2>1 DEF QueueInOrder
  <2>3. QED
    BY <1>1, <1>2, <1>4, <2>2
<1>8. mainPc = "join" /\ Len(points) = Len(Script)
  BY <1>0, <1>1, <1>7 DEF NoneForgotten
<1>9. TypeOK'
  BY <1>0, <1>1, <1>3, <1>4 DEF TypeOK
<1>10. TrackerCountsTasks' /\ TasksApart'
  BY <1>0, <1>1, <1>3 DEF TrackerCountsTasks, TasksApart
<1>11. QueueInOrder'
  BY <1>5 DEF QueueInOrder
<1>12. NoneForgotten'
  <2>1. ASSUME NEW p \in DataPoints
        PROVE  p \in Open \cup stored \cup lost
    <3>1. p <= Len(points) /\ p # EndMark
      BY <1>2, <1>8
    <3>2. ~ \E i \in 1..Len(queue) : queue[i] = p
      BY <1>1, <1>4, <1>5, <3>1
    <3>3. QED
      BY <1>0, <1>1, <3>1, <3>2 DEF NoneForgotten
  <2>2. QED
    BY <1>1, <1>3, <1>6, <1>8, <2>1 DEF NoneForgotten
<1>13. QED
  BY <1>9, <1>10, <1>11, <1>12 DEF ReportInv

\* Another head leaves the queue: a start point, or a data point that is taken.
LEMMA PopReportInv ==
  ASSUME ReportInv, PopStart \/ PopData
  PROVE  ReportInv'
<1>0. TypeOK /\ TrackerCountsTasks /\ QueueInOrder /\ TasksApart /\ NoneForgotten
  BY DEF ReportInv
<1>1. /\ UNCHANGED <<setting, points, mainPc, rxLast, dequeued, sent>>
      /\ UNCHANGED <<spawned, posting, answered, stored, lost>>
      /\ influxPc = "pop" /\ queue # <<>> /\ Head(queue) # EndMark /\ queue' = Tail(queue)
  BY DEF PopStart, PopData, mainVars, taskVars
<1>2. /\ Len(Script) \in Nat /\ EndMark = Len(Script) + 1 /\ DataPoints \subseteq 1..Len(Script)
      /\ Positions = 1..Len(Script) /\ Len(points) \in 0..Len(Script)
      /\ taken \in 0..Len(points)
  BY <1>0, ScriptFacts DEF TypeOK
<1>3. Script' = Script /\ EndMark' = EndMark /\ DataPoints' = DataPoints /\ Open' = Open
  BY <1>1, SameSetting DEF Open
<1>4. /\ queue' \in Seq(1..EndMark)
      /\ Len(queue) \in Nat /\ Len(queue) > 0 /\ Len(queue') = Len(queue) - 1
      /\ Head(queue) = queue[1]
      /\ \A i \in 1..Len(queue') : queue'[i] = queue[i + 1]
      /\ \A i \in 1..Len(queue) : queue[i] \in 1..EndMark
  BY <1>0, <1>1, TakeHead
<1>5. ~rxLast
  BY <1>0, <1>1 DEF NoneForgotten
<1>6. Head(queue) \in Positions /\ Head(queue) > taken /\ Head(queue) <= Len(points)
  <2>1. 1 \in 1..Len(queue)
    BY <1>4
  <2>2. Head(queue) > taken /\ Head(queue) \in 1..EndMark
    BY <1>0, <1>4, <2>1 DEF QueueInOrder
  <2>3. Head(queue) \in 1..Len(Script)
    BY <1>1, <1>2, <2>2
  <2>4. mainPc = "simulate" => Head(queue) <= Len(points)
    BY <1>0, <1>4, <2>1 DEF QueueInOrder
  <2>5. mainPc \in {"simulate", "join", "exit"}
    BY <1>0, <1>1 DEF PopStart, PopData, Alive
  <2>6. mainPc # "simulate" => Len(points) = Len(Script)
    BY <1>0, <2>5 DEF NoneForgotten
  <2>7. QED
    BY <1>2, <2>2, <2>3, <2>4, <2>6
<1>7. CASE PopStart
  <2>1. taken' = taken /\ influxPc' = "pop" /\ Script[Head(queue)].kind = "start"
    BY <1>5, <1>7 DEF PopStart
  <2>2. Head(queue) \notin DataPoints
    BY <2>1 DEF DataPoints
  <2>3. TypeOK'
    BY <1>0, <1>1, <1>3, <1>4, <2>1 DEF TypeOK
  <2>4. TrackerCountsTasks' /\ TasksApart'
    BY <1>0, <1>1, <1>3, <2>1 DEF TrackerCountsTasks, TasksApart
  <2>5. QueueInOrder'
    BY <1>0, <1>1, <2>1, TailInOrder DEF QueueInOrder
  <2>6. NoneForgotten'
    <3>1. ASSUME NEW p \in DataPoints, p <= Len(points)
          PROVE  \/ \E i \in 1..Len(queue') : queue'[i] = p
                 \/ p \in Open \cup stored \cup lost
      <4>1. ASSUME NEW i \in 1..Len(queue), queue[i] = p
            PROVE  \E j \in 1..Len(queue') : queue'[j] = p
        <5>1. i # 1 /\ i - 1 \in 1..Len(queue')
          BY <1>4, <2>2, <4>1
        <5>2. queue'[i - 1] = p
          BY <1>4, <4>1, <5>1
        <5>3. QED
          BY <5>1, <5>2
      <4>2. QED
        BY <1>0, <1>1, <3>1, <4>1 DEF NoneForgotten
    <3>2. QED
      BY <1>0, <1>1, <1>3, <1>5, <2>1, <3>1 DEF NoneForgotten
  <2>7. QED
    BY <2>3, <2>4, <2>5, <2>6 DEF ReportInv
<1>8. CASE PopData
  <2>1. taken' = Head(queue) /\ influxPc' = "spawn" /\ Script[Head(queue)].kind # "start"
    BY <1>8 DEF PopData
  <2>2. Head(queue) \in DataPoints
    BY <1>6, <2>1 DEF DataPoints
  <2>3. TypeOK'
    <3>1. taken' \in 0..Len(points)
      BY <1>2, <1>6, <2>1
    <3>2. QED
      BY <1>0, <1>1, <1>3, <1>4, <2>1, <3>1 DEF TypeOK
  <2>4. TrackerCountsTasks'
    BY <1>0, <1>1, <1>3, <2>1 DEF TrackerCountsTasks
  <2>5. TasksApart'
    <3>1. \A p \in Open \cup stored \cup lost : p \in Nat /\ p <= taken
      BY <1>0, <1>2 DEF TasksApart, TypeOK, Open
    <3>2. \A p \in Open \cup stored \cup lost : p <= taken' /\ p # taken'
      BY <1>2, <1>6, <2>1, <3>1
    <3>3. QED
      BY <1>0, <1>1, <1>3, <2>1, <2>2, <3>2 DEF TasksApart
  <2>6. QueueInOrder'
    BY <1>0, <1>1, <2>1, TailInOrder DEF QueueInOrder
  <2>7. NoneForgotten'
    <3>1. ASSUME NEW p \in DataPoints, p <= Len(points)
          PROVE  \/ \E i \in 1..Len(queue') : queue'[i] = p
                 \/ p = taken'
                 \/ p \in Open \cup stored \cup lost
      <4>1. ASSUME NEW i \in 1..Len(queue), queue[i] = p, i # 1
            PROVE  \E j \in 1..Len(queue') : queue'[j] = p
        <5>1. i - 1 \in 1..Len(queue')
          BY <1>4, <4>1
        <5>2. queue'[i - 1] = p
          BY <1>4, <4>1, <5>1
        <5>3. QED
          BY <5>1, <5>2
      <4>2. QED
        BY <1>0, <1>1, <1>4, <2>1, <3>1, <4>1 DEF NoneForgotten
    <3>2. QED
      BY <1>0, <1>1, <1>3, <1>5, <2>1, <3>1 DEF NoneForgotten
  <2>8. QED
    BY <2>3, <2>4, <2>5, <2>6, <2>7 DEF ReportInv
<1>9. QED
  BY <1>7, <1>8

\* The task of the point that is held: it has none so far.
LEMMA SpawnReportInv ==
  ASSUME ReportInv, Spawn
  PROVE  ReportInv'
<1>0. TypeOK /\ TrackerCountsTasks /\ QueueInOrder /\ TasksApart /\ NoneForgotten
  BY DEF ReportInv
<1>1. /\ UNCHANGED <<setting, points, mainPc, queue, taken, rxLast, dequeued, sent>>
      /\ UNCHANGED <<posting, answered, stored, lost>>
      /\ influxPc = "spawn" /\ influxPc' = "count" /\ spawned' = spawned \cup {taken}
  BY DEF Spawn, mainVars
<1>2. Script' = Script /\ EndMark' = EndMark /\ DataPoints' = DataPoints
  BY <1>1, SameSetting
<1>3. taken \in DataPoints /\ taken \notin Open \cup stored \cup lost
  BY <1>0, <1>1 DEF TasksApart
<1>4. Open' = Open \cup {taken}
  BY <1>1 DEF Open
<1>5. TypeOK'
  BY <1>0, <1>1, <1>2, <1>3 DEF TypeOK
<1>6. TrackerCountsTasks'
  <2>1. IsFiniteSet(Open) /\ Cardinality(Open) \in Nat
    BY <1>0, OpenFinite
  <2>2. Cardinality(Open') = Cardinality(Open) + 1
    BY <1>3, <1>4, <2>1, FS_AddElement
  <2>3. dequeued = sent + Cardinality(Open) /\ dequeued \in Nat /\ sent \in Nat
    BY <1>0, <1>1, <2>1 DEF TrackerCountsTasks, TypeOK
  <2>4. dequeued + 1 = sent + Cardinality(Open')
    BY <2>1, <2>2, <2>3
  <2>5. QED
    BY <1>1, <2>4 DEF TrackerCountsTasks
<1>7. QueueInOrder'
  BY <1>0, <1>1 DEF QueueInOrder
<1>8. TasksApart'
  <2>1. taken \in 0..Len(points) /\ Len(points) \in Nat
    BY <1>0, ScriptFacts DEF TypeOK
  <2>2. \A p \in Open' \cup stored \cup lost : p <= taken
    BY <1>0, <1>4, <2>1 DEF TasksApart
  <2>3. /\ spawned' \cap posting = {}
        /\ (spawned' \cup posting) \cap (answered \cup stored \cup lost) = {}
    BY <1>0, <1>1, <1>3 DEF TasksApart, Open
  <2>4. QED
    BY <1>0, <1>1, <2>2, <2>3 DEF TasksApart
<1>9. NoneForgotten'
  BY <1>0, <1>1, <1>2, <1>4 DEF NoneForgotten
<1>10. QED
  BY <1>5, <1>6, <1>7, <1>8, <1>9 DEF ReportInv

\* add_dequeued counts the task that was just spawned.
LEMMA CountDequeuedReportInv ==
  ASSUME ReportInv, CountDequeued
  PROVE  ReportInv'
<1>0. TypeOK /\ TrackerCountsTasks /\ QueueInOrder /\ TasksApart /\ NoneForgotten
  BY DEF ReportInv
<1>1. /\ UNCHANGED <<setting, points, mainPc, queue, taken, rxLast, sent>>
      /\ UNCHANGED <<spawned, posting, answered, stored, lost>>
      /\ influxPc = "count" /\ dequeued' = dequeued + 1
      /\ influxPc' = IF rxLast THEN "check" ELSE "pop"
  BY DEF CountDequeued, mainVars, taskVars
<1>2. Script' = Script /\ EndMark' = EndMark /\ DataPoints' = DataPoints /\ Open' = Open
  BY <1>1, SameSetting DEF Open
<1>3. influxPc' \in {"pop", "check"} /\ (influxPc' = "check" => rxLast)
  BY <1>1
<1>4. TypeOK'
  BY <1>0, <1>1, <1>2, <1>3 DEF TypeOK
<1>5. TrackerCountsTasks'
  <2>1. Cardinality(Open) \in Nat /\ dequeued \in Nat /\ sent \in Nat
    BY <1>0, OpenFinite DEF TypeOK
  <2>2. dequeued + 1 = sent + Cardinality(Open)
    BY <1>0, <1>1 DEF TrackerCountsTasks
  <2>3. QED
    BY <1>1, <1>2, <1>3, <2>1, <2>2 DEF TrackerCountsTasks
<1>6. QueueInOrder' /\ TasksApart'
  BY <1>0, <1>1, <1>2, <1>3 DEF QueueInOrder, TasksApart
<1>7. NoneForgotten'
  BY <1>0, <1>1, <1>2, <1>3 DEF NoneForgotten
<1>8. QED
  BY <1>4, <1>5, <1>6, <1>7 DEF ReportInv

-----------------------------------------------------------------------------
(* The tasks.                                                              *)

\* A task moves on and stays open.
LEMMA TaskMovesReportInv ==
  ASSUME ReportInv, NEW p \in DataPoints, Post(p) \/ AnswerOk(p) \/ AnswerError(p)
  PROVE  ReportInv'
<1>0. TypeOK /\ TrackerCountsTasks /\ QueueInOrder /\ TasksApart /\ NoneForgotten
  BY DEF ReportInv
<1>1. UNCHANGED <<setting, points, mainPc, queue, influxPc, taken, rxLast, dequeued, sent>>
  BY DEF Post, AnswerOk, AnswerError, mainVars, threadVars
<1>2. Script' = Script /\ EndMark' = EndMark /\ DataPoints' = DataPoints
  BY <1>1, SameSetting
<1>3. /\ Open' = Open /\ stored' \cup lost' \subseteq Open \cup stored \cup lost
      /\ stored \cup lost \subseteq stored' \cup lost'
      /\ spawned' \subseteq DataPoints /\ posting' \subseteq DataPoints
      /\ answered' \subseteq DataPoints /\ stored' \subseteq DataPoints /\ lost' \subseteq DataPoints
      /\ spawned' \cap posting' = {}
      /\ (spawned' \cup posting') \cap (answered' \cup stored' \cup lost') = {}
      /\ answered' \subseteq stored' \cup lost'
  <2>1. CASE Post(p)
    BY <1>0, <2>1 DEF Post, Open, TypeOK, TasksApart
  <2>2. CASE AnswerOk(p)
    BY <1>0, <2>2 DEF AnswerOk, Open, TypeOK, TasksApart
  <2>3. CASE AnswerError(p)
    BY <1>0, <2>3 DEF AnswerError, Open, TypeOK, TasksApart
  <2>4. QED
    BY <2>1, <2>2, <2>3
<1>4. TypeOK'
  BY <1>0, <1>1, <1>2, <1>3 DEF TypeOK
<1>5. TrackerCountsTasks' /\ QueueInOrder'
  BY <1>0, <1>1, <1>3 DEF TrackerCountsTasks, QueueInOrder
<1>6. TasksApart'
  <2>1. \A q \in Open \cup stored \cup lost : q <= taken /\ (influxPc = "spawn" => q # taken)
    BY <1>0 DEF TasksApart
  <2>2. \A q \in Open' \cup stored' \cup lost' :
          q <= taken' /\ (influxPc' = "spawn" => q # taken')
    BY <1>1, <1>3, <2>1
  <2>3. influxPc' = "spawn" => taken' \in DataPoints'
    BY <1>0, <1>1, <1>2 DEF TasksApart
  <2>4. QED
    BY <1>3, <2>2, <2>3 DEF TasksApart
<1>7. NoneForgotten'
  <2>1. ASSUME NEW q \in DataPoints, q <= Len(points)
        PROVE  \/ \E i \in 1..Len(queue) : queue[i] = q
               \/ influxPc = "spawn" /\ q = taken
               \/ q \in Open' \cup stored' \cup lost'
    BY <1>0, <1>3, <2>1 DEF NoneForgotten
  <2>2. QED
    BY <1>0, <1>1, <1>2, <2>1 DEF NoneForgotten
<1>8. QED
  BY <1>4, <1>5, <1>6, <1>7 DEF ReportInv

\* A task is over: it is in one place, so that there is one less.
LEMMA CountSentReportInv ==
  ASSUME ReportInv, NEW p \in DataPoints, CountSent(p)
  PROVE  ReportInv'
<1>0. TypeOK /\ TrackerCountsTasks /\ QueueInOrder /\ TasksApart /\ NoneForgotten
  BY DEF ReportInv
<1>1. /\ UNCHANGED <<setting, points, mainPc, queue, influxPc, taken, rxLast, dequeued>>
      /\ UNCHANGED <<spawned, posting, stored, lost>>
      /\ p \in answered /\ answered' = answered \ {p} /\ sent' = sent + 1
  BY DEF CountSent, mainVars, threadVars
<1>2. Script' = Script /\ EndMark' = EndMark /\ DataPoints' = DataPoints
  BY <1>1, SameSetting
<1>3. /\ p \in Open /\ Open' = Open \ {p}
      /\ Open' \cup stored \cup lost = Open \cup stored \cup lost
  BY <1>0, <1>1 DEF Open, TasksApart
<1>4. TypeOK'
  BY <1>0, <1>1, <1>2 DEF TypeOK
<1>5. TrackerCountsTasks'
  <2>1. IsFiniteSet(Open) /\ Cardinality(Open) \in Nat /\ dequeued \in Nat /\ sent \in Nat
    BY <1>0, OpenFinite DEF TypeOK
  <2>2. Cardinality(Open') = Cardinality(Open) - 1
    BY <1>3, <2>1, FS_RemoveElement
  <2>3. sent + Cardinality(Open) = sent' + Cardinality(Open')
    BY <1>1, <2>1, <2>2
  <2>4. QED
    BY <1>0, <1>1, <2>3 DEF TrackerCountsTasks
<1>6. QueueInOrder'
  BY <1>0, <1>1 DEF QueueInOrder
<1>7. TasksApart'
  BY <1>0, <1>1, <1>2, <1>3 DEF TasksApart
<1>8. NoneForgotten'
  BY <1>0, <1>1, <1>2, <1>3 DEF NoneForgotten
<1>9. QED
  BY <1>4, <1>5, <1>6, <1>7, <1>8 DEF ReportInv

-----------------------------------------------------------------------------
(* The invariant, and the promise.                                         *)

\* Every step preserves the invariant.
LEMMA StepReportInv ==
  ASSUME ReportInv, PointsInSeq, [Next]_vars
  PROVE  ReportInv' /\ PointsInSeq'
<1>1. CASE PushPoint
  BY <1>1, PushPointReportInv
<1>2. ASSUME points' = points, ReportInv'
      PROVE  ReportInv' /\ PointsInSeq'
  BY <1>2 DEF PointsInSeq
<1>3. CASE PushLast
  <2>1. points' = points
    BY <1>3 DEF PushLast
  <2>2. QED
    BY <1>2, <1>3, <2>1, PushLastReportInv
<1>4. CASE JoinReturns \/ Panic
  <2>1. /\ mainPc' \in {"dead", "exit"} /\ (mainPc' = "exit" => mainPc = "join")
        /\ UNCHANGED <<setting, points, queue, influxPc, taken, rxLast, dequeued, sent>>
        /\ UNCHANGED <<spawned, posting, answered, stored, lost>>
    BY <1>4 DEF JoinReturns, Panic, threadVars, taskVars
  <2>2. QED
    BY <1>2, <2>1, MainStopsReportInv
<1>5. CASE Begin
  <2>1. /\ UNCHANGED <<setting, points, queue, taken, rxLast, dequeued, sent>>
        /\ UNCHANGED <<spawned, posting, answered, stored, lost>>
        /\ influxPc = "begin"
    BY <1>5 DEF Begin, taskVars
  <2>2. CASE influxPc' = "pop" /\ UNCHANGED mainPc
    BY <1>2, <2>1, <2>2, ThreadMovesReportInv
  <2>3. CASE mainPc' = "dead" /\ UNCHANGED influxPc
    BY <1>2, <2>1, <2>3, MainStopsReportInv
  <2>4. QED
    BY <1>5, <2>2, <2>3 DEF Begin
<1>6. CASE PopNothing
  <2>1. /\ UNCHANGED <<setting, points, mainPc, queue, taken, rxLast, dequeued, sent>>
        /\ UNCHANGED <<spawned, posting, answered, stored, lost>>
        /\ influxPc = "pop" /\ influxPc' = IF rxLast THEN "check" ELSE "pop"
    BY <1>6 DEF PopNothing, mainVars, taskVars
  <2>2. influxPc' \in {"pop", "check"} /\ (influxPc' = "check" => rxLast)
    BY <2>1
  <2>3. QED
    BY <1>2, <2>1, <2>2, ThreadMovesReportInv
<1>7. CASE PopLast
  <2>1. points' = points
    BY <1>7 DEF PopLast, mainVars
  <2>2. QED
    BY <1>2, <1>7, <2>1, PopLastReportInv
<1>8. CASE PopStart \/ PopData
  <2>1. points' = points
    BY <1>8 DEF PopStart, PopData, mainVars
  <2>2. QED
    BY <1>2, <1>8, <2>1, PopReportInv
<1>9. CASE Spawn
  <2>1. points' = points
    BY <1>9 DEF Spawn, mainVars
  <2>2. QED
    BY <1>2, <1>9, <2>1, SpawnReportInv
<1>10. CASE CountDequeued
  <2>1. points' = points
    BY <1>10 DEF CountDequeued, mainVars
  <2>2. QED
    BY <1>2, <1>10, <2>1, CountDequeuedReportInv
<1>11. CASE CheckDrained
  <2>1. /\ UNCHANGED <<setting, points, mainPc, queue, taken, rxLast, dequeued, sent>>
        /\ UNCHANGED <<spawned, posting, answered, stored, lost>>
        /\ influxPc = "check" /\ influxPc' = IF Equal THEN "left" ELSE "pop"
    BY <1>11 DEF CheckDrained, mainVars, taskVars
  <2>2. influxPc' \in {"pop", "left"} /\ rxLast
    BY <2>1 DEF ReportInv, NoneForgotten
  <2>3. QED
    BY <1>2, <2>1, <2>2, ThreadMovesReportInv
<1>12. CASE Tasks
  <2>1. PICK p \in DataPoints : Task(p)
    BY <1>12 DEF Tasks
  <2>2. points' = points
    BY <2>1 DEF Task, Answer, Post, AnswerOk, AnswerError, CountSent, mainVars
  <2>3. CASE Post(p) \/ AnswerOk(p) \/ AnswerError(p)
    BY <1>2, <2>2, <2>3, TaskMovesReportInv
  <2>4. CASE CountSent(p)
    BY <1>2, <2>2, <2>4, CountSentReportInv
  <2>5. QED
    BY <2>1, <2>3, <2>4 DEF Task, Answer
<1>13. CASE UNCHANGED vars
  <2>1. points' = points /\ UNCHANGED invVars
    BY <1>13 DEF vars, mainVars, threadVars, taskVars, invVars
  <2>2. QED
    BY <1>2, <2>1, StutterReportInv
<1>14. QED
  BY <1>1, <1>3, <1>4, <1>5, <1>6, <1>7, <1>8, <1>9, <1>10, <1>11, <1>12, <1>13
     DEF Next, Main, Influx, Ended

\* Whatever the script, the answers and the threads of the executor: the tracker
\* accounts for the open tasks, the queue stays in order, no task is in two
\* places, and no pushed point is forgotten.
THEOREM ReportInvariance == Spec => []ReportInv
<1>1. Init => ReportInv /\ PointsInSeq
  <2>1. Init => PointsInSeq
    BY EmptySeq DEF Init, PointsInSeq
  <2>2. QED
    BY <2>1, InitReportInv
<1>2. (ReportInv /\ PointsInSeq) /\ [Next]_vars => (ReportInv /\ PointsInSeq)'
  BY StepReportInv
<1>3. QED
  BY <1>1, <1>2, PTL DEF Spec

\* The account of the tracker, and so the moment at which `equal` lets the
\* influx thread leave its loop, is right on every schedule.
THEOREM TrackerCorrect == Spec => []TrackerCountsTasks
<1>1. ReportInv => TrackerCountsTasks
  BY DEF ReportInv
<1>2. QED
  BY <1>1, ReportInvariance, PTL

-----------------------------------------------------------------------------
(* The refinement of Delivery.                                             *)

\* What has become of the points, in Delivery's terms.
Outcome == [p \in DataPoints |-> IF p \in stored THEN "stored"
                                 ELSE IF p \in lost THEN "lost" ELSE "pending"]

\* The positions of this script are among those of any.
LEMMA DataPointsAnywhere ==
  ASSUME setting \in Settings
  PROVE  DataPoints \subseteq AnyPosition
BY DEF AnyPosition, DataPoints, Positions, Script

\* Where the counts are equal after the end has been seen, every data point has
\* come to an end.
LEMMA EqualMeansDrained ==
  ASSUME ReportInv, influxPc = "check", Equal
  PROVE  DataPoints \subseteq stored \cup lost
<1>0. TypeOK /\ TrackerCountsTasks /\ NoneForgotten
  BY DEF ReportInv
<1>1. IsFiniteSet(Open) /\ Cardinality(Open) \in Nat /\ sent \in Nat /\ dequeued \in Nat
  BY <1>0, OpenFinite DEF TypeOK
<1>2. dequeued = sent + Cardinality(Open)
  BY <1>0, <1>1 DEF TrackerCountsTasks
<1>3. Cardinality(Open) = 0
  BY <1>1, <1>2 DEF Equal
<1>4. Open = {}
  BY <1>1, <1>3, FS_EmptySet
<1>5. queue = <<>> /\ Len(points) = Len(Script)
  BY <1>0 DEF NoneForgotten
<1>6. Len(queue) = 0
  BY <1>5
<1>7. ASSUME NEW p \in DataPoints
      PROVE  p \in stored \cup lost
  <2>1. p <= Len(points)
    BY <1>0, <1>5, ScriptFacts DEF TypeOK
  <2>2. ~ \E i \in 1..Len(queue) : queue[i] = p
    BY <1>6
  <2>3. QED
    BY <1>0, <1>4, <2>1, <2>2 DEF NoneForgotten
<1>8. QED
  BY <1>7

\* The answer of the server settles a point that was pending.
LEMMA AnswerResolves ==
  ASSUME ReportInv, NEW p \in DataPoints, AnswerOk(p) \/ AnswerError(p)
  PROVE  Reporting!Resolve(p)
<1>0. TasksApart
  BY DEF ReportInv
<1>1. DataPoints' = DataPoints /\ influxPc' = influxPc
  BY SameSetting DEF AnswerOk, AnswerError, mainVars, threadVars
<1>2. p \in DOMAIN Outcome /\ Outcome[p] = "pending"
  BY <1>0 DEF Outcome, TasksApart, AnswerOk, AnswerError
<1>3. CASE AnswerOk(p)
  <2>1. stored' = stored \cup {p} /\ lost' = lost
    BY <1>3 DEF AnswerOk
  <2>2. Outcome' = [Outcome EXCEPT ![p] = "stored"]
    BY <1>1, <2>1 DEF Outcome
  <2>3. QED
    BY <1>1, <1>2, <2>2 DEF Reporting!Resolve, Outcome
<1>4. CASE AnswerError(p)
  <2>1. stored' = stored /\ lost' = lost \cup {p}
    BY <1>4 DEF AnswerError
  <2>2. Outcome' = [Outcome EXCEPT ![p] = "lost"]
    BY <1>0, <1>1, <1>4, <2>1 DEF Outcome, TasksApart, AnswerError
  <2>3. QED
    BY <1>1, <1>2, <2>2 DEF Reporting!Resolve, Outcome
<1>5. QED
  BY <1>3, <1>4

\* Every step is a step of Delivery, or invisible to it.
LEMMA StepKeepsPromise ==
  ASSUME ReportInv, [Next]_vars
  PROVE  [Reporting!Close \/ \E p \in AnyPosition : Reporting!Resolve(p)]_(Reporting!deliveryVars)
<1>1. setting \in Settings
  BY DEF ReportInv, TypeOK
<1>2. ASSUME UNCHANGED <<setting, stored, lost>>, (influxPc' = "left") = (influxPc = "left")
      PROVE  UNCHANGED Reporting!deliveryVars
  BY <1>2, SameSetting DEF Reporting!deliveryVars
<1>3. CASE Main \/ Panic \/ UNCHANGED vars
  <2>1. UNCHANGED <<setting, stored, lost, influxPc>>
    BY <1>3 DEF Main, Panic, PushPoint, PushLast, JoinReturns, vars, mainVars, threadVars, taskVars
  <2>2. QED
    BY <1>2, <2>1
<1>4. CASE Begin \/ PopNothing \/ PopLast \/ PopStart \/ PopData \/ Spawn \/ CountDequeued
  <2>1. UNCHANGED <<setting, stored, lost>> /\ influxPc # "left" /\ influxPc' # "left"
    BY <1>4 DEF Begin, PopNothing, PopLast, PopStart, PopData, Spawn, CountDequeued,
                mainVars, taskVars
  <2>2. QED
    BY <1>2, <2>1
<1>5. CASE CheckDrained
  <2>1. /\ UNCHANGED <<setting, stored, lost>>
        /\ influxPc = "check" /\ influxPc' = IF Equal THEN "left" ELSE "pop"
    BY <1>5 DEF CheckDrained, mainVars, taskVars
  <2>2. CASE Equal
    <3>1. DataPoints \subseteq stored \cup lost
      BY <2>1, <2>2, EqualMeansDrained
    <3>2. DataPoints' = DataPoints
      BY <2>1, SameSetting
    <3>3. Reporting!Close
      BY <2>1, <2>2, <3>1, <3>2 DEF Reporting!Close
    <3>4. QED
      BY <3>3
  <2>3. CASE ~Equal
    BY <1>2, <2>1, <2>3
  <2>4. QED
    BY <2>2, <2>3
<1>6. CASE Tasks
  <2>1. PICK p \in DataPoints : Task(p)
    BY <1>6 DEF Tasks
  <2>2. CASE Post(p) \/ CountSent(p)
    <3>1. UNCHANGED <<setting, stored, lost, influxPc>>
      BY <2>2 DEF Post, CountSent, mainVars, threadVars
    <3>2. QED
      BY <1>2, <3>1
  <2>3. CASE AnswerOk(p) \/ AnswerError(p)
    <3>1. Reporting!Resolve(p)
      BY <2>3, AnswerResolves
    <3>2. p \in AnyPosition
      BY <1>1, DataPointsAnywhere
    <3>3. QED
      BY <3>1, <3>2
  <2>4. QED
    BY <2>1, <2>2, <2>3 DEF Task, Answer
<1>7. QED
  BY <1>3, <1>4, <1>5, <1>6 DEF Next, Influx, Ended

\* The reporting implements Delivery: each point comes to one end and keeps it,
\* and the influx thread leaves its loop only when all of them have.
THEOREM PromiseKept == Spec => KeepsPromise
<1>1. Init => Reporting!DeliveryInit
  <2> SUFFICES ASSUME Init PROVE Reporting!DeliveryInit
    OBVIOUS
  <2>1. setting \in Settings /\ stored = {} /\ lost = {} /\ influxPc = "begin"
    BY DEF Init
  <2>2. DataPoints \in SUBSET AnyPosition
    BY <2>1, DataPointsAnywhere
  <2>3. Outcome \in [DataPoints -> {"pending"}]
    BY <2>1 DEF Outcome
  <2>4. Outcome \in UNION {[reported -> {"pending"}] : reported \in SUBSET AnyPosition}
    BY <2>2, <2>3
  <2>5. QED
    BY <2>1, <2>4 DEF Reporting!DeliveryInit, Outcome
<1>2. ReportInv /\ [Next]_vars =>
        [Reporting!Close \/ \E p \in AnyPosition : Reporting!Resolve(p)]_(Reporting!deliveryVars)
  BY StepKeepsPromise
<1>3. QED
  BY <1>1, <1>2, ReportInvariance, PTL DEF Spec, KeepsPromise, Reporting!DeliverySpec

-----------------------------------------------------------------------------
(* The lines of a point.                                                   *)

SharedMeasurements ==
  {"validator_stake_distribution", "stranded_node_histogram", "aggregate_hops_histogram",
   "egress_message_count", "ingress_message_count", "prune_message_count"}
AnyLine == [measurement : OwnMeasurements \cup SharedMeasurements, tags : SUBSET Nat, own : BOOLEAN]

\* A measurement tells the one kind from the other.
LEMMA MeasurementsApart == OwnMeasurements \cap SharedMeasurements = {}
BY DEF OwnMeasurements, SharedMeasurements

\* Lines of which no two that bear the point's own time are of one measurement;
\* their measurements are among `names`.
WellNamed(lines, names) ==
  /\ lines \in Seq(AnyLine) /\ names \subseteq OwnMeasurements
  /\ \A i \in 1..Len(lines) : lines[i].own <=> lines[i].measurement \in OwnMeasurements
  /\ \A i \in 1..Len(lines) : lines[i].own => lines[i].measurement \in names
  /\ \A i, j \in 1..Len(lines) :
       lines[i].own /\ lines[i].measurement = lines[j].measurement => i = j

\* Lines after lines of other measurements.
LEMMA WellNamedConcat ==
  ASSUME NEW s, NEW t, NEW a, NEW b, WellNamed(s, a), WellNamed(t, b), a \cap b = {}
  PROVE  WellNamed(s \o t, a \cup b)
<1> DEFINE M == Len(s)
           N == Len(t)
           u == s \o t
<1>1. s \in Seq(AnyLine) /\ t \in Seq(AnyLine) /\ a \cup b \subseteq OwnMeasurements
  BY DEF WellNamed
<1>2. M \in Nat /\ N \in Nat
  BY <1>1, LenProperties
<1>3. /\ u \in Seq(AnyLine) /\ Len(u) = M + N
      /\ \A i \in 1..(M + N) : u[i] = IF i <= M THEN s[i] ELSE t[i - M]
  BY <1>1, ConcatProperties
<1>4. /\ \A i \in 1..M :
           /\ s[i].own <=> s[i].measurement \in OwnMeasurements
           /\ s[i].own => s[i].measurement \in a
      /\ \A i, j \in 1..M : s[i].own /\ s[i].measurement = s[j].measurement => i = j
      /\ \A i \in 1..N :
           /\ t[i].own <=> t[i].measurement \in OwnMeasurements
           /\ t[i].own => t[i].measurement \in b
      /\ \A i, j \in 1..N : t[i].own /\ t[i].measurement = t[j].measurement => i = j
  BY DEF WellNamed
<1> HIDE DEF u, M, N
<1>5. ASSUME NEW i \in 1..(M + N)
      PROVE  \/ i \in 1..M /\ u[i] = s[i]
             \/ i - M \in 1..N /\ u[i] = t[i - M]
  BY <1>2, <1>3
<1>6. ASSUME NEW i \in 1..(M + N)
      PROVE  /\ u[i].own <=> u[i].measurement \in OwnMeasurements
             /\ u[i].own => u[i].measurement \in a \cup b
  BY <1>4, <1>5
<1>7. ASSUME NEW i \in 1..(M + N), NEW j \in 1..(M + N), u[i].own,
             u[i].measurement = u[j].measurement
      PROVE  i = j
  <2>1. u[j].own
    BY <1>6, <1>7
  <2>2. CASE i \in 1..M /\ u[i] = s[i]
    <3>1. u[i].measurement \in a
      BY <1>4, <1>7, <2>2
    <3>2. j \in 1..M /\ u[j] = s[j]
      BY <1>4, <1>5, <1>7, <2>1, <3>1
    <3>3. QED
      BY <1>4, <1>7, <2>2, <3>2
  <2>3. CASE i - M \in 1..N /\ u[i] = t[i - M]
    <3>1. u[i].measurement \in b
      BY <1>4, <1>7, <2>3
    <3>2. j - M \in 1..N /\ u[j] = t[j - M]
      BY <1>4, <1>5, <1>7, <2>1, <3>1
    <3>3. i - M = j - M
      BY <1>4, <1>7, <2>3, <3>2
    <3>4. QED
      BY <1>2, <3>3
  <2>4. QED
    BY <1>5, <2>2, <2>3
<1>8. QED
  BY <1>1, <1>3, <1>6, <1>7 DEF WellNamed, u

\* Of the lines of a histogram none bears the point's own time.
LEMMA WellNamedHistogram ==
  ASSUME NEW name \in SharedMeasurements, NEW tags \in SUBSET Nat
  PROVE  WellNamed(HistogramLines(name, tags, Buckets), {})
<1> DEFINE s == HistogramLines(name, tags, Buckets)
           line == Line(name, tags, FALSE)
<1>1. Buckets \in Nat
  BY SettingsAssumption
<1>2. line \in AnyLine /\ line.own = FALSE /\ line.measurement = name
  BY DEF Line, AnyLine
<1>3. DOMAIN s = 1..Buckets /\ \A i \in 1..Buckets : s[i] = line
  BY DEF HistogramLines
<1> HIDE DEF line
<1>4. s \in [1..Buckets -> AnyLine]
  BY <1>2 DEF HistogramLines, line
<1>5. s \in Seq(AnyLine)
  BY <1>1, <1>4, SeqDef
<1> HIDE DEF s
<1>6. 1..Len(s) = 1..Buckets
  BY <1>3, <1>5, LenProperties
<1>7. \A i \in 1..Len(s) : s[i].own = FALSE /\ s[i].measurement = name
  BY <1>2, <1>3, <1>6
<1>8. name \notin OwnMeasurements
  BY MeasurementsApart
<1>9. QED
  BY <1>5, <1>7, <1>8 DEF WellNamed, s

\* One line with the point's own time.
LEMMA WellNamedOne ==
  ASSUME NEW name \in OwnMeasurements, NEW tags \in SUBSET Nat
  PROVE  WellNamed(OwnLines(<<name>>, tags), {name})
<1> DEFINE names == <<name>>
           s == OwnLines(names, tags)
           line == Line(name, tags, TRUE)
<1>2. line \in AnyLine /\ line.own = TRUE /\ line.measurement = name
  BY DEF Line, AnyLine
<1>3. DOMAIN names = 1..1 /\ names[1] = name
  OBVIOUS
<1> HIDE DEF names
<1>4. s = [i \in 1..1 |-> Line(names[i], tags, TRUE)]
  BY <1>3 DEF OwnLines
<1>5. DOMAIN s = 1..1 /\ \A i \in 1..1 : s[i] = line
  <2> HIDE DEF s
  <2>1. \A i \in 1..1 : i = 1
    OBVIOUS
  <2>2. QED
    BY <1>3, <1>4, <2>1
<1> HIDE DEF line
<1>6. s \in [1..1 -> AnyLine]
  <2>1. s = [i \in 1..1 |-> line]
    <3>1. \A i \in 1..1 : Line(names[i], tags, TRUE) = line
      <4>1. \A i \in 1..1 : names[i] = name
        BY <1>3
      <4>2. QED
        BY <4>1 DEF line
    <3> HIDE DEF s
    <3>2. QED
      BY <1>4, <3>1
  <2>2. QED
    BY <1>2, <2>1
<1>7. s \in Seq(AnyLine)
  BY <1>6, SeqDef
<1> HIDE DEF s
<1>8. 1..Len(s) = 1..1
  BY <1>5, <1>7, LenProperties
<1>9. \A i \in 1..Len(s) : i = 1 /\ s[i].own = TRUE /\ s[i].measurement = name
  BY <1>2, <1>5, <1>8
<1>10. QED
  BY <1>7, <1>9 DEF WellNamed, s, names

\* The measurements of the point of a round, in order.
RoundNames ==
  <<"rmr", "coverage", "hops_stat", "stranded_node_stats", "branching_factor", "iteration">>

\* No two of its lines are of one measurement.
LEMMA WellNamedRound ==
  ASSUME NEW sim \in Nat
  PROVE  WellNamed(RoundPoint(sim), OwnMeasurements)
<1> DEFINE s == RoundPoint(sim)
           tags == {sim}
<1>1. DOMAIN RoundNames = 1..6
  BY DEF RoundNames
<1>2. \A i \in 1..6 : RoundNames[i] \in OwnMeasurements
  BY DEF RoundNames, OwnMeasurements
<1>3. \A i, j \in 1..6 : RoundNames[i] = RoundNames[j] => i = j
  BY DEF RoundNames
<1>4. s = [i \in 1..6 |-> Line(RoundNames[i], tags, TRUE)]
  BY <1>1 DEF RoundPoint, OwnLines, RoundNames
<1>6. \A n \in OwnMeasurements :
        /\ Line(n, tags, TRUE) \in AnyLine
        /\ Line(n, tags, TRUE).own = TRUE /\ Line(n, tags, TRUE).measurement = n
  BY DEF Line, AnyLine
<1> HIDE DEF s, tags
<1>7. s \in [1..6 -> AnyLine]
  BY <1>2, <1>4, <1>6
<1>8. s \in Seq(AnyLine)
  BY <1>7, SeqDef
<1>9. 1..Len(s) = 1..6
  BY <1>7, <1>8, LenProperties
<1>10. \A i \in 1..6 : s[i].own /\ s[i].measurement = RoundNames[i]
  BY <1>2, <1>4, <1>6
<1>11. /\ \A i \in 1..Len(s) : s[i].own /\ s[i].measurement \in OwnMeasurements
       /\ \A i, j \in 1..Len(s) : s[i].measurement = s[j].measurement => i = j
  <2>1. \A i \in 1..Len(s) : s[i].own
    BY <1>9, <1>10
  <2>2. \A i \in 1..Len(s) : s[i].measurement \in OwnMeasurements
    BY <1>2, <1>9, <1>10
  <2>3. ASSUME NEW i \in 1..Len(s), NEW j \in 1..Len(s), s[i].measurement = s[j].measurement
        PROVE  i = j
    <3>1. i \in 1..6 /\ j \in 1..6
      BY <1>9
    <3>2. RoundNames[i] = RoundNames[j]
      BY <1>10, <2>3, <3>1
    <3>3. QED
      BY <1>3, <3>1, <3>2
  <2>4. QED
    BY <2>1, <2>2, <2>3
<1>12. WellNamed(s, OwnMeasurements)
  BY <1>8, <1>11 DEF WellNamed
<1>13. QED
  BY <1>12 DEF s

\* The lines of the last point of a simulation.
LEMMA WellNamedFinal ==
  ASSUME NEW sim \in Nat
  PROVE  WellNamed(FinalPoint(sim, Buckets), {"stranded_node_iterations", "iteration"})
<1> DEFINE s1 == OwnLines(<<"stranded_node_iterations">>, {sim})
           s2 == HistogramLines("stranded_node_histogram", {}, Buckets)
           s3 == HistogramLines("aggregate_hops_histogram", {}, Buckets)
           s4 == HistogramLines("egress_message_count", {sim}, Buckets)
           s5 == HistogramLines("ingress_message_count", {sim}, Buckets)
           s6 == HistogramLines("prune_message_count", {sim}, Buckets)
           s7 == OwnLines(<<"iteration">>, {sim})
           first == {"stranded_node_iterations"}
           last == {"iteration"}
<1>1. {sim} \in SUBSET Nat /\ {} \in SUBSET Nat
  OBVIOUS
<1>2. WellNamed(s1, first) /\ WellNamed(s7, last)
  BY <1>1, WellNamedOne DEF OwnMeasurements
<1>3. /\ WellNamed(s2, {}) /\ WellNamed(s3, {}) /\ WellNamed(s4, {})
      /\ WellNamed(s5, {}) /\ WellNamed(s6, {})
  <2>1. {"stranded_node_histogram", "aggregate_hops_histogram", "egress_message_count",
         "ingress_message_count", "prune_message_count"} \subseteq SharedMeasurements
    BY DEF SharedMeasurements
  <2>2. QED
    BY <1>1, <2>1, WellNamedHistogram
<1>4. FinalPoint(sim, Buckets) = s1 \o s2 \o s3 \o s4 \o s5 \o s6 \o s7
  BY DEF FinalPoint
<1>5. first \cap {} = {} /\ first \cup {} = first /\ first \cap last = {}
      /\ first \cup last = {"stranded_node_iterations", "iteration"}
  OBVIOUS
<1> HIDE DEF s1, s2, s3, s4, s5, s6, s7, first, last
<1>6. WellNamed(s1 \o s2, first)
  BY <1>2, <1>3, <1>5, WellNamedConcat
<1>7. WellNamed(s1 \o s2 \o s3, first)
  BY <1>3, <1>5, <1>6, WellNamedConcat
<1>8. WellNamed(s1 \o s2 \o s3 \o s4, first)
  BY <1>3, <1>5, <1>7, WellNamedConcat
<1>9. WellNamed(s1 \o s2 \o s3 \o s4 \o s5, first)
  BY <1>3, <1>5, <1>8, WellNamedConcat
<1>10. WellNamed(s1 \o s2 \o s3 \o s4 \o s5 \o s6, first)
  BY <1>3, <1>5, <1>9, WellNamedConcat
<1>11. WellNamed(s1 \o s2 \o s3 \o s4 \o s5 \o s6 \o s7, first \cup last)
  BY <1>2, <1>5, <1>10, WellNamedConcat
<1>12. QED
  BY <1>4, <1>5, <1>11

\* The lines of any point.
LEMMA WellNamedPoint ==
  ASSUME setting \in Settings, NEW k \in DOMAIN Script
  PROVE  \E names : WellNamed(LinesOf(Script[k]), names)
<1> DEFINE Kinds == {"stakes", "start", "config", "round", "final"}
           point == Script[k]
<1>1. Script \in Seq([kind : Kinds, sim : Nat])
  BY SettingsAssumption DEF Script
<1>2. point \in [kind : Kinds, sim : Nat]
  <2> DEFINE S == [kind : Kinds, sim : Nat]
  <2> HIDE DEF S
  <2>1. Script \in Seq(S)
    BY <1>1 DEF S
  <2>2. Script \in [1..Len(Script) -> S] /\ DOMAIN Script = 1..Len(Script)
    BY <2>1, LenProperties
  <2>3. point \in S
    BY <2>2
  <2>4. QED
    BY <2>3 DEF S
<1>3. point.kind \in Kinds /\ point.sim \in Nat
  BY <1>2
<1> HIDE DEF point
<1>4. {point.sim} \in SUBSET Nat /\ {} \in SUBSET Nat
  BY <1>3
<1>5. CASE point.kind = "stakes"
  <2> DEFINE s == OwnLines(<<"simulation_config">>, {})
             t == HistogramLines("validator_stake_distribution", {}, Buckets)
             names == {"simulation_config"}
  <2>1. WellNamed(s, names)
    BY <1>4, WellNamedOne DEF OwnMeasurements
  <2>2. WellNamed(t, {})
    BY <1>4, WellNamedHistogram DEF SharedMeasurements
  <2>3. LinesOf(point) = s \o t
    BY <1>5 DEF LinesOf, StakesPoint
  <2> HIDE DEF s, t, names
  <2>4. WellNamed(s \o t, names \cup {})
    BY <2>1, <2>2, WellNamedConcat
  <2>5. QED
    BY <2>3, <2>4 DEF point
<1>6. CASE point.kind = "config"
  <2>1. LinesOf(point) = OwnLines(<<"config">>, {point.sim})
    BY <1>6 DEF LinesOf, ConfigPoint
  <2>2. WellNamed(OwnLines(<<"config">>, {point.sim}), {"config"})
    BY <1>4, WellNamedOne DEF OwnMeasurements
  <2>3. QED
    BY <2>1, <2>2 DEF point
<1>7. CASE point.kind = "round"
  <2>1. LinesOf(point) = RoundPoint(point.sim)
    BY <1>7 DEF LinesOf
  <2>2. QED
    BY <1>3, <2>1, WellNamedRound DEF point
<1>8. CASE point.kind = "final"
  <2>1. LinesOf(point) = FinalPoint(point.sim, Buckets)
    BY <1>8 DEF LinesOf
  <2>2. QED
    BY <1>3, <2>1, WellNamedFinal DEF point
<1>9. CASE point.kind = "start"
  <2>1. LinesOf(point) = <<>>
    BY <1>9 DEF LinesOf
  <2>2. <<>> \in Seq(AnyLine) /\ Len(<<>>) = 0
    BY EmptySeq
  <2>3. WellNamed(<<>>, {})
    BY <2>2 DEF WellNamed
  <2>4. QED
    BY <2>1, <2>3 DEF point
<1>10. QED
  BY <1>3, <1>5, <1>6, <1>7, <1>8, <1>9

-----------------------------------------------------------------------------
(* The times of a point.                                                   *)

\* The lines among the first k that have the clock read for them.
ReadsUpTo(lines, k) == {j \in 1..k : ~lines[j].own}

\* Their number grows with every such line.
LEMMA ReadsGrow ==
  ASSUME NEW lines, NEW k \in Nat, NEW m \in Nat, k <= m
  PROVE  /\ Cardinality(ReadsUpTo(lines, k)) \in Nat
         /\ Cardinality(ReadsUpTo(lines, m)) \in Nat
         /\ Cardinality(ReadsUpTo(lines, k)) <= Cardinality(ReadsUpTo(lines, m))
         /\ \A i \in 1..m : k < i /\ ~lines[i].own =>
              Cardinality(ReadsUpTo(lines, k)) < Cardinality(ReadsUpTo(lines, m))
<1> DEFINE A == ReadsUpTo(lines, k)
           B == ReadsUpTo(lines, m)
<1>1. 1 \in Int /\ m \in Int
  OBVIOUS
<1>2. IsFiniteSet(1..m)
  BY <1>1, FS_Interval
<1>3. B \subseteq 1..m /\ A \subseteq B
  BY DEF ReadsUpTo
<1>4. \A i \in 1..m : k < i /\ ~lines[i].own => i \in B /\ i \notin A
  BY DEF ReadsUpTo
<1> HIDE DEF A, B
<1>5. IsFiniteSet(B)
  BY <1>2, <1>3, FS_Subset
<1>6. IsFiniteSet(A) /\ Cardinality(A) <= Cardinality(B)
  BY <1>3, <1>5, FS_Subset
<1>7. Cardinality(A) \in Nat /\ Cardinality(B) \in Nat
  BY <1>5, <1>6, FS_CardinalityType
<1>8. ASSUME NEW i \in 1..m, k < i, ~lines[i].own
      PROVE  Cardinality(A) < Cardinality(B)
  <2>1. i \in B /\ i \notin A /\ A \in SUBSET B
    BY <1>3, <1>4, <1>8
  <2>2. QED
    BY <1>5, <2>1, ProperPart
<1>9. QED
  BY <1>6, <1>7, <1>8 DEF A, B

\* A point of which the clock was read at `from` and is at `to` once it is
\* complete: no two of its lines have the same key.
PointInTime(point, from, to) ==
  /\ from \in Nat /\ to \in Nat /\ from <= to
  /\ DOMAIN point \subseteq Nat
  /\ \A i \in DOMAIN point :
       /\ point[i].own <=> point[i].series[1] \in OwnMeasurements
       /\ point[i].time \in Nat /\ from <= point[i].time
       /\ point[i].own => point[i].time = from
       /\ ~point[i].own => point[i].time < to
  /\ \A i, j \in DOMAIN point : KeyOf(point[i]) = KeyOf(point[j]) => i = j

\* The times get_timestamp_now reads make a point of lines that are well named
\* a point in time.
LEMMA StampedPoint ==
  ASSUME NEW lines, NEW names, WellNamed(lines, names), NEW now \in Nat
  PROVE  PointInTime(Stamped(lines, now), now, ClockAfter(lines, now))
<1> DEFINE n == Len(lines)
           reads(k) == Cardinality(ReadsUpTo(lines, k))
           point == Stamped(lines, now)
           to == ClockAfter(lines, now)
<1>1. lines \in Seq(AnyLine)
  BY DEF WellNamed
<1>2. n \in Nat /\ DOMAIN lines = 1..n
  BY <1>1, LenProperties
<1>3. /\ \A i \in 1..n : lines[i].own <=> lines[i].measurement \in OwnMeasurements
      /\ \A i, j \in 1..n :
           lines[i].own /\ lines[i].measurement = lines[j].measurement => i = j
  BY DEF WellNamed
<1>4. to = now + reads(n)
  BY <1>2 DEF ClockAfter, TimeOfRead, ReadsUpTo
<1>5. /\ DOMAIN point = 1..n
      /\ \A i \in 1..n :
           point[i] = [series |-> <<lines[i].measurement, lines[i].tags>>, own |-> lines[i].own,
                       time |-> IF lines[i].own THEN now ELSE now + reads(i - 1)]
  BY <1>2 DEF Stamped, TimeOfRead, ReadsUpTo
<1>6. \A k, m \in Nat : k <= m =>
        /\ reads(k) \in Nat /\ reads(m) \in Nat /\ reads(k) <= reads(m)
        /\ \A i \in 1..m : k < i /\ ~lines[i].own => reads(k) < reads(m)
  BY ReadsGrow
<1> HIDE DEF n, reads, point, to
<1>7. ASSUME NEW i \in 1..n
      PROVE  /\ reads(i - 1) \in Nat /\ reads(n) \in Nat
             /\ ~lines[i].own => reads(i - 1) < reads(n)
  <2>1. i - 1 \in Nat /\ i - 1 <= n /\ i - 1 < i
    BY <1>2
  <2>2. QED
    BY <1>2, <1>6, <2>1
<1>8. reads(n) \in Nat
  BY <1>2, <1>6
<1>9. \A i \in 1..n :
        /\ point[i].series[1] = lines[i].measurement
        /\ point[i].own = lines[i].own
        /\ point[i].time = IF lines[i].own THEN now ELSE now + reads(i - 1)
  BY <1>5
<1>10. ASSUME NEW i \in 1..n
       PROVE  /\ point[i].own <=> point[i].series[1] \in OwnMeasurements
              /\ point[i].time \in Nat /\ now <= point[i].time
              /\ point[i].own => point[i].time = now
              /\ ~point[i].own => point[i].time < to
  <2>1. point[i].own <=> point[i].series[1] \in OwnMeasurements
    BY <1>3, <1>9
  <2>2. QED
    BY <1>4, <1>7, <1>8, <1>9, <2>1
<1>11. ASSUME NEW i \in 1..n, NEW j \in 1..n, i < j, ~lines[i].own
       PROVE  reads(i - 1) < reads(j - 1)
  <2>1. i - 1 \in Nat /\ j - 1 \in Nat /\ i - 1 <= j - 1 /\ i - 1 < i /\ i \in 1..(j - 1)
    BY <1>2, <1>11
  <2>2. QED
    BY <1>6, <1>11, <2>1
<1>12. ASSUME NEW i \in 1..n, NEW j \in 1..n, KeyOf(point[i]) = KeyOf(point[j])
       PROVE  i = j
  <2>1. point[i].series = point[j].series /\ point[i].time = point[j].time
    BY <1>12 DEF KeyOf
  <2>2. lines[i].measurement = lines[j].measurement
    BY <1>9, <2>1
  <2>3. CASE lines[i].own
    BY <1>3, <2>2, <2>3
  <2>4. CASE ~lines[i].own
    <3>1. ~lines[j].own
      BY <1>3, <2>2, <2>4
    <3>2. now + reads(i - 1) = now + reads(j - 1)
      BY <1>9, <2>1, <2>4, <3>1
    <3>3. reads(i - 1) = reads(j - 1) /\ reads(i - 1) \in Nat
      BY <1>7, <3>2
    <3>4. ~(i < j) /\ ~(j < i)
      BY <1>7, <1>11, <2>4, <3>1, <3>3
    <3>5. QED
      BY <1>2, <3>4
  <2>5. QED
    BY <2>3, <2>4
<1>13. to \in Nat /\ now <= to
  BY <1>4, <1>8
<1>14. PointInTime(point, now, to)
  BY <1>2, <1>5, <1>10, <1>12, <1>13 DEF PointInTime
<1>15. QED
  BY <1>14 DEF point, to

-----------------------------------------------------------------------------
(* What a write leaves.                                                    *)

\* What is written of a point: its keys join those of the database, the last
\* line of each key stands, and the other keys keep what they had.
LEMMA WrittenFacts ==
  ASSUME NEW db, NEW p, NEW lines
  PROVE  LET new == Written(db, p, lines)
         IN  /\ \A i \in DOMAIN lines : KeyOf(lines[i]) \in DOMAIN new
             /\ \A k \in DOMAIN db : k \in DOMAIN new
             /\ \A k \in DOMAIN db :
                  (\A i \in DOMAIN lines : KeyOf(lines[i]) # k) => new[k] = db[k]
             /\ \A i \in DOMAIN lines :
                  /\ i \in Nat
                  /\ \A j \in DOMAIN lines : KeyOf(lines[i]) = KeyOf(lines[j]) => i = j
                  => new[KeyOf(lines[i])] = <<p, i>>
<1> DEFINE keys == {KeyOf(lines[i]) : i \in DOMAIN lines}
           alike(key) == {i \in DOMAIN lines : KeyOf(lines[i]) = key}
           new == Written(db, p, lines)
<1>1. new = [key \in keys \cup DOMAIN db |->
               IF key \in keys THEN <<p, Max(alike(key))>> ELSE db[key]]
  BY DEF Written
<1>2. /\ \A i \in DOMAIN lines : KeyOf(lines[i]) \in keys
      /\ \A k \in keys : \E i \in DOMAIN lines : KeyOf(lines[i]) = k
  OBVIOUS
<1>3. ASSUME NEW i \in DOMAIN lines, i \in Nat,
             \A j \in DOMAIN lines : KeyOf(lines[i]) = KeyOf(lines[j]) => i = j
      PROVE  Max(alike(KeyOf(lines[i]))) = i
  <2>1. alike(KeyOf(lines[i])) = {i}
    BY <1>3
  <2>2. IsFiniteSet({i}) /\ {i} # {} /\ \A x \in {i} : x \in Nat
    BY <1>3, FS_Singleton
  <2>3. Max({i}) \in {i}
    BY <2>2, MaxFacts
  <2>4. QED
    BY <2>1, <2>3
<1> HIDE DEF keys, alike, new
<1>4. DOMAIN new = keys \cup DOMAIN db
  BY <1>1
<1>5. \A k \in DOMAIN db : k \notin keys => new[k] = db[k]
  BY <1>1
<1>6. \A k \in keys : new[k] = <<p, Max(alike(k))>>
  BY <1>1
<1>7. ASSUME NEW k \in DOMAIN db, \A i \in DOMAIN lines : KeyOf(lines[i]) # k
      PROVE  new[k] = db[k]
  BY <1>2, <1>5, <1>7
<1>8. ASSUME NEW i \in DOMAIN lines, i \in Nat,
             \A j \in DOMAIN lines : KeyOf(lines[i]) = KeyOf(lines[j]) => i = j
      PROVE  new[KeyOf(lines[i])] = <<p, i>>
  BY <1>2, <1>3, <1>6, <1>8
<1>9. QED
  BY <1>2, <1>4, <1>7, <1>8 DEF new

-----------------------------------------------------------------------------
(* The invariant of the lines.                                             *)

\* Nothing has been written at the start.
LEMMA InitLinesInv == Init => LinesInv
<1> SUFFICES ASSUME Init PROVE LinesInv
  OBVIOUS
<1>1. clock = 0 /\ Len(points) = 0 /\ stored = {}
  BY DEF Init
<1>2. 1..Len(points) = {}
  BY <1>1
<1>3. QED
  BY <1>1, <1>2 DEF LinesInv

\* A step that leaves points, clock and database alone.
LEMMA StutterLinesInv ==
  LinesInv /\ UNCHANGED <<setting, points, clock, stored, database>> => LinesInv'
<1> SUFFICES ASSUME LinesInv, UNCHANGED <<setting, points, clock, stored, database>>
             PROVE  LinesInv'
  OBVIOUS
<1>1. /\ clock' \in Nat
      /\ \A p \in 1..Len(points') :
           /\ DOMAIN points'[p] \subseteq Nat
           /\ \A i \in DOMAIN points'[p] : LineInTime(points'[p][i], clock')
  BY DEF LinesInv
<1>2. \A p, q \in 1..Len(points') : \A i \in DOMAIN points'[p], j \in DOMAIN points'[q] :
        KeyOf(points'[p][i]) = KeyOf(points'[q][j]) /\ <<p, i>> # <<q, j>>
          => Excused(points'[p][i], setting')
  BY DEF LinesInv
<1>3. \A p \in stored' : \A i \in DOMAIN points'[p] :
        /\ KeyOf(points'[p][i]) \in DOMAIN database'
        /\ Excused(points'[p][i], setting') \/ database'[KeyOf(points'[p][i])] = <<p, i>>
  BY DEF LinesInv
<1>4. QED
  BY <1>1, <1>2, <1>3 DEF LinesInv

\* main pushes a point: its lines are later than any line before them, but for
\* those that bear its own time while the clock stands still.
LEMMA PushPointLinesInv ==
  ASSUME ReportInv, PointsInSeq, LinesInv, PushPoint
  PROVE  LinesInv'
<1> DEFINE now == IF setting.standstill THEN clock ELSE clock + 1
           n == Len(points)
           lines == LinesOf(Script[n + 1])
           point == Stamped(lines, now)
<1>1. /\ setting \in Settings
      /\ n \in 0..Len(Script) /\ n < Len(Script) /\ Len(Script) \in Nat
      /\ DOMAIN Script = 1..Len(Script)
  BY ScriptFacts DEF ReportInv, TypeOK, PushPoint, Positions
<1>2. /\ points' = Append(points, point) /\ clock' = ClockAfter(lines, now)
      /\ UNCHANGED <<setting, stored, database>>
  BY DEF PushPoint, taskVars
<1>3. clock \in Nat /\ now \in Nat /\ clock <= now /\ (now = clock => setting.standstill)
  BY DEF LinesInv
<1>4. PICK names : WellNamed(lines, names)
  <2>1. n + 1 \in DOMAIN Script
    BY <1>1
  <2>2. QED
    BY <1>1, <2>1, WellNamedPoint
<1> HIDE DEF now, lines, n
<1>5. PointInTime(point, now, clock')
  BY <1>2, <1>3, <1>4, StampedPoint
<1> HIDE DEF point
<1>6. /\ n \in Nat /\ Len(points') = n + 1 /\ points'[n + 1] = point
      /\ \A p \in 1..n : points'[p] = points[p]
  <2>1. PICK S : points \in Seq(S)
    BY DEF PointsInSeq
  <2>2. points \in Seq(S \cup {point})
    BY <2>1, SeqMonotonic
  <2>3. /\ Len(points') = Len(points) + 1 /\ points'[Len(points) + 1] = point
        /\ \A p \in 1..Len(points) : points'[p] = points[p]
    BY <1>2, <2>2, AppendProperties
  <2>4. QED
    BY <1>1, <2>3 DEF n
<1>7. /\ clock' \in Nat /\ now <= clock'
      /\ DOMAIN point \subseteq Nat
      /\ \A i \in DOMAIN point :
           /\ point[i].own <=> point[i].series[1] \in OwnMeasurements
           /\ point[i].time \in Nat /\ now <= point[i].time
           /\ point[i].own => point[i].time = now
           /\ ~point[i].own => point[i].time < clock'
      /\ \A i, j \in DOMAIN point : KeyOf(point[i]) = KeyOf(point[j]) => i = j
  BY <1>5 DEF PointInTime
<1>8. /\ \A p \in 1..n :
           /\ DOMAIN points[p] \subseteq Nat
           /\ \A i \in DOMAIN points[p] : LineInTime(points[p][i], clock)
      /\ \A p, q \in 1..n : \A i \in DOMAIN points[p], j \in DOMAIN points[q] :
           KeyOf(points[p][i]) = KeyOf(points[q][j]) /\ <<p, i>> # <<q, j>>
             => Excused(points[p][i], setting)
  BY DEF LinesInv, n
<1>9. \A p \in 1..Len(points') : p \in 1..n \/ p = n + 1
  BY <1>6
<1>11. ASSUME NEW line, LineInTime(line, clock)
       PROVE  LineInTime(line, clock')
  BY <1>3, <1>7, <1>11 DEF LineInTime
<1>12. ASSUME NEW i \in DOMAIN point
       PROVE  LineInTime(point[i], clock')
  BY <1>7 DEF LineInTime
<1>13. ASSUME NEW line, LineInTime(line, clock), NEW i \in DOMAIN point,
              KeyOf(line) = KeyOf(point[i])
       PROVE  Excused(line, setting) /\ Excused(point[i], setting)
  <2>1. line.series = point[i].series /\ line.time = point[i].time
    BY <1>13 DEF KeyOf
  <2>2. line.own <=> point[i].own
    BY <1>7, <1>13, <2>1 DEF LineInTime
  <2>3. /\ line.time \in Nat /\ line.time <= clock /\ (~line.own => line.time < clock)
        /\ now <= line.time
    BY <1>3, <1>7, <1>13, <2>1 DEF LineInTime
  <2>4. line.own
    BY <1>3, <2>3
  <2>5. now = clock
    BY <1>3, <2>3
  <2>6. QED
    BY <1>3, <2>2, <2>4, <2>5 DEF Excused
<1>14. ASSUME NEW p \in 1..Len(points')
       PROVE  /\ DOMAIN points'[p] \subseteq Nat
              /\ \A i \in DOMAIN points'[p] : LineInTime(points'[p][i], clock')
  <2>1. CASE p \in 1..n
    BY <1>6, <1>8, <1>11, <2>1
  <2>2. CASE p = n + 1
    BY <1>6, <1>7, <1>12, <2>2
  <2>3. QED
    BY <1>9, <2>1, <2>2
<1>15. ASSUME NEW p \in 1..Len(points'), NEW q \in 1..Len(points'),
              NEW i \in DOMAIN points'[p], NEW j \in DOMAIN points'[q],
              KeyOf(points'[p][i]) = KeyOf(points'[q][j]), <<p, i>> # <<q, j>>
       PROVE  Excused(points'[p][i], setting')
  <2>1. CASE p \in 1..n /\ q \in 1..n
    BY <1>2, <1>6, <1>8, <1>15, <2>1
  <2>2. CASE p \in 1..n /\ q = n + 1
    <3>1. points'[p] = points[p] /\ points'[q] = point
      BY <1>6, <2>2
    <3>2. LineInTime(points[p][i], clock)
      BY <1>8, <2>2, <3>1
    <3>3. QED
      BY <1>2, <1>13, <1>15, <3>1, <3>2
  <2>3. CASE p = n + 1 /\ q \in 1..n
    <3>1. points'[q] = points[q] /\ points'[p] = point
      BY <1>6, <2>3
    <3>2. LineInTime(points[q][j], clock)
      BY <1>8, <2>3, <3>1
    <3>3. QED
      BY <1>2, <1>13, <1>15, <3>1, <3>2
  <2>4. CASE p = n + 1 /\ q = n + 1
    <3>1. points'[p] = point /\ points'[q] = point /\ p = q
      BY <1>6, <2>4
    <3>2. i = j
      BY <1>7, <1>15, <3>1
    <3>3. QED
      BY <1>15, <3>1, <3>2
  <2>5. QED
    BY <1>9, <2>1, <2>2, <2>3, <2>4
<1>16. ASSUME NEW p \in stored', NEW i \in DOMAIN points'[p]
       PROVE  /\ KeyOf(points'[p][i]) \in DOMAIN database'
              /\ Excused(points'[p][i], setting') \/ database'[KeyOf(points'[p][i])] = <<p, i>>
  <2>1. p \in 1..n
    <3>1. p \in stored
      BY <1>2
    <3>2. p \in DataPoints /\ p <= taken /\ taken \in 0..n
      BY <3>1 DEF ReportInv, TypeOK, TasksApart, n
    <3>3. p \in Nat /\ p > 0
      BY <1>1, <3>2, ScriptFacts
    <3>4. QED
      BY <1>6, <3>2, <3>3
  <2>2. points'[p] = points[p]
    BY <1>6, <2>1
  <2>3. /\ KeyOf(points[p][i]) \in DOMAIN database
        /\ Excused(points[p][i], setting) \/ database[KeyOf(points[p][i])] = <<p, i>>
    BY <1>2, <2>2 DEF LinesInv
  <2>4. QED
    BY <1>2, <2>2, <2>3
<1>17. QED
  BY <1>7, <1>14, <1>15, <1>16 DEF LinesInv

\* The server accepts a point: what it overwrites was not to be kept.
LEMMA AnswerOkLinesInv ==
  ASSUME ReportInv, LinesInv, NEW p \in DataPoints, AnswerOk(p)
  PROVE  LinesInv'
<1> DEFINE lines == points[p]
           new == Written(database, p, lines)
<1>1. /\ UNCHANGED <<setting, points, clock>>
      /\ p \in posting /\ stored' = stored \cup {p} /\ database' = new
  BY DEF AnswerOk, mainVars
<1>2. \A q \in stored \cup {p} : q \in 1..Len(points)
  <2>1. setting \in Settings /\ taken \in 0..Len(points) /\ Len(points) \in 0..Len(Script)
        /\ stored \subseteq DataPoints
    BY DEF ReportInv, TypeOK
  <2>2. \A q \in stored \cup {p} : q \in DataPoints /\ q <= taken
    BY <1>1, <2>1 DEF ReportInv, TasksApart, Open
  <2>3. Len(Script) \in Nat /\ DataPoints \subseteq 1..Len(Script)
    BY <2>1, ScriptFacts
  <2>4. QED
    BY <2>1, <2>2, <2>3
<1>3. p \notin stored
  BY <1>1 DEF ReportInv, TasksApart
<1>4. /\ \A i \in DOMAIN lines : i \in Nat
      /\ \A q, r \in 1..Len(points) : \A i \in DOMAIN points[q], j \in DOMAIN points[r] :
           KeyOf(points[q][i]) = KeyOf(points[r][j]) /\ <<q, i>> # <<r, j>>
             => Excused(points[q][i], setting)
      /\ \A q \in stored : \A i \in DOMAIN points[q] :
           /\ KeyOf(points[q][i]) \in DOMAIN database
           /\ Excused(points[q][i], setting) \/ database[KeyOf(points[q][i])] = <<q, i>>
  BY <1>2 DEF LinesInv
<1>5. /\ \A i \in DOMAIN lines : KeyOf(lines[i]) \in DOMAIN new
      /\ \A k \in DOMAIN database : k \in DOMAIN new
      /\ \A k \in DOMAIN database :
           (\A i \in DOMAIN lines : KeyOf(lines[i]) # k) => new[k] = database[k]
      /\ \A i \in DOMAIN lines :
           /\ i \in Nat
           /\ \A j \in DOMAIN lines : KeyOf(lines[i]) = KeyOf(lines[j]) => i = j
           => new[KeyOf(lines[i])] = <<p, i>>
  BY WrittenFacts
<1> HIDE DEF new
<1>6. ASSUME NEW q \in stored, NEW i \in DOMAIN points[q]
      PROVE  /\ KeyOf(points[q][i]) \in DOMAIN new
             /\ Excused(points[q][i], setting) \/ new[KeyOf(points[q][i])] = <<q, i>>
  <2>1. KeyOf(points[q][i]) \in DOMAIN database
    BY <1>4
  <2>2. ASSUME ~Excused(points[q][i], setting)
        PROVE  new[KeyOf(points[q][i])] = <<q, i>>
    <3>1. \A j \in DOMAIN lines : KeyOf(lines[j]) # KeyOf(points[q][i])
      <4> SUFFICES ASSUME NEW j \in DOMAIN lines, KeyOf(lines[j]) = KeyOf(points[q][i])
                   PROVE  FALSE
        OBVIOUS
      <4>1. <<q, i>> # <<p, j>>
        BY <1>3
      <4>2. QED
        BY <1>2, <1>4, <2>2, <4>1
    <3>2. database[KeyOf(points[q][i])] = <<q, i>>
      BY <1>4, <2>2
    <3>3. QED
      BY <1>5, <2>1, <3>1, <3>2
  <2>3. QED
    BY <1>5, <2>1, <2>2
<1>7. ASSUME NEW i \in DOMAIN lines
      PROVE  /\ KeyOf(lines[i]) \in DOMAIN new
             /\ Excused(lines[i], setting) \/ new[KeyOf(lines[i])] = <<p, i>>
  <2>1. ASSUME ~Excused(lines[i], setting)
        PROVE  new[KeyOf(lines[i])] = <<p, i>>
    <3>1. ASSUME NEW j \in DOMAIN lines, KeyOf(lines[i]) = KeyOf(lines[j])
          PROVE  i = j
      <4> SUFFICES ASSUME i # j PROVE FALSE
        OBVIOUS
      <4>1. <<p, i>> # <<p, j>>
        OBVIOUS
      <4>2. QED
        BY <1>2, <1>4, <2>1, <3>1, <4>1
    <3>2. QED
      BY <1>4, <1>5, <3>1
  <2>2. QED
    BY <1>5, <2>1
<1>8. ASSUME NEW q \in stored', NEW i \in DOMAIN points'[q]
      PROVE  /\ KeyOf(points'[q][i]) \in DOMAIN database'
             /\ Excused(points'[q][i], setting') \/ database'[KeyOf(points'[q][i])] = <<q, i>>
  <2>2. CASE q \in stored
    BY <1>1, <1>6, <2>2
  <2>3. CASE q = p
    BY <1>1, <1>7, <2>3
  <2>4. QED
    BY <1>1, <2>2, <2>3
<1>9. /\ clock' \in Nat
      /\ \A q \in 1..Len(points') :
           /\ DOMAIN points'[q] \subseteq Nat
           /\ \A i \in DOMAIN points'[q] : LineInTime(points'[q][i], clock')
      /\ \A q, r \in 1..Len(points') : \A i \in DOMAIN points'[q], j \in DOMAIN points'[r] :
           KeyOf(points'[q][i]) = KeyOf(points'[r][j]) /\ <<q, i>> # <<r, j>>
             => Excused(points'[q][i], setting')
  BY <1>1 DEF LinesInv
<1>10. QED
  BY <1>8, <1>9 DEF LinesInv

\* Every step preserves it.
LEMMA StepLinesInv ==
  ASSUME ReportInv, PointsInSeq, LinesInv, [Next]_vars
  PROVE  LinesInv'
<1>1. CASE PushPoint
  BY <1>1, PushPointLinesInv
<1>2. CASE PushLast \/ JoinReturns \/ Panic \/ UNCHANGED vars
  <2>1. UNCHANGED <<setting, points, clock, stored, database>>
    BY <1>2 DEF PushLast, JoinReturns, Panic, vars, mainVars, taskVars
  <2>2. QED
    BY <2>1, StutterLinesInv
<1>3. CASE Influx
  <2>1. UNCHANGED <<setting, points, clock, stored, database>>
    BY <1>3 DEF Influx, Begin, PopNothing, PopLast, PopStart, PopData, Spawn, CountDequeued,
                CheckDrained, mainVars, taskVars
  <2>2. QED
    BY <2>1, StutterLinesInv
<1>4. CASE Tasks
  <2>1. PICK p \in DataPoints : Task(p)
    BY <1>4 DEF Tasks
  <2>2. CASE AnswerOk(p)
    BY <2>2, AnswerOkLinesInv
  <2>3. CASE Post(p) \/ AnswerError(p) \/ CountSent(p)
    <3>1. UNCHANGED <<setting, points, clock, stored, database>>
      BY <2>3 DEF Post, AnswerError, CountSent, mainVars
    <3>2. QED
      BY <3>1, StutterLinesInv
  <2>4. QED
    BY <2>1, <2>2, <2>3 DEF Task, Answer
<1>5. QED
  BY <1>1, <1>2, <1>3, <1>4 DEF Next, Main, Ended

\* Lines of different points, and of different histograms of one, have different
\* keys, whatever the script and however the clock moves.
THEOREM LinesInvariance == Spec => []LinesInv
<1>1. Init => ReportInv /\ PointsInSeq /\ LinesInv
  <2>1. Init => PointsInSeq
    BY EmptySeq DEF Init, PointsInSeq
  <2>2. QED
    BY <2>1, InitReportInv, InitLinesInv
<1>2. (ReportInv /\ PointsInSeq /\ LinesInv) /\ [Next]_vars
        => (ReportInv /\ PointsInSeq /\ LinesInv)'
  BY StepReportInv, StepLinesInv
<1>3. QED
  BY <1>1, <1>2, PTL DEF Spec

\* The database has every line of every histogram it accepted, in whatever order
\* the posts arrive; and every other line too, where the clock does not stand
\* still from one point to the next.
THEOREM LinesAreKept == Spec => []LinesKept
<1>1. LinesInv => LinesKept
  BY DEF LinesInv, LinesKept
<1>2. QED
  BY <1>1, LinesInvariance, PTL
=============================================================================

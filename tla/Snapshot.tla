------------------------------ MODULE Snapshot ------------------------------
(***************************************************************************)
(* The snapshot pipeline of the vsomeip bench: run_snapshot.sh measures a  *)
(* grid of sizes and stacks, one run.sh under the compose lock per point,  *)
(* appends a row per point to the transport's history CSV, and renders     *)
(* both histories into one document (render_snapshot.py).                  *)
(*                                                                         *)
(* A row keeps what the document is chosen by: the point, the form its     *)
(* rate is written in, the run, the run's minute, and what was measured.   *)
(* A size determines its rate (size_ladder.sh), so two rate columns of one *)
(* size differ in form only: the bench prints %.1f, the shell a whole      *)
(* number.                                                                 *)
(***************************************************************************)
EXTENDS Naturals, Sequences, FiniteSets

CONSTANTS Users,     \* pairs <<p, t>>: terminal p runs snapshots of transport t
          Ladder,    \* VSOMEIP_FRAME_SIZES, a sequence
          Ends,      \* those of the Outcomes that a point may have
          MaxRuns,   \* bound on the runs started
          Free       \* nobody holds the compose lock

Procs == {u[1] : u \in Users}
Transports == {"udp", "tcp"}
Stacks == <<"covesa", "sgmenon">>

ASSUME SnapshotAssumption ==
    /\ \A u \in Users : u[2] \in Transports
    /\ Ladder \in Seq({Ladder[i] : i \in DOMAIN Ladder}) \ {<<>>}
    /\ \A i, j \in DOMAIN Ladder : Ladder[i] = Ladder[j] => i = j
    /\ Ends \subseteq {"ok", "empty", "na"}
    /\ MaxRuns \in Nat \ {0}
    /\ Free \notin Procs

VARIABLES
    csv,    \* transport |-> its history, a sequence of rows
    doc,    \* transport |-> the rows its section of the document was made of
    lock,   \* holder of /tmp/mw_vsomeip_compose.lock
    clock,  \* date -u, in minutes
    runs,   \* runs started so far, and the newest run label
    pc,     \* process |-> "idle", "points", "bench", "append", "tcp", "udp", "write"
    job,    \* process |-> its run
    draft   \* process |-> what it renders from, see TakeLabels

vars == <<csv, doc, lock, clock, runs, pc, job, draft>>

\* A row with samples, a printed row with n = 0, a row the shell made up.
Outcomes == {"ok", "empty", "na"}

Points == {<<Ladder[i], Stacks[j]>> : i \in DOMAIN Ladder, j \in DOMAIN Stacks}

Row == [point : Points, rate : {"fixed", "whole"}, label : 0 .. MaxRuns,
        time : 0 .. MaxRuns, outcome : Outcomes]

NoJob == [transport |-> "udp", label |-> 0, time |-> 0, partial |-> FALSE,
          grid |-> <<>>, next |-> 1, outcome |-> "na"]

NoDraft == [label |-> [t \in Transports |-> 0], rows |-> [t \in Transports |-> <<>>],
            seen |-> [t \in Transports |-> 0]]

Init ==
    /\ csv = [t \in Transports |-> <<>>]
    /\ doc = [t \in Transports |-> <<>>]
    /\ lock = Free /\ clock = 0 /\ runs = 0
    /\ pc = [p \in Procs |-> "idle"]
    /\ job = [p \in Procs |-> NoJob]
    /\ draft = [p \in Procs |-> NoDraft]

-----------------------------------------------------------------------------
(* render_snapshot.py.                                                     *)

\* The k-th smallest of a set of numbers.
Nth(I, k) == CHOOSE i \in I : Cardinality({j \in I : j < i}) = k - 1

\* The elements of s at the places I, in their order.
Kept(s, I) == [k \in 1 .. Cardinality(I) |-> s[Nth(I, k)]]

FilterRunLabel(rows, label) == Kept(rows, {i \in DOMAIN rows : rows[i].label = label})

\* Of rows of one minute the first stays.
NewerStrict(rows, i, j) == rows[i].time > rows[j].time \/ (rows[i].time = rows[j].time /\ i < j)

\* A later row replaces one of its minute.
Newer(rows, i, j) == rows[i].time > rows[j].time \/ (rows[i].time = rows[j].time /\ i > j)

ConfigKey(r) == <<r.point, r.rate>>

\* A newer row of the same configuration exists.
Beaten(rows, i) ==
    \E j \in DOMAIN rows : ConfigKey(rows[j]) = ConfigKey(rows[i]) /\ Newer(rows, j, i)

\* Its order among different points is layout.
LatestPerConfig(rows) == Kept(rows, {i \in DOMAIN rows : ~Beaten(rows, i)})

RowOk(r) == r.outcome = "ok"

\* series_for_stack, both stacks: for each point the last of its good rows.
Series(rows) ==
    LET Good == {i \in DOMAIN rows : RowOk(rows[i])}
    IN  {rows[i] : i \in {j \in Good :
                            \A k \in Good : rows[k].point = rows[j].point => k <= j}}

\* Results are paired by size alone.
SizeOnly(r) == <<r.point[1]>>

TableKey(r) == <<r.point[1], r.rate>>

\* comparison_rows: for each key the last row of each stack.
Table(rows) ==
    LET Entries(key) == {i \in DOMAIN rows : TableKey(rows[i]) = key}
        Cells(key) == {rows[i] : i \in {j \in Entries(key) :
                        \A k \in Entries(key) : rows[k].point[2] = rows[j].point[2] => k <= j}}
    IN  {[key |-> TableKey(rows[i]), cells |-> Cells(TableKey(rows[i]))] : i \in DOMAIN rows}

\* The frame sizes on the chart's axis.
SizeLabels(rows) == {r.point[1] : r \in Series(rows)}

\* The row whose mean a stack's line has at a size; where none, a 0 is drawn.
Line(rows, stack) ==
    [z \in SizeLabels(rows) |-> {r \in Series(rows) : r.point = <<z, stack>>}]

MakeDataset(rows, label) == IF label = 0 THEN LatestPerConfig(rows) ELSE FilterRunLabel(rows, label)

-----------------------------------------------------------------------------
(* run_snapshot.sh.                                                        *)

\* The label in the last row of the history.
LatestRunLabel(rows) == IF rows = <<>> THEN 0 ELSE rows[Len(rows)].label

\* SIZES picks some sizes, STACKS some stacks; sizes are the outer loop.
Grid(sizes, stacks) ==
    [i \in 1 .. Len(sizes) * Len(stacks) |->
        <<sizes[(i - 1) \div Len(stacks) + 1], stacks[((i - 1) % Len(stacks)) + 1]>>]

Begin(p, t, label, partial, grid) ==
    /\ pc[p] = "idle" /\ <<p, t>> \in Users /\ runs < MaxRuns
    /\ clock' \in {clock, clock + 1}
    /\ runs' = runs + 1
    /\ job' = [job EXCEPT ![p] = [transport |-> t, label |-> label, time |-> clock',
                                  partial |-> partial, grid |-> grid, next |-> 1,
                                  outcome |-> "na"]]
    /\ pc' = [pc EXCEPT ![p] = "points"]
    /\ UNCHANGED <<csv, doc, lock, draft>>

StartFull(p, t) ==
    \E I \in (SUBSET DOMAIN Stacks) \ {{}} :
        Begin(p, t, runs + 1, FALSE, Grid(Ladder, Kept(Stacks, I)))

StartPartial(p, t) ==
    \E I \in (SUBSET DOMAIN Ladder) \ {{}}, J \in (SUBSET DOMAIN Stacks) \ {{}} :
        Begin(p, t, runs + 1, TRUE, Grid(Kept(Ladder, I), Kept(Stacks, J)))

\* RENDER_ONLY measures nothing and takes the label of the newest row.
StartRenderOnly(p, t) ==
    \E partial \in BOOLEAN :
        Begin(p, t, IF csv[t] = <<>> THEN runs + 1 ELSE LatestRunLabel(csv[t]), partial, <<>>)

HasPoint(p) == job[p].next <= Len(job[p].grid)

NewRow(p, outcome) ==
    [point |-> job[p].grid[job[p].next],
     rate |-> IF outcome = "na" THEN "whole" ELSE "fixed",
     label |-> job[p].label, time |-> job[p].time, outcome |-> outcome]

\* A failed point leaves no row.
AppendMeasured(p, outcome) ==
    csv' = IF outcome = "na" THEN csv
           ELSE [csv EXCEPT ![job[p].transport] = Append(@, NewRow(p, outcome))]

AppendLine(p, outcome) ==
    csv' = [csv EXCEPT ![job[p].transport] = Append(@, NewRow(p, outcome))]

Locked(p) ==
    /\ pc[p] = "points" /\ HasPoint(p) /\ lock # Free
    /\ AppendLine(p, "na")
    /\ job' = [job EXCEPT ![p].next = @ + 1]
    /\ UNCHANGED <<doc, lock, clock, runs, pc, draft>>

TakeLock(p) ==
    /\ pc[p] = "points" /\ HasPoint(p) /\ lock = Free
    /\ lock' = p
    /\ pc' = [pc EXCEPT ![p] = "bench"]
    /\ UNCHANGED <<csv, doc, clock, runs, job, draft>>

\* run.sh ends: a row, a row without samples, no row, or an error.
BenchEnds(p) ==
    /\ pc[p] = "bench"
    /\ \E outcome \in Ends : job' = [job EXCEPT ![p].outcome = outcome]
    /\ lock' = Free
    /\ pc' = [pc EXCEPT ![p] = "append"]
    /\ UNCHANGED <<csv, doc, clock, runs, draft>>

Record(p) ==
    /\ pc[p] = "append"
    /\ AppendLine(p, job[p].outcome)
    /\ job' = [job EXCEPT ![p].next = @ + 1]
    /\ pc' = [pc EXCEPT ![p] = "points"]
    /\ UNCHANGED <<doc, lock, clock, runs, draft>>

\* A full run is shown by its label, a partial one among all the rows.
OwnLabel(p, t) == IF job[p].partial THEN 0 ELSE job[p].label

\* The other transport is shown by its newest row.
RunLabel(p, t) ==
    IF t # job[p].transport THEN LatestRunLabel(csv[t])
    ELSE OwnLabel(p, t)

\* The labels to render are chosen; seen keeps how long the histories were.
TakeLabels(p) ==
    /\ pc[p] = "points" /\ ~HasPoint(p)
    /\ draft' = [draft EXCEPT ![p] = [label |-> [t \in Transports |-> RunLabel(p, t)],
                                      rows |-> [t \in Transports |-> <<>>],
                                      seen |-> [t \in Transports |-> Len(csv[t])]]]
    /\ pc' = [pc EXCEPT ![p] = "tcp"]
    /\ UNCHANGED <<csv, doc, lock, clock, runs, job>>

\* Python reads one history after the other,
Load(p, t) ==
    /\ pc[p] = t
    /\ draft' = [draft EXCEPT ![p].rows[t] = MakeDataset(csv[t], draft[p].label[t])]
    /\ pc' = [pc EXCEPT ![p] = IF t = "tcp" THEN "udp" ELSE "write"]
    /\ UNCHANGED <<csv, doc, lock, clock, runs, job>>

\* and replaces the document, whatever it says by now.
Write(p) ==
    /\ pc[p] = "write"
    /\ doc' = draft[p].rows
    /\ pc' = [pc EXCEPT ![p] = "idle"]
    /\ job' = [job EXCEPT ![p] = NoJob]
    /\ draft' = [draft EXCEPT ![p] = NoDraft]
    /\ UNCHANGED <<csv, lock, clock, runs>>

\* Ctrl-C; the lock goes with the process.
Killed(p) ==
    /\ pc[p] # "idle"
    /\ pc' = [pc EXCEPT ![p] = "idle"]
    /\ lock' = IF lock = p THEN Free ELSE lock
    /\ job' = [job EXCEPT ![p] = NoJob]
    /\ draft' = [draft EXCEPT ![p] = NoDraft]
    /\ UNCHANGED <<csv, doc, clock, runs>>

Next ==
    \E p \in Procs :
        \/ \E t \in Transports : \/ StartFull(p, t) \/ StartPartial(p, t)
                                \/ StartRenderOnly(p, t) \/ Load(p, t)
        \/ Locked(p) \/ TakeLock(p) \/ BenchEnds(p) \/ Record(p)
        \/ TakeLabels(p) \/ Write(p) \/ Killed(p)

Spec == Init /\ [][Next]_vars

-----------------------------------------------------------------------------
\* The measurements the table shows for a frame size and a stack.
Measured(rows, size, stack) ==
    {r \in UNION {line.cells : line \in Table(rows)} :
        r.point = <<size, stack>> /\ RowOk(r)}

(* Whatever rows a section is made of, its table and its chart agree: at a *)
(* size that the chart has, a stack's line has the mean of the one row     *)
(* with samples that the table shows, and a 0 exactly when the table shows *)
(* none; at a size that the chart leaves out it shows none for any stack.  *)
ChartMatchesTable ==
    \A t \in Transports, i \in DOMAIN Ladder, j \in DOMAIN Stacks :
        Measured(doc[t], Ladder[i], Stacks[j]) =
            IF Ladder[i] \in SizeLabels(doc[t]) THEN Line(doc[t], Stacks[j])[Ladder[i]] ELSE {}

(* "A full run renders that exact run" (run_snapshot.sh:90): one row for   *)
(* each point of its grid, in order, also for the points that failed or    *)
(* found the lock taken.                                                   *)
FullRunShown ==
    [][\A p \in Procs :
         Write(p) /\ ~job[p].partial /\ job[p].grid # <<>> =>
            LET shown == doc'[job[p].transport]
            IN  [i \in DOMAIN shown |-> shown[i].point] = job[p].grid]_vars

(* After a partial run the chart shows for every point the newest of all   *)
(* the rows the bench printed for it, whichever run printed it, also when  *)
(* runs were killed or shared a minute.                                    *)
NewestCharted ==
    [][\A p \in Procs :
         Write(p) /\ job[p].partial =>
            LET rows == csv[job[p].transport]
                Printed == {i \in DOMAIN rows : rows[i].rate = "fixed"}
                Newest == {i \in Printed :
                             \A j \in Printed : rows[j].point = rows[i].point => j <= i}
            IN  Series(doc'[job[p].transport]) =
                  {rows[i] : i \in {j \in Newest : RowOk(rows[j])}}]_vars

(* A document shows, in both sections, the row that was the last one when  *)
(* its run chose what to show: of what a run of the other transport        *)
(* records, only rows that came while the document was in the making may   *)
(* be missing.                                                             *)
LastRowShown ==
    [][\A p \in Procs :
         Write(p) => \A t \in Transports :
            LET n == draft[p].seen[t]
            IN  n > 0 => \E i \in DOMAIN doc'[t] : doc'[t][i] = csv[t][n]]_vars
=============================================================================

-------------------------- MODULE Snapshot_proofs --------------------------
(***************************************************************************)
(* What the document shows of the histories, for every ladder, every set   *)
(* of terminals and every number of runs: the chart agrees with the table, *)
(* a full run shows its grid; and, with one terminal per transport, a      *)
(* partial run charts the newest rows and a document shows the rows that   *)
(* were the last ones when it was begun.                                   *)
(***************************************************************************)
EXTENDS Snapshot, Integers, FiniteSetTheorems, SequenceTheorems, TLAPS

\* No two terminals measure the same transport.
OneTerminal == \A u, v \in Users : u[2] = v[2] => u = v

Active(p) == pc[p] # "idle"

Phases == {"idle", "points", "bench", "append", "tcp", "udp", "write"}

Rows == Seq(Row)

Jobs == [transport : Transports, label : 0 .. MaxRuns, time : 0 .. MaxRuns,
         partial : BOOLEAN, grid : Seq(Points), next : Nat, outcome : Outcomes]

Drafts == [label : [Transports -> 0 .. MaxRuns], rows : [Transports -> Rows],
           seen : [Transports -> Nat]]

TypeOK ==
    /\ csv \in [Transports -> Rows]
    /\ doc \in [Transports -> Rows]
    /\ lock \in Procs \cup {Free}
    /\ runs \in 0 .. MaxRuns
    /\ clock \in 0 .. runs
    /\ pc \in [Procs -> Phases]
    /\ job \in [Procs -> Jobs]
    /\ draft \in [Procs -> Drafts]

Injective(s) == \A i, j \in DOMAIN s : s[i] = s[j] => i = j

\* Labels of rows were given to a run; a measured rate has its own form.
RowInv ==
    \A t \in Transports : \A i \in DOMAIN csv[t] :
        /\ csv[t][i].label \in 1 .. runs
        /\ csv[t][i].rate = "fixed" <=> csv[t][i].outcome # "na"

\* A run that is under way.
JobInv ==
    \A p \in Procs : Active(p) =>
        /\ <<p, job[p].transport>> \in Users
        /\ job[p].label \in 1 .. runs
        /\ job[p].next \in 1 .. (Len(job[p].grid) + 1)
        /\ pc[p] \in {"bench", "append"} => job[p].next <= Len(job[p].grid)
        /\ pc[p] \in {"tcp", "udp", "write"} => job[p].next > Len(job[p].grid)
        /\ Injective(job[p].grid)

\* Runs that record rows have different labels.
LabelInv ==
    \A p, q \in Procs :
        /\ Active(p) /\ job[p].grid # <<>>
        /\ Active(q) /\ job[q].grid # <<>>
        /\ job[p].label = job[q].label
        => p = q

\* The rows of a run under way are the points before its next one.
Recorded(p) ==
    LET shown == FilterRunLabel(csv[job[p].transport], job[p].label)
    IN  /\ Len(shown) = job[p].next - 1
        /\ \A k \in 1 .. (job[p].next - 1) : shown[k].point = job[p].grid[k]

RecordInv == \A p \in Procs : Active(p) /\ job[p].grid # <<>> => Recorded(p)

\* A run measures a point once.
OncePerRun(rows) ==
    \A i, j \in DOMAIN rows :
        rows[i].label = rows[j].label /\ rows[i].point = rows[j].point => i = j

OncePerConfig(rows) ==
    \A i, j \in DOMAIN rows : ConfigKey(rows[i]) = ConfigKey(rows[j]) => i = j

CsvInv == \A t \in Transports : OncePerRun(csv[t])

IInv == TypeOK /\ RowInv /\ JobInv /\ LabelInv /\ RecordInv /\ CsvInv

\* What can be told of rows however they were chosen.
Proper(rows) ==
    /\ OncePerConfig(rows)
    /\ \A i \in DOMAIN rows : rows[i].rate = "fixed" <=> rows[i].outcome # "na"

Rendering(p) == pc[p] \in {"tcp", "udp", "write"}

Loaded(p, t) == pc[p] = "write" \/ (pc[p] = "udp" /\ t = "tcp")

\* A draft: the run's own section shows its grid, the other one the row that
\* was the last one when the labels were taken.
DraftOk(p) ==
    /\ \A t \in Transports : Proper(draft[p].rows[t])
    /\ Rendering(p) =>
          /\ draft[p].label[job[p].transport] = OwnLabel(p, job[p].transport)
          /\ Loaded(p, job[p].transport) /\ ~job[p].partial /\ job[p].grid # <<>> =>
                LET shown == draft[p].rows[job[p].transport]
                IN  [i \in DOMAIN shown |-> shown[i].point] = job[p].grid
          /\ \A t \in Transports :
                LET n == draft[p].seen[t]
                IN  t # job[p].transport /\ n > 0 =>
                      /\ n \in DOMAIN csv[t]
                      /\ draft[p].label[t] = csv[t][n].label
                      /\ Loaded(p, t) => \E i \in DOMAIN draft[p].rows[t] :
                                            draft[p].rows[t][i] = csv[t][n]

DraftInv == \A p \in Procs : DraftOk(p)

DocInv == \A t \in Transports : Proper(doc[t])

ShownInv == DraftInv /\ DocInv

\* With one terminal per transport a history is in the order of its minutes ...
TimeInv ==
    /\ \A t \in Transports : \A i, j \in DOMAIN csv[t] : i <= j => csv[t][i].time <= csv[t][j].time
    /\ \A t \in Transports : \A i \in DOMAIN csv[t] : csv[t][i].time <= clock
    /\ \A p \in Procs : Active(p) =>
          /\ job[p].time <= clock
          /\ \A i \in DOMAIN csv[job[p].transport] : csv[job[p].transport][i].time <= job[p].time

\* ... and ends with the row of the run under way.
LastInv ==
    \A p \in Procs : Active(p) =>
        LET rows == csv[job[p].transport]
        IN  /\ job[p].next > 1 => rows # <<>>
            /\ (job[p].next > 1 \/ job[p].grid = <<>>) /\ rows # <<>> =>
                  rows[Len(rows)].label = job[p].label

\* Nobody adds to the history whose run is being rendered.
OwnOk(p) ==
    LET t == job[p].transport
    IN  /\ draft[p].seen[t] = Len(csv[t])
        /\ Loaded(p, t) => draft[p].rows[t] = MakeDataset(csv[t], draft[p].label[t])

OwnInv == \A p \in Procs : Rendering(p) => OwnOk(p)

-----------------------------------------------------------------------------
(* Places of a sequence, in their order.                                   *)

Rank(I, i) == Cardinality({j \in I : j < i})

\* The rank of a place counts the chosen places before it.
LEMMA RankFacts ==
    ASSUME NEW n \in Nat, NEW I \in SUBSET (1 .. n)
    PROVE  /\ IsFiniteSet(I)
           /\ Cardinality(I) \in 0 .. n
           /\ \A i \in I : Rank(I, i) \in 0 .. (Cardinality(I) - 1)
           /\ \A i, j \in I : i < j => Rank(I, i) < Rank(I, j)
<1>1. IsFiniteSet(1 .. n) /\ Cardinality(1 .. n) = n
  BY FS_Interval
<1>2. IsFiniteSet(I) /\ Cardinality(I) <= n
  BY <1>1, FS_Subset
<1>3. Cardinality(I) \in Nat
  BY <1>2, FS_CardinalityType
<1>4. ASSUME NEW S \in SUBSET I, NEW T \in SUBSET S, S # T
      PROVE  /\ Cardinality(T) \in Nat
             /\ Cardinality(T) < Cardinality(S)
  <2>1. IsFiniteSet(S)
    BY <1>2, FS_Subset
  <2>2. /\ IsFiniteSet(T)
        /\ Cardinality(T) <= Cardinality(S)
        /\ Cardinality(S) # Cardinality(T)
    BY <1>4, <2>1, FS_Subset
  <2>3. Cardinality(T) \in Nat /\ Cardinality(S) \in Nat
    BY <2>1, <2>2, FS_CardinalityType
  <2> QED  BY <2>2, <2>3
<1>5. ASSUME NEW i \in I
      PROVE  Rank(I, i) \in 0 .. (Cardinality(I) - 1)
  <2>1. {j \in I : j < i} \in SUBSET I /\ {j \in I : j < i} # I
    OBVIOUS
  <2>2. Rank(I, i) \in Nat /\ Rank(I, i) < Cardinality(I)
    BY <1>4, <2>1 DEF Rank
  <2> QED  BY <1>3, <2>2
<1>6. ASSUME NEW i \in I, NEW j \in I, i < j
      PROVE  Rank(I, i) < Rank(I, j)
  <2>1. /\ {k \in I : k < j} \in SUBSET I
        /\ {k \in I : k < i} \in SUBSET {k \in I : k < j}
        /\ {k \in I : k < i} # {k \in I : k < j}
    <3>1. i \in Int /\ j \in Int /\ \A k \in I : k \in Int
      OBVIOUS
    <3>2. \A k \in I : k < i => k < j
      BY <1>6, <3>1
    <3>3. i \in {k \in I : k < j} /\ i \notin {k \in I : k < i}
      BY <1>6, <3>1
    <3> QED  BY <3>2, <3>3
  <2> QED  BY <1>4, <2>1 DEF Rank
<1> QED  BY <1>2, <1>3, <1>5, <1>6

\* Every number below the size of the set is somebody's rank.
LEMMA RankOnto ==
    ASSUME NEW n \in Nat, NEW I \in SUBSET (1 .. n), NEW k \in 1 .. Cardinality(I)
    PROVE  \E i \in I : Rank(I, i) = k - 1
<1> DEFINE T == 1 .. Cardinality(I)
           f == [i \in I |-> Rank(I, i) + 1]
<1>1. /\ Cardinality(I) \in Nat
      /\ \A i \in I : Rank(I, i) \in 0 .. (Cardinality(I) - 1)
      /\ \A i, j \in I : i < j => Rank(I, i) < Rank(I, j)
  BY RankFacts
<1>2. IsFiniteSet(T) /\ Cardinality(T) = Cardinality(I)
  BY <1>1, FS_Interval
<1>3. f \in [I -> T]
  BY <1>1
<1>4. \A i, j \in I : f[i] = f[j] => i = j
  <2> SUFFICES ASSUME NEW i \in I, NEW j \in I, f[i] = f[j]
               PROVE  i = j
    OBVIOUS
  <2>1. Rank(I, i) = Rank(I, j)
    BY <1>1
  <2>2. ~(i < j) /\ ~(j < i)
    BY <1>1, <2>1
  <2> QED  BY <2>2
<1>5. f \in Injection(I, T)
  BY <1>3, <1>4 DEF Injection, IsInjective
<1>6. f \in Surjection(I, T)
  BY <1>2, <1>5, FS_Injection
<1>7. PICK i \in I : f[i] = k
  BY <1>6 DEF Surjection
<1> QED  BY <1>1, <1>7

\* Nth is the inverse of the rank.
LEMMA NthFacts ==
    ASSUME NEW n \in Nat, NEW I \in SUBSET (1 .. n), NEW k \in 1 .. Cardinality(I)
    PROVE  Nth(I, k) \in I /\ Rank(I, Nth(I, k)) = k - 1
<1>1. \E i \in I : Cardinality({j \in I : j < i}) = k - 1
  BY RankOnto DEF Rank
<1> QED  BY <1>1 DEF Nth, Rank

LEMMA NthOfRank ==
    ASSUME NEW n \in Nat, NEW I \in SUBSET (1 .. n), NEW i \in I
    PROVE  /\ Rank(I, i) + 1 \in 1 .. Cardinality(I)
           /\ Nth(I, Rank(I, i) + 1) = i
<1>1. /\ Cardinality(I) \in Nat
      /\ Rank(I, i) \in 0 .. (Cardinality(I) - 1)
      /\ \A a, b \in I : a < b => Rank(I, a) < Rank(I, b)
  BY RankFacts
<1>2. Rank(I, i) + 1 \in 1 .. Cardinality(I)
  BY <1>1
<1> DEFINE m == Nth(I, Rank(I, i) + 1)
<1>3. m \in I /\ Rank(I, m) = (Rank(I, i) + 1) - 1
  BY <1>2, NthFacts
<1>4. Rank(I, m) = Rank(I, i)
  BY <1>1, <1>3
<1> HIDE DEF m
<1>5. Rank(I, i) \in Int /\ Rank(I, m) \in Int /\ i \in Int /\ m \in Int
  BY <1>1, <1>3
<1>6. ~(m < i) /\ ~(i < m)
  BY <1>1, <1>3, <1>4, <1>5
<1>7. m = i
  BY <1>5, <1>6
<1> QED  BY <1>2, <1>7 DEF m

\* What is kept: exactly the elements at the places, each once, in order.
LEMMA KeptFacts ==
    ASSUME NEW S, NEW s \in Seq(S), NEW I \in SUBSET (1 .. Len(s))
    PROVE  /\ Kept(s, I) \in Seq(S)
           /\ Len(Kept(s, I)) = Cardinality(I)
           /\ DOMAIN Kept(s, I) = 1 .. Cardinality(I)
           /\ Cardinality(I) \in Nat
           /\ \A k \in 1 .. Cardinality(I) : Nth(I, k) \in I /\ Kept(s, I)[k] = s[Nth(I, k)]
           /\ \A k, m \in 1 .. Cardinality(I) : Nth(I, k) = Nth(I, m) => k = m
           /\ \A i \in I : \E k \in 1 .. Cardinality(I) : Nth(I, k) = i
<1>1. Len(s) \in Nat /\ \A i \in 1 .. Len(s) : s[i] \in S
  BY LenProperties, ElementOfSeq
<1>2. Cardinality(I) \in Nat
  BY <1>1, RankFacts
<1>3. \A k \in 1 .. Cardinality(I) : Nth(I, k) \in I /\ Rank(I, Nth(I, k)) = k - 1
  BY <1>1, NthFacts
<1>4. Kept(s, I) = [k \in 1 .. Cardinality(I) |-> s[Nth(I, k)]]
  BY DEF Kept
<1>5. \A k \in 1 .. Cardinality(I) : s[Nth(I, k)] \in S
  BY <1>1, <1>3
<1>6. Kept(s, I) \in [1 .. Cardinality(I) -> S]
  BY <1>4, <1>5
<1>7. Kept(s, I) \in Seq(S) /\ Len(Kept(s, I)) = Cardinality(I)
  BY <1>2, <1>6, SeqDef, LenProperties
<1>8. \A k, m \in 1 .. Cardinality(I) : Nth(I, k) = Nth(I, m) => k = m
  <2> SUFFICES ASSUME NEW k \in 1 .. Cardinality(I), NEW m \in 1 .. Cardinality(I),
                      Nth(I, k) = Nth(I, m)
               PROVE  k = m
    OBVIOUS
  <2>1. k - 1 = m - 1
    BY <1>3
  <2> QED  BY <1>2, <2>1
<1>9. \A i \in I : \E k \in 1 .. Cardinality(I) : Nth(I, k) = i
  BY <1>1, NthOfRank
<1> QED  BY <1>2, <1>3, <1>4, <1>7, <1>8, <1>9

\* A place at the end is kept at the end.
LEMMA KeptAppend ==
    ASSUME NEW S, NEW s \in Seq(S), NEW e \in S, NEW I \in SUBSET (1 .. Len(s))
    PROVE  /\ Kept(Append(s, e), I) = Kept(s, I)
           /\ Kept(Append(s, e), I \cup {Len(s) + 1}) = Append(Kept(s, I), e)
<1> DEFINE n == Len(s)
           J == I \cup {n + 1}
           N == Cardinality(I)
<1>1. /\ n \in Nat
      /\ Append(s, e) \in Seq(S)
      /\ Len(Append(s, e)) = n + 1
      /\ \A i \in 1 .. n : Append(s, e)[i] = s[i]
      /\ Append(s, e)[n + 1] = e
  BY AppendProperties, LenProperties
<1>2. /\ I \in SUBSET (1 .. (n + 1))
      /\ J \in SUBSET (1 .. (n + 1))
      /\ n + 1 \notin I
  <2>1. \A i \in I : i \in 1 .. n
    OBVIOUS
  <2>2. n + 1 \notin 1 .. n /\ \A i \in 1 .. n : i \in 1 .. (n + 1)
    BY <1>1
  <2>3. n + 1 \in 1 .. (n + 1)
    BY <1>1
  <2> HIDE DEF n
  <2> QED  BY <2>1, <2>2, <2>3
<1>3. IsFiniteSet(I) /\ N \in Nat
  BY <1>1, RankFacts
<1>4. Cardinality(J) = N + 1
  BY <1>2, <1>3, FS_AddElement
<1> HIDE DEF J
<1>5. \A k \in 1 .. N : Nth(I, k) \in I /\ Rank(I, Nth(I, k)) = k - 1
  BY <1>1, NthFacts
<1>6. \A i \in I : {j \in J : j < i} = {j \in I : j < i}
  BY <1>1 DEF J
<1>7. {j \in J : j < n + 1} = I
  <2>1. \A i \in I : i < n + 1
    BY <1>1
  <2>2. ~(n + 1 < n + 1)
    BY <1>1
  <2> QED  BY <2>1, <2>2 DEF J
<1>8. \A k \in 1 .. N : Nth(J, k) = Nth(I, k)
  <2> SUFFICES ASSUME NEW k \in 1 .. N
               PROVE  Nth(J, k) = Nth(I, k)
    OBVIOUS
  <2>1. Nth(I, k) \in J /\ Rank(J, Nth(I, k)) = k - 1
    BY <1>5, <1>6 DEF Rank, J
  <2>2. n + 1 \in Nat
    BY <1>1
  <2>3. Nth(J, Rank(J, Nth(I, k)) + 1) = Nth(I, k)
    BY <1>2, <2>1, <2>2, NthOfRank
  <2>4. Rank(J, Nth(I, k)) + 1 = k
    BY <1>3, <2>1
  <2> QED  BY <2>3, <2>4
<1>9. Nth(J, N + 1) = n + 1
  <2>1. n + 1 \in J /\ Rank(J, n + 1) = N
    BY <1>7 DEF Rank, J
  <2>2. n + 1 \in Nat
    BY <1>1
  <2>3. Nth(J, Rank(J, n + 1) + 1) = n + 1
    BY <1>2, <2>1, <2>2, NthOfRank
  <2> QED  BY <2>1, <2>3
<1>10. Kept(Append(s, e), I) = Kept(s, I)
  BY <1>1, <1>5 DEF Kept
<1>11. Kept(s, I) \in Seq(S) /\ Len(Kept(s, I)) = N
  BY KeptFacts
<1>12. /\ DOMAIN Append(Kept(s, I), e) = 1 .. (N + 1)
       /\ \A k \in 1 .. N : Append(Kept(s, I), e)[k] = Kept(s, I)[k]
       /\ Append(Kept(s, I), e)[N + 1] = e
       /\ Append(Kept(s, I), e) \in [1 .. (N + 1) -> S]
  <2>1. /\ Append(Kept(s, I), e) \in Seq(S)
        /\ Len(Append(Kept(s, I), e)) = Len(Kept(s, I)) + 1
        /\ \A k \in 1 .. Len(Kept(s, I)) : Append(Kept(s, I), e)[k] = Kept(s, I)[k]
        /\ Append(Kept(s, I), e)[Len(Kept(s, I)) + 1] = e
    BY <1>11, AppendProperties
  <2>2. /\ DOMAIN Append(Kept(s, I), e) = 1 .. Len(Append(Kept(s, I), e))
        /\ Append(Kept(s, I), e) \in [1 .. Len(Append(Kept(s, I), e)) -> S]
    BY <2>1, LenProperties
  <2> QED  BY <1>11, <2>1, <2>2
<1>13. Kept(Append(s, e), J) = [k \in 1 .. (N + 1) |-> Append(s, e)[Nth(J, k)]]
  BY <1>4 DEF Kept
<1>14. \A k \in 1 .. N : Append(s, e)[Nth(J, k)] = Kept(s, I)[k]
  BY <1>1, <1>5, <1>8 DEF Kept
<1>15. Append(s, e)[Nth(J, N + 1)] = e
  BY <1>1, <1>9
<1>16. Append(Kept(s, I), e) = [k \in 1 .. (N + 1) |-> Append(Kept(s, I), e)[k]]
  BY <1>12
<1>17. \A k \in 1 .. (N + 1) : k \in 1 .. N \/ k = N + 1
  BY <1>3
<1>18. \A k \in 1 .. (N + 1) : Append(s, e)[Nth(J, k)] = Append(Kept(s, I), e)[k]
  BY <1>12, <1>14, <1>15, <1>17
<1>19. Kept(Append(s, e), J) = Append(Kept(s, I), e)
  BY <1>13, <1>16, <1>18
<1> QED  BY <1>10, <1>19 DEF J

-----------------------------------------------------------------------------
(* The renderer.                                                           *)

LEMMA RowFields ==
    ASSUME NEW r \in Row
    PROVE  r.time \in Nat /\ r.label \in Nat
BY SnapshotAssumption DEF Row

\* The rows of a run, in the order they were recorded in.
LEMMA FilterFacts ==
    ASSUME NEW rows \in Rows, NEW label
    PROVE  LET shown == FilterRunLabel(rows, label)
           IN  /\ shown \in Rows
               /\ \A k \in DOMAIN shown :
                     shown[k].label = label /\ \E i \in DOMAIN rows : shown[k] = rows[i]
               /\ \A i \in DOMAIN rows : rows[i].label = label =>
                     \E k \in DOMAIN shown : shown[k] = rows[i]
               /\ OncePerRun(rows) => OncePerConfig(shown)
<1> DEFINE I == {i \in DOMAIN rows : rows[i].label = label}
           shown == FilterRunLabel(rows, label)
<1>1. I \in SUBSET (1 .. Len(rows)) /\ rows \in Seq(Row)
  BY LenProperties DEF Rows
<1>2. shown = Kept(rows, I)
  BY DEF FilterRunLabel
<1>3. /\ Kept(rows, I) \in Seq(Row)
      /\ DOMAIN Kept(rows, I) = 1 .. Cardinality(I)
      /\ \A k \in 1 .. Cardinality(I) : Nth(I, k) \in I /\ Kept(rows, I)[k] = rows[Nth(I, k)]
      /\ \A k, m \in 1 .. Cardinality(I) : Nth(I, k) = Nth(I, m) => k = m
      /\ \A i \in I : \E k \in 1 .. Cardinality(I) : Nth(I, k) = i
  <2> HIDE DEF I
  <2> QED  BY <1>1, KeptFacts
<1>4. \A k \in DOMAIN shown :
         shown[k].label = label /\ \E i \in DOMAIN rows : shown[k] = rows[i]
  BY <1>2, <1>3
<1>5. \A i \in DOMAIN rows : rows[i].label = label => \E k \in DOMAIN shown : shown[k] = rows[i]
  <2> SUFFICES ASSUME NEW i \in DOMAIN rows, rows[i].label = label
               PROVE  \E k \in DOMAIN shown : shown[k] = rows[i]
    OBVIOUS
  <2>1. i \in I
    OBVIOUS
  <2>2. PICK k \in 1 .. Cardinality(I) : Nth(I, k) = i
    BY <1>3, <2>1
  <2>3. k \in DOMAIN shown /\ shown[k] = rows[i]
    BY <1>2, <1>3, <2>2
  <2> QED  BY <2>3
<1>6. ASSUME OncePerRun(rows)
      PROVE  OncePerConfig(shown)
  <2> SUFFICES ASSUME NEW k \in DOMAIN shown, NEW m \in DOMAIN shown,
                      ConfigKey(shown[k]) = ConfigKey(shown[m])
               PROVE  k = m
    BY DEF OncePerConfig
  <2>1. k \in 1 .. Cardinality(I) /\ m \in 1 .. Cardinality(I)
    BY <1>2, <1>3
  <2>2. shown[k].point = shown[m].point
    BY DEF ConfigKey
  <2>3. /\ Nth(I, k) \in I /\ shown[k] = rows[Nth(I, k)]
        /\ Nth(I, m) \in I /\ shown[m] = rows[Nth(I, m)]
    BY <1>2, <1>3, <2>1
  <2>4. Nth(I, k) = Nth(I, m)
    BY <1>6, <2>2, <2>3 DEF OncePerRun
  <2> QED  BY <1>3, <2>1, <2>4
<1>7. shown \in Rows
  BY <1>2, <1>3 DEF Rows
<1> QED  BY <1>4, <1>5, <1>6, <1>7

\* A new row comes last in its own run and in no other.
LEMMA FilterAppend ==
    ASSUME NEW rows \in Rows, NEW r \in Row, NEW label
    PROVE  FilterRunLabel(Append(rows, r), label) =
             IF r.label = label THEN Append(FilterRunLabel(rows, label), r)
             ELSE FilterRunLabel(rows, label)
<1> DEFINE n == Len(rows)
           longer == Append(rows, r)
           I == {i \in DOMAIN rows : rows[i].label = label}
           J == {i \in DOMAIN longer : longer[i].label = label}
<1>1. rows \in Seq(Row) /\ n \in Nat /\ DOMAIN rows = 1 .. n
  BY LenProperties DEF Rows
<1>2. /\ longer \in Seq(Row)
      /\ Len(longer) = n + 1
      /\ \A i \in 1 .. n : longer[i] = rows[i]
      /\ longer[n + 1] = r
  BY <1>1, AppendProperties
<1>3. DOMAIN longer = 1 .. (n + 1)
  BY <1>2, LenProperties
<1>4. I \in SUBSET (1 .. n)
  BY <1>1
<1>5. Kept(longer, I) = Kept(rows, I) /\ Kept(longer, I \cup {n + 1}) = Append(Kept(rows, I), r)
  <2> HIDE DEF I
  <2> QED  BY <1>1, <1>4, KeptAppend
<1>6. FilterRunLabel(rows, label) = Kept(rows, I) /\ FilterRunLabel(longer, label) = Kept(longer, J)
  BY DEF FilterRunLabel
<1>7. \A i : i \in 1 .. (n + 1) <=> i \in 1 .. n \/ i = n + 1
  BY <1>1
<1> HIDE DEF longer, n
<1>8. \A i : i \in J <=> (i \in I \/ (i = n + 1 /\ r.label = label))
  BY <1>1, <1>2, <1>3, <1>7
<1>9. CASE r.label = label
  <2>1. J = I \cup {n + 1}
    BY <1>8, <1>9
  <2> QED  BY <1>5, <1>6, <1>9, <2>1 DEF longer
<1>10. CASE r.label # label
  <2>1. J = I
    BY <1>8, <1>10
  <2> QED  BY <1>5, <1>6, <1>10, <2>1 DEF longer
<1> QED  BY <1>9, <1>10

\* A label no row has selects nothing.
LEMMA FilterFresh ==
    ASSUME NEW rows \in Rows, NEW label, \A i \in DOMAIN rows : rows[i].label # label
    PROVE  Len(FilterRunLabel(rows, label)) = 0
<1> DEFINE I == {i \in DOMAIN rows : rows[i].label = label}
<1>1. I = {}
  OBVIOUS
<1>2. rows \in Seq(Row) /\ I \in SUBSET (1 .. Len(rows))
  BY <1>1 DEF Rows
<1>3. Len(Kept(rows, I)) = Cardinality(I)
  BY <1>2, KeptFacts
<1>4. Cardinality(I) = 0
  BY <1>1, FS_EmptySet
<1> QED  BY <1>3, <1>4 DEF FilterRunLabel

\* One row of each configuration is kept, one with no newer one.
LEMMA LatestFacts ==
    ASSUME NEW rows \in Rows
    PROVE  LET shown == LatestPerConfig(rows)
           IN  /\ shown \in Rows
               /\ \A k \in DOMAIN shown : \E i \in DOMAIN rows :
                     ~Beaten(rows, i) /\ shown[k] = rows[i]
               /\ \A i \in DOMAIN rows : ~Beaten(rows, i) =>
                     \E k \in DOMAIN shown : shown[k] = rows[i]
               /\ OncePerConfig(shown)
<1> DEFINE I == {i \in DOMAIN rows : ~Beaten(rows, i)}
           shown == LatestPerConfig(rows)
<1>1. /\ I \in SUBSET (1 .. Len(rows)) /\ rows \in Seq(Row)
      /\ DOMAIN rows = 1 .. Len(rows) /\ \A i \in DOMAIN rows : rows[i] \in Row
  BY LenProperties, ElementOfSeq DEF Rows
<1>2. shown = Kept(rows, I)
  BY DEF LatestPerConfig
<1>3. /\ Kept(rows, I) \in Seq(Row)
      /\ DOMAIN Kept(rows, I) = 1 .. Cardinality(I)
      /\ \A k \in 1 .. Cardinality(I) : Nth(I, k) \in I /\ Kept(rows, I)[k] = rows[Nth(I, k)]
      /\ \A k, m \in 1 .. Cardinality(I) : Nth(I, k) = Nth(I, m) => k = m
      /\ \A i \in I : \E k \in 1 .. Cardinality(I) : Nth(I, k) = i
  <2> HIDE DEF I
  <2> QED  BY <1>1, KeptFacts
<1>4. \A k \in DOMAIN shown : \E i \in DOMAIN rows : ~Beaten(rows, i) /\ shown[k] = rows[i]
  BY <1>2, <1>3
<1>5. \A i \in DOMAIN rows : ~Beaten(rows, i) => \E k \in DOMAIN shown : shown[k] = rows[i]
  <2> SUFFICES ASSUME NEW i \in DOMAIN rows, ~Beaten(rows, i)
               PROVE  \E k \in DOMAIN shown : shown[k] = rows[i]
    OBVIOUS
  <2>1. i \in I
    OBVIOUS
  <2>2. PICK k \in 1 .. Cardinality(I) : Nth(I, k) = i
    BY <1>3, <2>1
  <2>3. k \in DOMAIN shown /\ shown[k] = rows[i]
    BY <1>2, <1>3, <2>2
  <2> QED  BY <2>3
<1>6. ASSUME NEW i \in I, NEW j \in I, ConfigKey(rows[i]) = ConfigKey(rows[j])
      PROVE  i = j
  <2>1. ~Newer(rows, i, j) /\ ~Newer(rows, j, i)
    BY <1>6 DEF Beaten
  <2>2. rows[i].time \in Nat /\ rows[j].time \in Nat /\ i \in Int /\ j \in Int
    BY <1>1, RowFields
  <2> QED  BY <2>1, <2>2 DEF Newer
<1>7. OncePerConfig(shown)
  <2> SUFFICES ASSUME NEW k \in DOMAIN shown, NEW m \in DOMAIN shown,
                      ConfigKey(shown[k]) = ConfigKey(shown[m])
               PROVE  k = m
    BY DEF OncePerConfig
  <2>1. k \in 1 .. Cardinality(I) /\ m \in 1 .. Cardinality(I)
    BY <1>2, <1>3
  <2>2. /\ Nth(I, k) \in I /\ shown[k] = rows[Nth(I, k)]
        /\ Nth(I, m) \in I /\ shown[m] = rows[Nth(I, m)]
    BY <1>2, <1>3, <2>1
  <2>3. Nth(I, k) = Nth(I, m)
    BY <1>6, <2>2
  <2> QED  BY <1>3, <2>1, <2>3
<1>8. shown \in Rows
  BY <1>2, <1>3 DEF Rows
<1> QED  BY <1>4, <1>5, <1>7, <1>8

\* Whatever a section is chosen by, it has one row of each configuration, and
\* each is a row of the history.
LEMMA DatasetFacts ==
    ASSUME NEW rows \in Rows, NEW label, OncePerRun(rows),
           \A i \in DOMAIN rows : rows[i].rate = "fixed" <=> rows[i].outcome # "na"
    PROVE  MakeDataset(rows, label) \in Rows /\ Proper(MakeDataset(rows, label))
<1>1. CASE label = 0
  <2>1. MakeDataset(rows, label) = LatestPerConfig(rows)
    BY <1>1 DEF MakeDataset
  <2> QED  BY <2>1, LatestFacts DEF Proper
<1>2. CASE label # 0
  <2>1. MakeDataset(rows, label) = FilterRunLabel(rows, label)
    BY <1>2 DEF MakeDataset
  <2> QED  BY <2>1, FilterFacts DEF Proper
<1> QED  BY <1>1, <1>2

-----------------------------------------------------------------------------
(* The grid.                                                               *)

LEMMA GridFacts ==
    ASSUME NEW sizes \in Seq({Ladder[i] : i \in DOMAIN Ladder}), Injective(sizes),
           NEW stacks \in Seq({Stacks[j] : j \in DOMAIN Stacks}), Injective(stacks),
           Len(stacks) \in {1, 2}
    PROVE  /\ Grid(sizes, stacks) \in Seq(Points) /\ Injective(Grid(sizes, stacks))
           /\ sizes # <<>> => Grid(sizes, stacks) # <<>>
<1> DEFINE n == Len(stacks)
           m == Len(sizes)
           row(i) == (i - 1) \div n + 1
           col(i) == ((i - 1) % n) + 1
<1>1. /\ m \in Nat /\ DOMAIN sizes = 1 .. m /\ DOMAIN stacks = 1 .. n
      /\ \A i \in 1 .. m : sizes[i] \in {Ladder[x] : x \in DOMAIN Ladder}
      /\ \A j \in 1 .. n : stacks[j] \in {Stacks[x] : x \in DOMAIN Stacks}
  BY LenProperties, ElementOfSeq
<1>2. n \in {1, 2} /\ m * n \in Nat
  BY <1>1
<1>3. Grid(sizes, stacks) = [i \in 1 .. m * n |-> <<sizes[row(i)], stacks[col(i)]>>]
  BY DEF Grid
<1> HIDE DEF n, m
<1>4. ASSUME NEW i \in 1 .. m * n
      PROVE  /\ row(i) \in 1 .. m /\ col(i) \in 1 .. n
             /\ i = n * (row(i) - 1) + col(i)
  <2>1. CASE n = 1
    BY <1>1, <2>1
  <2>2. CASE n = 2
    BY <1>1, <2>2
  <2> QED  BY <1>2, <2>1, <2>2
<1> HIDE DEF row, col
<1>5. \A i \in 1 .. m * n : <<sizes[row(i)], stacks[col(i)]>> \in Points
  BY <1>1, <1>4 DEF Points
<1>6. Grid(sizes, stacks) \in Seq(Points)
  <2>1. Grid(sizes, stacks) \in [1 .. m * n -> Points]
    BY <1>3, <1>5
  <2> QED  BY <1>2, <2>1, SeqDef
<1>7. Injective(Grid(sizes, stacks))
  <2> SUFFICES ASSUME NEW i \in 1 .. m * n, NEW j \in 1 .. m * n,
                      Grid(sizes, stacks)[i] = Grid(sizes, stacks)[j]
               PROVE  i = j
    BY <1>3 DEF Injective
  <2>1. sizes[row(i)] = sizes[row(j)] /\ stacks[col(i)] = stacks[col(j)]
    BY <1>3
  <2>2. row(i) = row(j) /\ col(i) = col(j)
    BY <1>1, <1>4, <2>1 DEF Injective
  <2>3. i = n * (row(i) - 1) + col(i) /\ j = n * (row(j) - 1) + col(j)
    BY <1>4
  <2> QED  BY <2>2, <2>3
<1>8. ASSUME sizes # <<>>
      PROVE  Grid(sizes, stacks) # <<>>
  <2>1. m # 0
    BY <1>8, EmptySeq DEF m
  <2>2. 1 \in 1 .. m * n
    <3>1. CASE n = 1
      BY <1>1, <2>1, <3>1
    <3>2. CASE n = 2
      BY <1>1, <2>1, <3>2
    <3> QED  BY <1>2, <3>1, <3>2
  <2>3. 1 \in DOMAIN Grid(sizes, stacks)
    BY <1>3, <2>2
  <2>4. DOMAIN <<>> = 1 .. 0
    OBVIOUS
  <2> QED  BY <2>3, <2>4
<1> QED  BY <1>6, <1>7, <1>8

\* A selection of a list without repetitions has none.
LEMMA KeptInjective ==
    ASSUME NEW S, NEW s \in Seq(S), Injective(s), NEW I \in SUBSET DOMAIN s
    PROVE  /\ Kept(s, I) \in Seq({s[i] : i \in DOMAIN s})
           /\ Injective(Kept(s, I))
           /\ Len(Kept(s, I)) = Cardinality(I)
           /\ I # {} => Kept(s, I) # <<>>
<1>1. /\ DOMAIN s = 1 .. Len(s) /\ I \in SUBSET (1 .. Len(s))
      /\ s \in Seq({s[i] : i \in DOMAIN s})
  <2>1. DOMAIN s = 1 .. Len(s) /\ Len(s) \in Nat /\ s \in [1 .. Len(s) -> S]
    BY LenProperties
  <2>2. s \in [1 .. Len(s) -> {s[i] : i \in DOMAIN s}]
    BY <2>1
  <2> QED  BY <2>1, <2>2, SeqDef
<1>2. /\ Kept(s, I) \in Seq({s[i] : i \in DOMAIN s})
      /\ Len(Kept(s, I)) = Cardinality(I)
      /\ DOMAIN Kept(s, I) = 1 .. Cardinality(I)
      /\ \A k \in 1 .. Cardinality(I) : Nth(I, k) \in I /\ Kept(s, I)[k] = s[Nth(I, k)]
      /\ \A k, m \in 1 .. Cardinality(I) : Nth(I, k) = Nth(I, m) => k = m
  BY <1>1, KeptFacts
<1>3. Injective(Kept(s, I))
  <2> SUFFICES ASSUME NEW k \in 1 .. Cardinality(I), NEW m \in 1 .. Cardinality(I),
                      Kept(s, I)[k] = Kept(s, I)[m]
               PROVE  k = m
    BY <1>2 DEF Injective
  <2>1. /\ Nth(I, k) \in DOMAIN s /\ Nth(I, m) \in DOMAIN s
        /\ s[Nth(I, k)] = s[Nth(I, m)]
    BY <1>2
  <2>2. Nth(I, k) = Nth(I, m)
    BY <2>1 DEF Injective
  <2> QED  BY <1>2, <2>2
<1>4. ASSUME I # {}
      PROVE  Kept(s, I) # <<>>
  <2>1. Len(s) \in Nat
    BY LenProperties
  <2>2. IsFiniteSet(I)
    BY <1>1, <2>1, RankFacts
  <2>3. Cardinality(I) # 0
    BY <1>4, <2>2, FS_EmptySet
  <2> QED  BY <1>2, <2>3, EmptySeq
<1> QED  BY <1>2, <1>3, <1>4

\* Both stacks are a list without repetitions, and so is any choice of them.
LEMMA StackFacts ==
    /\ Stacks \in Seq({Stacks[j] : j \in DOMAIN Stacks}) /\ Injective(Stacks) /\ Len(Stacks) \in {1, 2}
    /\ \A I \in (SUBSET DOMAIN Stacks) \ {{}} : Cardinality(I) \in {1, 2}
<1>1. DOMAIN Stacks = 1 .. 2 /\ Len(Stacks) = 2 /\ Stacks[1] = "covesa" /\ Stacks[2] = "sgmenon"
  BY DEF Stacks
<1>2. Stacks \in [1 .. 2 -> {Stacks[j] : j \in DOMAIN Stacks}]
  BY <1>1 DEF Stacks
<1>3. Injective(Stacks)
  BY <1>1 DEF Injective
<1>4. ASSUME NEW I \in (SUBSET DOMAIN Stacks) \ {{}}
      PROVE  Cardinality(I) \in {1, 2}
  <2>1. I \in SUBSET (1 .. 2) /\ I # {}
    BY <1>1
  <2>2. IsFiniteSet(I) /\ Cardinality(I) \in 0 .. 2
    BY <2>1, RankFacts
  <2>3. Cardinality(I) # 0
    BY <2>1, <2>2, FS_EmptySet
  <2> QED  BY <2>2, <2>3
<1> QED  BY <1>1, <1>2, <1>3, <1>4, SeqDef

\* The ladder, likewise.
LEMMA LadderFacts ==
    Ladder \in Seq({Ladder[i] : i \in DOMAIN Ladder}) /\ Ladder # <<>> /\ Injective(Ladder)
BY SnapshotAssumption DEF Injective

-----------------------------------------------------------------------------
(* The invariant.                                                          *)

LEMMA InitInv == Init => IInv
<1> SUFFICES ASSUME Init
             PROVE  IInv
  OBVIOUS
<1>1. \A t \in Transports : csv[t] = <<>> /\ doc[t] = <<>>
  BY DEF Init
<1>2. \A p \in Procs : ~Active(p)
  BY DEF Init, Active
<1>3. MaxRuns \in Nat /\ 0 \in 0 .. MaxRuns
  BY SnapshotAssumption
<1>4. NoJob \in Jobs
  BY <1>3, EmptySeq DEF NoJob, Jobs, Transports, Outcomes
<1>5. <<>> \in Rows
  BY EmptySeq DEF Rows
<1>6. TypeOK
  <2>1. NoDraft \in Drafts
    BY <1>3, <1>5 DEF NoDraft, Drafts
  <2> QED  BY <1>3, <1>4, <1>5, <2>1 DEF Init, TypeOK, Phases
<1>7. RowInv /\ CsvInv
  BY <1>1 DEF RowInv, CsvInv, OncePerRun
<1>8. JobInv /\ LabelInv /\ RecordInv
  BY <1>2 DEF JobInv, LabelInv, RecordInv
<1> QED  BY <1>6, <1>7, <1>8 DEF IInv

\* A run starts: its label is new, unless it will record nothing.
LEMMA BeginInv ==
    ASSUME IInv, NEW p \in Procs, NEW t \in Transports, NEW label \in 1 .. (runs + 1),
           NEW partial \in BOOLEAN, NEW grid \in Seq(Points), Injective(grid),
           grid = <<>> \/ label = runs + 1,
           Begin(p, t, label, partial, grid)
    PROVE  IInv'
<1> DEFINE new == [transport |-> t, label |-> label, time |-> clock', partial |-> partial,
                   grid |-> grid, next |-> 1, outcome |-> "na"]
<1>1. /\ ~Active(p) /\ <<p, t>> \in Users /\ runs < MaxRuns
      /\ clock' \in {clock, clock + 1} /\ runs' = runs + 1
      /\ job' = [job EXCEPT ![p] = new]
      /\ pc' = [pc EXCEPT ![p] = "points"]
      /\ csv' = csv /\ doc' = doc /\ lock' = lock /\ draft' = draft
  BY DEF Begin, Active
<1>2. TypeOK /\ MaxRuns \in Nat
  BY SnapshotAssumption DEF IInv
<1>3. /\ runs \in Nat /\ runs + 1 \in 1 .. MaxRuns
      /\ clock' \in 0 .. (runs + 1) /\ clock' \in 0 .. MaxRuns /\ label \in 0 .. MaxRuns
  BY <1>1, <1>2 DEF TypeOK
<1>4. /\ new \in Jobs
      /\ new.transport = t /\ new.label = label /\ new.grid = grid /\ new.next = 1
  BY <1>3 DEF Jobs, Outcomes
<1> HIDE DEF new
<1>5. \A q \in Procs : /\ q = p => job'[q] = new /\ pc'[q] = "points"
                       /\ q # p => job'[q] = job[q] /\ pc'[q] = pc[q]
  BY <1>1, <1>2 DEF TypeOK
<1>6. \A q \in Procs : q # p => (Active(q)' <=> Active(q))
  BY <1>5 DEF Active
<1>7. TypeOK'
  <2>1. job' \in [Procs -> Jobs]
    BY <1>1, <1>2, <1>4 DEF TypeOK
  <2>2. runs' \in 0 .. MaxRuns /\ clock' \in 0 .. runs'
    BY <1>1, <1>3
  <2>3. pc' \in [Procs -> Phases]
    BY <1>1, <1>2 DEF TypeOK, Phases
  <2> QED  BY <1>1, <1>2, <2>1, <2>2, <2>3 DEF TypeOK
<1>8. RowInv'
  <2> SUFFICES ASSUME NEW u \in Transports, NEW i \in DOMAIN csv[u]
               PROVE  /\ csv[u][i].label \in 1 .. (runs + 1)
                      /\ csv[u][i].rate = "fixed" <=> csv[u][i].outcome # "na"
    BY <1>1 DEF RowInv
  <2>1. /\ csv[u][i].label \in 1 .. runs
        /\ csv[u][i].rate = "fixed" <=> csv[u][i].outcome # "na"
    BY DEF IInv, RowInv
  <2> QED  BY <1>3, <2>1
<1>9. JobInv'
  <2> SUFFICES ASSUME NEW q \in Procs, Active(q)'
               PROVE  /\ <<q, job'[q].transport>> \in Users
                      /\ job'[q].label \in 1 .. runs'
                      /\ job'[q].next \in 1 .. (Len(job'[q].grid) + 1)
                      /\ pc'[q] \in {"bench", "append"} => job'[q].next <= Len(job'[q].grid)
                      /\ pc'[q] \in {"tcp", "udp", "write"} => job'[q].next > Len(job'[q].grid)
                      /\ Injective(job'[q].grid)
    BY DEF JobInv
  <2>1. CASE q = p
    <3>1. Len(grid) \in Nat
      BY LenProperties
    <3>2. 1 \in 1 .. (Len(grid) + 1) /\ label \in 1 .. runs'
      BY <1>1, <3>1
    <3> QED  BY <1>1, <1>4, <1>5, <2>1, <3>2
  <2>2. CASE q # p
    <3>1. /\ <<q, job[q].transport>> \in Users
          /\ job[q].label \in 1 .. runs
          /\ job[q].next \in 1 .. (Len(job[q].grid) + 1)
          /\ pc[q] \in {"bench", "append"} => job[q].next <= Len(job[q].grid)
          /\ pc[q] \in {"tcp", "udp", "write"} => job[q].next > Len(job[q].grid)
          /\ Injective(job[q].grid)
      BY <1>6, <2>2 DEF IInv, JobInv
    <3>2. job[q].label \in 1 .. runs'
      BY <1>1, <1>3, <3>1
    <3> QED  BY <1>5, <2>2, <3>1, <3>2
  <2> QED  BY <2>1, <2>2
<1>10. \A q \in Procs : q # p /\ Active(q) => job[q].label \in 1 .. runs
  BY DEF IInv, JobInv
<1>11. LabelInv'
  <2> SUFFICES ASSUME NEW q \in Procs, NEW o \in Procs,
                      Active(q)', job'[q].grid # <<>>, Active(o)', job'[o].grid # <<>>,
                      job'[q].label = job'[o].label
               PROVE  q = o
    BY DEF LabelInv
  <2>1. CASE q # p /\ o # p
    BY <1>5, <1>6, <2>1 DEF IInv, LabelInv
  <2>2. CASE q = p /\ o # p
    <3>1. job[o].label \in 1 .. runs /\ job[o].label = runs + 1
      BY <1>4, <1>5, <1>6, <1>10, <2>2
    <3> QED  BY <1>3, <3>1
  <2>3. CASE q # p /\ o = p
    <3>1. job[q].label \in 1 .. runs /\ job[q].label = runs + 1
      BY <1>4, <1>5, <1>6, <1>10, <2>3
    <3> QED  BY <1>3, <3>1
  <2> QED  BY <2>1, <2>2, <2>3
<1>12. RecordInv'
  <2> SUFFICES ASSUME NEW q \in Procs, Active(q)', job'[q].grid # <<>>
               PROVE  Recorded(q)'
    BY DEF RecordInv
  <2>1. CASE q = p
    <3>1. label = runs + 1
      BY <1>4, <1>5, <2>1
    <3>2. csv[t] \in Rows
      BY <1>2 DEF TypeOK
    <3>3. \A i \in DOMAIN csv[t] : csv[t][i].label # label
      <4>1. \A i \in DOMAIN csv[t] : csv[t][i].label \in 1 .. runs
        BY DEF IInv, RowInv
      <4> QED  BY <1>3, <3>1, <4>1
    <3>4. Len(FilterRunLabel(csv[t], label)) = 0
      BY <3>2, <3>3, FilterFresh
    <3>5. Len(FilterRunLabel(csv[t], label)) = 1 - 1 /\ \A k \in 1 .. (1 - 1) : FALSE
      BY <3>4
    <3> QED  BY <1>1, <1>4, <1>5, <2>1, <3>5 DEF Recorded
  <2>2. CASE q # p
    <3>1. Recorded(q)
      BY <1>5, <1>6, <2>2 DEF IInv, RecordInv
    <3> QED  BY <1>1, <1>5, <2>2, <3>1 DEF Recorded
  <2> QED  BY <2>1, <2>2
<1>13. CsvInv'
  BY <1>1 DEF IInv, CsvInv
<1> QED  BY <1>7, <1>8, <1>9, <1>11, <1>12, <1>13 DEF IInv

\* What a run gets by appending one row.
LEMMA AppendFacts ==
    ASSUME IInv, NEW p \in Procs, Active(p), HasPoint(p), NEW o \in Outcomes
    PROVE  /\ csv[job[p].transport] \in Rows /\ job[p].transport \in Transports
           /\ job[p].next \in 1 .. Len(job[p].grid) /\ Len(job[p].grid) \in Nat
           /\ job[p].grid \in Seq(Points) /\ job[p].grid # <<>>
           /\ NewRow(p, o) \in Row
           /\ NewRow(p, o).label = job[p].label /\ NewRow(p, o).time = job[p].time
           /\ NewRow(p, o).point = job[p].grid[job[p].next]
           /\ NewRow(p, o).outcome = o
           /\ NewRow(p, o).rate = "fixed" <=> o # "na"
<1>1. job[p] \in Jobs /\ csv \in [Transports -> Rows]
  BY DEF IInv, TypeOK
<1>2. /\ job[p].transport \in Transports /\ job[p].grid \in Seq(Points)
      /\ job[p].label \in 0 .. MaxRuns /\ job[p].time \in 0 .. MaxRuns
  BY <1>1 DEF Jobs
<1>3. Len(job[p].grid) \in Nat
  BY <1>2, LenProperties
<1>4. job[p].next \in 1 .. Len(job[p].grid)
  <2>1. job[p].next \in 1 .. (Len(job[p].grid) + 1)
    BY DEF IInv, JobInv
  <2> QED  BY <1>3, <2>1 DEF HasPoint
<1>5. job[p].grid[job[p].next] \in Points
  BY <1>2, <1>4, ElementOfSeq
<1>6. job[p].grid # <<>>
  BY <1>3, <1>4, EmptySeq
<1>7. (IF o = "na" THEN "whole" ELSE "fixed") \in {"fixed", "whole"}
  OBVIOUS
<1>8. NewRow(p, o) \in Row
  BY <1>2, <1>5, <1>7 DEF NewRow, Row
<1>9. NewRow(p, o).rate = "fixed" <=> o # "na"
  BY DEF NewRow
<1> QED  BY <1>1, <1>2, <1>3, <1>4, <1>6, <1>8, <1>9 DEF NewRow

\* The histories after a row was appended.
LEMMA AppendEffect ==
    ASSUME IInv, NEW p \in Procs, Active(p), HasPoint(p), NEW o \in Outcomes, AppendLine(p, o),
           job' = [job EXCEPT ![p].next = @ + 1]
    PROVE  LET t == job[p].transport
               n == Len(csv[t])
           IN  /\ csv' \in [Transports -> Rows]
               /\ \A u \in Transports : u # t => csv'[u] = csv[u]
               /\ csv'[t] = Append(csv[t], NewRow(p, o))
               /\ n \in Nat /\ DOMAIN csv[t] = 1 .. n /\ DOMAIN csv'[t] = 1 .. (n + 1)
               /\ Len(csv'[t]) = n + 1
               /\ \A i \in 1 .. n : csv'[t][i] = csv[t][i]
               /\ csv'[t][n + 1] = NewRow(p, o)
               /\ \A q \in Procs : q # p => job'[q] = job[q]
               /\ job'[p] \in Jobs
               /\ job'[p].next = job[p].next + 1
               /\ job'[p].transport = t /\ job'[p].label = job[p].label
               /\ job'[p].grid = job[p].grid /\ job'[p].time = job[p].time
<1> DEFINE t == job[p].transport
           n == Len(csv[t])
           r == NewRow(p, o)
<1>1. csv[t] \in Rows /\ t \in Transports /\ r \in Row
  BY AppendFacts
<1>2. csv[t] \in Seq(Row)
  BY <1>1 DEF Rows
<1>3. n \in Nat /\ DOMAIN csv[t] = 1 .. n
  BY <1>2, LenProperties
<1>4. /\ Append(csv[t], r) \in Seq(Row)
      /\ Len(Append(csv[t], r)) = n + 1
      /\ \A i \in 1 .. n : Append(csv[t], r)[i] = csv[t][i]
      /\ Append(csv[t], r)[n + 1] = r
  BY <1>1, <1>2, AppendProperties
<1>5. DOMAIN Append(csv[t], r) = 1 .. (n + 1)
  BY <1>4, LenProperties
<1>6. csv \in [Transports -> Rows] /\ job \in [Procs -> Jobs]
  BY DEF IInv, TypeOK
<1>7. csv' = [csv EXCEPT ![t] = Append(csv[t], r)]
  BY DEF AppendLine
<1> HIDE DEF r, t, n
<1>8. /\ csv' \in [Transports -> Rows]
      /\ \A u \in Transports : u # t => csv'[u] = csv[u]
      /\ csv'[t] = Append(csv[t], r)
  BY <1>1, <1>4, <1>6, <1>7 DEF Rows
<1>9. /\ \A q \in Procs : q # p => job'[q] = job[q]
      /\ job'[p] = [job[p] EXCEPT !.next = @ + 1]
  BY <1>6
<1>10. job[p] \in Jobs
  BY <1>6
<1>11. /\ job'[p] \in Jobs
       /\ job'[p].next = job[p].next + 1
       /\ job'[p].transport = job[p].transport /\ job'[p].label = job[p].label
       /\ job'[p].grid = job[p].grid /\ job'[p].time = job[p].time
  BY <1>9, <1>10 DEF Jobs
<1> QED  BY <1>3, <1>4, <1>5, <1>8, <1>9, <1>11 DEF r, t, n

\* A point is recorded.
LEMMA AppendInv ==
    ASSUME IInv, NEW p \in Procs, Active(p), HasPoint(p), NEW o \in Outcomes, AppendLine(p, o),
           job' = [job EXCEPT ![p].next = @ + 1],
           pc' = [pc EXCEPT ![p] = "points"],
           UNCHANGED <<doc, lock, clock, runs, draft>>
    PROVE  IInv'
<1> DEFINE t == job[p].transport
           n == Len(csv[t])
           r == NewRow(p, o)
           F == FilterRunLabel(csv[t], job[p].label)
<1>1. /\ csv[t] \in Rows /\ t \in Transports
      /\ job[p].next \in 1 .. Len(job[p].grid) /\ Len(job[p].grid) \in Nat
      /\ job[p].grid # <<>>
      /\ r \in Row
      /\ r.label = job[p].label /\ r.time = job[p].time
      /\ r.point = job[p].grid[job[p].next]
      /\ r.outcome = o
      /\ r.rate = "fixed" <=> o # "na"
  BY AppendFacts
<1>2. /\ csv' \in [Transports -> Rows]
      /\ \A u \in Transports : u # t => csv'[u] = csv[u]
      /\ csv'[t] = Append(csv[t], r)
      /\ n \in Nat /\ DOMAIN csv[t] = 1 .. n /\ DOMAIN csv'[t] = 1 .. (n + 1)
      /\ Len(csv'[t]) = n + 1
      /\ \A i \in 1 .. n : csv'[t][i] = csv[t][i]
      /\ csv'[t][n + 1] = r
      /\ \A q \in Procs : q # p => job'[q] = job[q]
      /\ job'[p] \in Jobs
      /\ job'[p].next = job[p].next + 1
      /\ job'[p].transport = t /\ job'[p].label = job[p].label
      /\ job'[p].grid = job[p].grid /\ job'[p].time = job[p].time
  BY AppendEffect
<1>3. doc' = doc /\ lock' = lock /\ clock' = clock /\ runs' = runs /\ draft' = draft
  OBVIOUS
<1> HIDE DEF r, t, n, F
<1>4. TypeOK
  BY DEF IInv
<1>5. \A q \in Procs : /\ q # p => pc'[q] = pc[q]
                       /\ Active(q)' <=> Active(q)
                       /\ q = p => pc'[q] = "points"
  BY <1>4 DEF TypeOK, Active
<1>6. TypeOK'
  <2>1. job' \in [Procs -> Jobs]
    BY <1>2, <1>4 DEF TypeOK
  <2>2. pc' \in [Procs -> Phases]
    BY <1>4 DEF TypeOK, Phases
  <2> QED  BY <1>2, <1>3, <1>4, <2>1, <2>2 DEF TypeOK
<1>7. \A i \in 1 .. (n + 1) : i \in 1 .. n \/ i = n + 1
  BY <1>2
<1>8. job[p].label \in 1 .. runs
  BY DEF IInv, JobInv
<1>9. RowInv'
  <2> SUFFICES ASSUME NEW u \in Transports, NEW i \in DOMAIN csv'[u]
               PROVE  /\ csv'[u][i].label \in 1 .. runs
                      /\ csv'[u][i].rate = "fixed" <=> csv'[u][i].outcome # "na"
    BY <1>3 DEF RowInv
  <2>1. \A v \in Transports : \A j \in DOMAIN csv[v] :
           /\ csv[v][j].label \in 1 .. runs
           /\ csv[v][j].rate = "fixed" <=> csv[v][j].outcome # "na"
    BY DEF IInv, RowInv
  <2>2. CASE u # t
    BY <1>2, <2>1, <2>2
  <2>3. CASE u = t /\ i \in 1 .. n
    <3>1. csv'[u][i] = csv[u][i] /\ i \in DOMAIN csv[u]
      BY <1>2, <2>3
    <3> QED  BY <2>1, <3>1
  <2>4. CASE u = t /\ i = n + 1
    BY <1>1, <1>2, <1>8, <2>4
  <2> QED  BY <1>2, <1>7, <2>2, <2>3, <2>4
<1>10. JobInv'
  <2> SUFFICES ASSUME NEW q \in Procs, Active(q)'
               PROVE  /\ <<q, job'[q].transport>> \in Users
                      /\ job'[q].label \in 1 .. runs'
                      /\ job'[q].next \in 1 .. (Len(job'[q].grid) + 1)
                      /\ pc'[q] \in {"bench", "append"} => job'[q].next <= Len(job'[q].grid)
                      /\ pc'[q] \in {"tcp", "udp", "write"} => job'[q].next > Len(job'[q].grid)
                      /\ Injective(job'[q].grid)
    BY DEF JobInv
  <2>1. /\ <<q, job[q].transport>> \in Users
        /\ job[q].label \in 1 .. runs
        /\ job[q].next \in 1 .. (Len(job[q].grid) + 1)
        /\ pc[q] \in {"bench", "append"} => job[q].next <= Len(job[q].grid)
        /\ pc[q] \in {"tcp", "udp", "write"} => job[q].next > Len(job[q].grid)
        /\ Injective(job[q].grid)
    BY <1>5 DEF IInv, JobInv
  <2>2. CASE q = p
    <3>1. job[p].next + 1 \in 1 .. (Len(job[p].grid) + 1)
      BY <1>1
    <3> QED  BY <1>2, <1>3, <1>5, <2>1, <2>2, <3>1 DEF t
  <2>3. CASE q # p
    BY <1>2, <1>3, <1>5, <2>1, <2>3
  <2> QED  BY <2>2, <2>3
<1>11. \A q \in Procs : job'[q].grid = job[q].grid /\ job'[q].label = job[q].label
                        /\ job'[q].transport = job[q].transport
  BY <1>2 DEF t
<1>12. LabelInv'
  BY <1>5, <1>11 DEF IInv, LabelInv
<1>13. Recorded(p)
  BY <1>1 DEF IInv, RecordInv
<1>14. /\ F \in Rows
       /\ Len(F) = job[p].next - 1
       /\ \A k \in 1 .. (job[p].next - 1) : F[k].point = job[p].grid[k]
       /\ \A i \in DOMAIN csv[t] : csv[t][i].label = job[p].label => \E k \in DOMAIN F : F[k] = csv[t][i]
  <2>1. /\ F \in Rows
        /\ \A i \in DOMAIN csv[t] : csv[t][i].label = job[p].label => \E k \in DOMAIN F : F[k] = csv[t][i]
    BY <1>1, FilterFacts DEF F
  <2> QED  BY <1>13, <2>1 DEF Recorded, F, t
<1>15. F \in Seq(Row) /\ DOMAIN F = 1 .. (job[p].next - 1)
  BY <1>14, LenProperties DEF Rows
<1>16. RecordInv'
  <2> SUFFICES ASSUME NEW q \in Procs, Active(q)', job'[q].grid # <<>>
               PROVE  Recorded(q)'
    BY DEF RecordInv
  <2>1. CASE q = p
    <3> DEFINE m == job[p].next
               G == Append(F, r)
    <3>1. FilterRunLabel(csv'[t], job[p].label) = G
      <4>1. csv[t] \in Rows /\ r \in Row /\ r.label = job[p].label
        BY <1>1
      <4>2. csv'[t] = Append(csv[t], r)
        BY <1>2
      <4> HIDE DEF r, t
      <4> QED  BY <4>1, <4>2, FilterAppend DEF F
    <3>2. /\ Len(G) = Len(F) + 1
          /\ \A k \in 1 .. Len(F) : G[k] = F[k]
          /\ G[Len(F) + 1] = r
      <4>1. F \in Seq(Row) /\ r \in Row
        BY <1>1, <1>15
      <4> HIDE DEF r
      <4> QED  BY <4>1, AppendProperties
    <3>3. m \in Nat
      BY <1>1
    <3>4. G[m] = r /\ \A k \in 1 .. (m - 1) : G[k] = F[k]
      <4>1. Len(F) = m - 1 /\ Len(F) + 1 = m
        BY <1>14, <3>3
      <4> HIDE DEF m, G
      <4> QED  BY <3>2, <4>1
    <3>5. Len(G) = (m + 1) - 1
      BY <1>14, <3>2, <3>3
    <3> HIDE DEF m, G
    <3>6. \A k \in 1 .. ((m + 1) - 1) : k \in 1 .. (m - 1) \/ k = m
      BY <3>3
    <3>7. \A k \in 1 .. (m - 1) : F[k].point = job[p].grid[k]
      BY <1>14 DEF m
    <3>8. r.point = job[p].grid[m]
      BY <1>1 DEF m
    <3>9. \A k \in 1 .. ((m + 1) - 1) : G[k].point = job[p].grid[k]
      BY <3>4, <3>6, <3>7, <3>8
    <3>10. /\ job'[q].next = m + 1 /\ job'[q].grid = job[p].grid
           /\ FilterRunLabel(csv'[job'[q].transport], job'[q].label) = G
      BY <1>2, <2>1, <3>1 DEF m
    <3> QED  BY <3>5, <3>9, <3>10 DEF Recorded
  <2>2. CASE q # p
    <3>1. Recorded(q) /\ job'[q] = job[q] /\ Active(q) /\ job[q].grid # <<>>
      BY <1>2, <1>5, <2>2 DEF IInv, RecordInv
    <3>2. job[q].label # r.label
      BY <1>1, <2>2, <3>1 DEF IInv, LabelInv
    <3>3. job[q].transport \in Transports
      BY <1>4 DEF TypeOK, Jobs
    <3>4. FilterRunLabel(csv'[job[q].transport], job[q].label)
            = FilterRunLabel(csv[job[q].transport], job[q].label)
      <4>1. CASE job[q].transport = t
        <5>1. FilterRunLabel(Append(csv[t], r), job[q].label) = FilterRunLabel(csv[t], job[q].label)
          BY <1>1, <3>2, FilterAppend
        <5> QED  BY <1>2, <4>1, <5>1
      <4>2. CASE job[q].transport # t
        BY <1>2, <3>3, <4>2
      <4> QED  BY <4>1, <4>2
    <3> QED  BY <3>1, <3>4 DEF Recorded
  <2> QED  BY <2>1, <2>2
<1>17. CsvInv'
  <2>1. \A u \in Transports : OncePerRun(csv[u])
    BY DEF IInv, CsvInv
  <2>2. \A i \in 1 .. n : csv[t][i].label = r.label => csv[t][i].point # r.point
    <3> SUFFICES ASSUME NEW i \in 1 .. n, csv[t][i].label = r.label,
                        csv[t][i].point = r.point
                 PROVE  FALSE
      OBVIOUS
    <3>1. PICK k \in 1 .. (job[p].next - 1) : F[k] = csv[t][i]
      BY <1>1, <1>2, <1>14, <1>15
    <3>2. job[p].grid[k] = job[p].grid[job[p].next]
      BY <1>1, <1>14, <3>1
    <3>3. k \in 1 .. Len(job[p].grid) /\ k # job[p].next
      BY <1>1, <3>1
    <3>4. job[p].grid \in Seq(Points) /\ Injective(job[p].grid)
      BY AppendFacts DEF IInv, JobInv
    <3>5. DOMAIN job[p].grid = 1 .. Len(job[p].grid)
      BY <3>4, LenProperties
    <3> QED  BY <1>1, <3>2, <3>3, <3>4, <3>5 DEF Injective
  <2>3. OncePerRun(csv'[t])
    <3> SUFFICES ASSUME NEW i \in 1 .. (n + 1), NEW j \in 1 .. (n + 1),
                        csv'[t][i].label = csv'[t][j].label,
                        csv'[t][i].point = csv'[t][j].point
                 PROVE  i = j
      BY <1>2 DEF OncePerRun
    <3>1. CASE i \in 1 .. n /\ j \in 1 .. n
      <4>1. OncePerRun(csv[t]) /\ csv'[t][i] = csv[t][i] /\ csv'[t][j] = csv[t][j]
        BY <1>1, <1>2, <2>1, <3>1
      <4> QED  BY <1>2, <3>1, <4>1 DEF OncePerRun
    <3>2. CASE i \in 1 .. n /\ j = n + 1
      BY <1>2, <2>2, <3>2
    <3>3. CASE i = n + 1 /\ j \in 1 .. n
      BY <1>2, <2>2, <3>3
    <3>4. CASE i = n + 1 /\ j = n + 1
      BY <3>4
    <3> QED  BY <1>7, <3>1, <3>2, <3>3, <3>4
  <2>4. \A u \in Transports : u # t => OncePerRun(csv'[u])
    BY <1>2, <2>1
  <2> QED  BY <2>3, <2>4 DEF CsvInv
<1> QED  BY <1>6, <1>9, <1>10, <1>12, <1>16, <1>17 DEF IInv

\* Steps that leave the histories and the labels alone.
LEMMA QuietInv ==
    ASSUME IInv, TypeOK', csv' = csv, runs' = runs,
           \A p \in Procs : Active(p)' =>
              /\ Active(p)
              /\ job'[p].transport = job[p].transport /\ job'[p].label = job[p].label
              /\ job'[p].grid = job[p].grid /\ job'[p].next = job[p].next
              /\ pc'[p] \in {"bench", "append"} => job[p].next <= Len(job[p].grid)
              /\ pc'[p] \in {"tcp", "udp", "write"} => job[p].next > Len(job[p].grid)
    PROVE  IInv'
<1>1. RowInv' /\ CsvInv'
  BY DEF IInv, RowInv, CsvInv
<1>2. JobInv'
  BY DEF IInv, JobInv
<1>3. LabelInv'
  BY DEF IInv, LabelInv
<1>4. RecordInv'
  <2> SUFFICES ASSUME NEW p \in Procs, Active(p)', job'[p].grid # <<>>
               PROVE  Recorded(p)'
    BY DEF RecordInv
  <2>1. Recorded(p)
    BY DEF IInv, RecordInv
  <2> QED  BY <2>1 DEF Recorded
<1> QED  BY <1>1, <1>2, <1>3, <1>4 DEF IInv

LEMMA TakeLockInv ==
    ASSUME IInv, NEW p \in Procs, TakeLock(p)
    PROVE  IInv'
<1>1. TypeOK
  BY DEF IInv
<1>2. /\ pc[p] = "points" /\ HasPoint(p) /\ lock' = p /\ pc' = [pc EXCEPT ![p] = "bench"]
      /\ csv' = csv /\ doc' = doc /\ clock' = clock /\ runs' = runs /\ job' = job /\ draft' = draft
  BY DEF TakeLock
<1>3. TypeOK'
  BY <1>1, <1>2 DEF TypeOK, Phases
<1>5. ASSUME NEW q \in Procs, Active(q)'
      PROVE  /\ Active(q)
             /\ pc'[q] \in {"bench", "append"} => job[q].next <= Len(job[q].grid)
             /\ pc'[q] \in {"tcp", "udp", "write"} => job[q].next > Len(job[q].grid)
  <2>1. CASE q = p
    BY <1>1, <1>2, <2>1 DEF Active, HasPoint, TypeOK
  <2>2. CASE q # p
    <3>1. pc'[q] = pc[q]
      BY <1>1, <1>2, <2>2 DEF TypeOK
    <3>2. Active(q)
      BY <1>5, <3>1 DEF Active
    <3> QED  BY <3>1, <3>2 DEF IInv, JobInv
  <2> QED  BY <2>1, <2>2
<1> QED  BY <1>2, <1>3, <1>5, QuietInv

LEMMA BenchEndsInv ==
    ASSUME IInv, NEW p \in Procs, BenchEnds(p)
    PROVE  IInv'
<1>1. TypeOK
  BY DEF IInv
<1>2. PICK o \in Ends : job' = [job EXCEPT ![p].outcome = o]
  BY DEF BenchEnds
<1>3. /\ pc[p] = "bench" /\ lock' = Free /\ pc' = [pc EXCEPT ![p] = "append"]
      /\ csv' = csv /\ doc' = doc /\ clock' = clock /\ runs' = runs /\ draft' = draft
  BY DEF BenchEnds
<1>4. o \in Outcomes
  BY SnapshotAssumption DEF Outcomes
<1>5. job \in [Procs -> Jobs]
  BY <1>1 DEF TypeOK
<1>6. /\ job'[p] = [job[p] EXCEPT !.outcome = o]
      /\ \A q \in Procs : q # p => job'[q] = job[q]
  BY <1>2, <1>5
<1>7. job[p] \in Jobs
  BY <1>5
<1>8. /\ job'[p] \in Jobs
      /\ job'[p].transport = job[p].transport /\ job'[p].label = job[p].label
      /\ job'[p].grid = job[p].grid /\ job'[p].next = job[p].next
  BY <1>4, <1>6, <1>7 DEF Jobs
<1>9. job' \in [Procs -> Jobs]
  BY <1>2, <1>5, <1>6, <1>8
<1>10. TypeOK'
  BY <1>1, <1>3, <1>9 DEF TypeOK, Phases
<1>12. ASSUME NEW q \in Procs, Active(q)'
       PROVE  /\ Active(q)
              /\ job'[q].transport = job[q].transport /\ job'[q].label = job[q].label
              /\ job'[q].grid = job[q].grid /\ job'[q].next = job[q].next
              /\ pc'[q] \in {"bench", "append"} => job[q].next <= Len(job[q].grid)
              /\ pc'[q] \in {"tcp", "udp", "write"} => job[q].next > Len(job[q].grid)
  <2>1. CASE q = p
    <3>1. Active(p)
      BY <1>3 DEF Active
    <3>2. job[p].next <= Len(job[p].grid)
      BY <1>3, <3>1 DEF IInv, JobInv
    <3>3. pc'[p] = "append"
      BY <1>1, <1>3 DEF TypeOK
    <3> QED  BY <1>8, <2>1, <3>1, <3>2, <3>3
  <2>2. CASE q # p
    <3>1. pc'[q] = pc[q]
      BY <1>1, <1>3, <2>2 DEF TypeOK
    <3>2. Active(q)
      BY <1>12, <3>1 DEF Active
    <3>3. /\ pc[q] \in {"bench", "append"} => job[q].next <= Len(job[q].grid)
          /\ pc[q] \in {"tcp", "udp", "write"} => job[q].next > Len(job[q].grid)
      BY <3>2 DEF IInv, JobInv
    <3> QED  BY <1>6, <2>2, <3>1, <3>2, <3>3
  <2> QED  BY <2>1, <2>2
<1> QED  BY <1>3, <1>10, <1>12, QuietInv

LEMMA NoJobTyped == NoJob \in Jobs
<1>1. MaxRuns \in Nat /\ 0 \in 0 .. MaxRuns
  BY SnapshotAssumption
<1> QED  BY <1>1, EmptySeq DEF NoJob, Jobs, Transports, Outcomes

\* A process is done with its run, one way or another.
LEMMA IdleFacts ==
    ASSUME TypeOK, NEW p \in Procs, pc' = [pc EXCEPT ![p] = "idle"],
           job' = [job EXCEPT ![p] = NoJob]
    PROVE  /\ pc' \in [Procs -> Phases]
           /\ job' \in [Procs -> Jobs]
           /\ ~Active(p)'
           /\ \A q \in Procs : q # p => pc'[q] = pc[q] /\ job'[q] = job[q]
BY NoJobTyped DEF TypeOK, Active, Phases

LEMMA NoDraftTyped == NoDraft \in Drafts
<1>1. MaxRuns \in Nat /\ 0 \in 0 .. MaxRuns
  BY SnapshotAssumption
<1>2. <<>> \in Rows
  BY EmptySeq DEF Rows
<1> QED  BY <1>1, <1>2 DEF NoDraft, Drafts

\* One draft changes.
LEMMA DraftFacts ==
    ASSUME TypeOK, NEW p \in Procs, NEW d, draft' = [draft EXCEPT ![p] = d]
    PROVE  /\ draft'[p] = d
           /\ \A q \in Procs : q # p => draft'[q] = draft[q]
           /\ d \in Drafts => draft' \in [Procs -> Drafts]
BY DEF TypeOK

\* The labels a run renders by.
LEMMA LabelFacts ==
    ASSUME IInv, NEW p \in Procs, NEW t \in Transports
    PROVE  RunLabel(p, t) \in 0 .. MaxRuns
<1>1. TypeOK /\ MaxRuns \in Nat
  BY SnapshotAssumption DEF IInv
<1>2. csv[t] \in Seq(Row) /\ job[p] \in Jobs
  BY <1>1 DEF TypeOK, Rows
<1>3. job[p].label \in 0 .. MaxRuns /\ 0 \in 0 .. MaxRuns
  BY <1>1, <1>2 DEF Jobs
<1>4. csv[t] # <<>> => csv[t][Len(csv[t])].label \in 0 .. MaxRuns
  <2> SUFFICES ASSUME csv[t] # <<>>
               PROVE  csv[t][Len(csv[t])].label \in 0 .. MaxRuns
    OBVIOUS
  <2>1. Len(csv[t]) \in 1 .. Len(csv[t])
    BY <1>2, LenProperties, EmptySeq
  <2>2. csv[t][Len(csv[t])] \in Row
    BY <1>2, <2>1, ElementOfSeq
  <2> QED  BY <2>2 DEF Row
<1> QED  BY <1>3, <1>4 DEF RunLabel, OwnLabel, LatestRunLabel

LEMMA TakeLabelsInv ==
    ASSUME IInv, NEW p \in Procs, TakeLabels(p)
    PROVE  /\ IInv'
           /\ draft'[p] = [label |-> [t \in Transports |-> RunLabel(p, t)],
                           rows |-> [t \in Transports |-> <<>>],
                           seen |-> [t \in Transports |-> Len(csv[t])]]
           /\ \A q \in Procs : q # p => draft'[q] = draft[q]
<1> DEFINE d == [label |-> [t \in Transports |-> RunLabel(p, t)],
                 rows |-> [t \in Transports |-> <<>>],
                 seen |-> [t \in Transports |-> Len(csv[t])]]
<1>1. TypeOK
  BY DEF IInv
<1>2. /\ pc[p] = "points" /\ ~HasPoint(p) /\ pc' = [pc EXCEPT ![p] = "tcp"]
      /\ csv' = csv /\ doc' = doc /\ lock' = lock /\ clock' = clock /\ runs' = runs
      /\ job' = job
  BY DEF TakeLabels
<1>3. draft' = [draft EXCEPT ![p] = d]
  BY DEF TakeLabels
<1>4. d \in Drafts
  <2>1. \A t \in Transports : Len(csv[t]) \in Nat
    BY <1>1, LenProperties DEF TypeOK, Rows
  <2>2. <<>> \in Rows
    BY EmptySeq DEF Rows
  <2> QED  BY <2>1, <2>2, LabelFacts DEF Drafts
<1> HIDE DEF d
<1>5. /\ draft'[p] = d /\ draft' \in [Procs -> Drafts]
      /\ \A q \in Procs : q # p => draft'[q] = draft[q]
  BY <1>1, <1>3, <1>4, DraftFacts
<1>6. TypeOK'
  BY <1>1, <1>2, <1>5 DEF TypeOK, Phases
<1>7. ASSUME NEW q \in Procs, Active(q)'
      PROVE  /\ Active(q)
             /\ pc'[q] \in {"bench", "append"} => job[q].next <= Len(job[q].grid)
             /\ pc'[q] \in {"tcp", "udp", "write"} => job[q].next > Len(job[q].grid)
  <2>1. CASE q = p
    <3>1. job[p] \in Jobs /\ pc'[p] = "tcp"
      BY <1>1, <1>2 DEF TypeOK
    <3>2. job[p].next \in Nat /\ Len(job[p].grid) \in Nat
      BY <3>1, LenProperties DEF Jobs
    <3> QED  BY <1>2, <2>1, <3>1, <3>2 DEF Active, HasPoint
  <2>2. CASE q # p
    <3>1. pc'[q] = pc[q]
      BY <1>1, <1>2, <2>2 DEF TypeOK
    <3>2. Active(q)
      BY <1>7, <3>1 DEF Active
    <3> QED  BY <3>1, <3>2 DEF IInv, JobInv
  <2> QED  BY <2>1, <2>2
<1>8. IInv'
  BY <1>2, <1>6, <1>7, QuietInv
<1> QED  BY <1>5, <1>8 DEF d

LEMMA LoadInv ==
    ASSUME IInv, NEW p \in Procs, NEW t \in Transports, Load(p, t)
    PROVE  /\ IInv'
           /\ draft'[p].label = draft[p].label /\ draft'[p].seen = draft[p].seen
           /\ draft'[p].rows[t] = MakeDataset(csv[t], draft[p].label[t])
           /\ Proper(draft'[p].rows[t])
           /\ \A u \in Transports : u # t => draft'[p].rows[u] = draft[p].rows[u]
           /\ \A q \in Procs : q # p => draft'[q] = draft[q]
<1> DEFINE rows == MakeDataset(csv[t], draft[p].label[t])
           d == [draft[p] EXCEPT !.rows[t] = rows]
<1>1. TypeOK
  BY DEF IInv
<1>2. /\ pc[p] = t /\ pc' = [pc EXCEPT ![p] = IF t = "tcp" THEN "udp" ELSE "write"]
      /\ csv' = csv /\ doc' = doc /\ lock' = lock /\ clock' = clock /\ runs' = runs
      /\ job' = job
  BY DEF Load
<1>3. draft' = [draft EXCEPT ![p] = d]
  BY <1>1 DEF Load, TypeOK
<1>4. rows \in Rows /\ Proper(rows)
  <2>1. /\ csv[t] \in Rows /\ OncePerRun(csv[t])
        /\ \A i \in DOMAIN csv[t] : csv[t][i].rate = "fixed" <=> csv[t][i].outcome # "na"
    BY DEF IInv, TypeOK, CsvInv, RowInv
  <2> QED  BY <2>1, DatasetFacts
<1> HIDE DEF rows
<1>5. draft[p] \in Drafts
  BY <1>1 DEF TypeOK
<1>6. /\ d \in Drafts /\ d.label = draft[p].label /\ d.seen = draft[p].seen
      /\ d.rows[t] = rows /\ \A u \in Transports : u # t => d.rows[u] = draft[p].rows[u]
  BY <1>4, <1>5 DEF Drafts
<1> HIDE DEF d
<1>7. /\ draft'[p] = d /\ draft' \in [Procs -> Drafts]
      /\ \A q \in Procs : q # p => draft'[q] = draft[q]
  BY <1>1, <1>3, <1>6, DraftFacts
<1>8. TypeOK'
  BY <1>1, <1>2, <1>7 DEF TypeOK, Phases
<1>9. ASSUME NEW q \in Procs, Active(q)'
      PROVE  /\ Active(q)
             /\ pc'[q] \in {"bench", "append"} => job[q].next <= Len(job[q].grid)
             /\ pc'[q] \in {"tcp", "udp", "write"} => job[q].next > Len(job[q].grid)
  <2>1. CASE q = p
    <3>1. pc[p] \in {"tcp", "udp"} /\ pc'[p] \in {"udp", "write"}
      BY <1>1, <1>2 DEF TypeOK, Transports
    <3> QED  BY <2>1, <3>1 DEF Active, IInv, JobInv
  <2>2. CASE q # p
    <3>1. pc'[q] = pc[q]
      BY <1>1, <1>2, <2>2 DEF TypeOK
    <3>2. Active(q)
      BY <1>9, <3>1 DEF Active
    <3> QED  BY <3>1, <3>2 DEF IInv, JobInv
  <2> QED  BY <2>1, <2>2
<1>10. IInv'
  BY <1>2, <1>8, <1>9, QuietInv
<1> QED  BY <1>4, <1>6, <1>7, <1>10 DEF rows

\* Both ends of a run leave the histories alone.
LEMMA EndInv ==
    ASSUME IInv, NEW p \in Procs, Write(p) \/ Killed(p)
    PROVE  /\ IInv'
           /\ ~Active(p)' /\ draft'[p] = NoDraft
           /\ \A q \in Procs : q # p =>
                 pc'[q] = pc[q] /\ job'[q] = job[q] /\ draft'[q] = draft[q]
<1>1. TypeOK
  BY DEF IInv
<1>2. /\ pc' = [pc EXCEPT ![p] = "idle"] /\ job' = [job EXCEPT ![p] = NoJob]
      /\ draft' = [draft EXCEPT ![p] = NoDraft]
      /\ csv' = csv /\ clock' = clock /\ runs' = runs
      /\ lock' \in {Free, lock} /\ doc' \in {doc, draft[p].rows}
  BY DEF Killed, Write
<1>3. /\ pc' \in [Procs -> Phases]
      /\ job' \in [Procs -> Jobs]
      /\ ~Active(p)'
      /\ \A q \in Procs : q # p => pc'[q] = pc[q] /\ job'[q] = job[q]
  BY <1>1, <1>2, IdleFacts
<1>4. /\ draft'[p] = NoDraft /\ draft' \in [Procs -> Drafts]
      /\ \A q \in Procs : q # p => draft'[q] = draft[q]
  BY <1>1, <1>2, NoDraftTyped, DraftFacts
<1>5. draft[p] \in Drafts
  BY <1>1 DEF TypeOK
<1>6. doc' \in [Transports -> Rows]
  BY <1>1, <1>2, <1>5 DEF TypeOK, Drafts
<1>7. TypeOK'
  BY <1>1, <1>2, <1>3, <1>4, <1>6 DEF TypeOK
<1>8. ASSUME NEW q \in Procs, Active(q)'
      PROVE  /\ Active(q) /\ job'[q] = job[q]
             /\ pc'[q] \in {"bench", "append"} => job[q].next <= Len(job[q].grid)
             /\ pc'[q] \in {"tcp", "udp", "write"} => job[q].next > Len(job[q].grid)
  <2>1. pc'[q] = pc[q] /\ job'[q] = job[q]
    BY <1>3, <1>8
  <2>2. Active(q)
    BY <1>8, <2>1 DEF Active
  <2> QED  BY <2>1, <2>2 DEF IInv, JobInv
<1>9. IInv'
  BY <1>2, <1>7, <1>8, QuietInv
<1> QED  BY <1>3, <1>4, <1>9

\* The shapes in which a run starts.
Starts(p, t, label, partial, grid) ==
    /\ label \in 1 .. (runs + 1) /\ partial \in BOOLEAN
    /\ grid \in Seq(Points) /\ Injective(grid)
    /\ grid = <<>> \/ label = runs + 1
    /\ grid = <<>> /\ csv[t] # <<>> => label = csv[t][Len(csv[t])].label
    /\ Begin(p, t, label, partial, grid)

ChosenStacks(I) ==
    /\ Kept(Stacks, I) \in Seq({Stacks[j] : j \in DOMAIN Stacks})
    /\ Injective(Kept(Stacks, I)) /\ Len(Kept(Stacks, I)) \in {1, 2}

LEMMA ChosenFacts ==
    ASSUME NEW I \in (SUBSET DOMAIN Stacks) \ {{}}
    PROVE  ChosenStacks(I)
<1>1. /\ Kept(Stacks, I) \in Seq({Stacks[j] : j \in DOMAIN Stacks})
      /\ Injective(Kept(Stacks, I)) /\ Len(Kept(Stacks, I)) = Cardinality(I)
  BY StackFacts, KeptInjective
<1>2. Cardinality(I) \in {1, 2}
  BY StackFacts
<1> QED  BY <1>1, <1>2 DEF ChosenStacks

LEMMA StartFacts ==
    ASSUME IInv, NEW p \in Procs, NEW t \in Transports,
           StartFull(p, t) \/ StartPartial(p, t) \/ StartRenderOnly(p, t)
    PROVE  \E label, partial, grid : Starts(p, t, label, partial, grid)
<1>1. runs \in Nat /\ runs + 1 \in 1 .. (runs + 1)
  BY SnapshotAssumption DEF IInv, TypeOK
<1>2. ASSUME NEW sizes \in Seq({Ladder[i] : i \in DOMAIN Ladder}), Injective(sizes),
             NEW stacks \in Seq({Stacks[j] : j \in DOMAIN Stacks}), Injective(stacks),
             Len(stacks) \in {1, 2}, NEW partial \in BOOLEAN,
             Begin(p, t, runs + 1, partial, Grid(sizes, stacks)),
             Grid(sizes, stacks) # <<>>
      PROVE  Starts(p, t, runs + 1, partial, Grid(sizes, stacks))
  BY <1>1, <1>2, GridFacts DEF Starts
<1>3. CASE StartFull(p, t)
  <2>1. PICK I \in (SUBSET DOMAIN Stacks) \ {{}} :
           Begin(p, t, runs + 1, FALSE, Grid(Ladder, Kept(Stacks, I)))
    BY <1>3 DEF StartFull
  <2>2. ChosenStacks(I)
    BY ChosenFacts
  <2>3. Grid(Ladder, Kept(Stacks, I)) # <<>>
    BY <2>2, LadderFacts, GridFacts DEF ChosenStacks
  <2> QED  BY <1>2, <2>1, <2>2, <2>3, LadderFacts DEF ChosenStacks
<1>4. CASE StartPartial(p, t)
  <2>1. PICK I \in (SUBSET DOMAIN Ladder) \ {{}}, J \in (SUBSET DOMAIN Stacks) \ {{}} :
           Begin(p, t, runs + 1, TRUE, Grid(Kept(Ladder, I), Kept(Stacks, J)))
    BY <1>4 DEF StartPartial
  <2>2. /\ Kept(Ladder, I) \in Seq({Ladder[i] : i \in DOMAIN Ladder})
        /\ Injective(Kept(Ladder, I)) /\ Kept(Ladder, I) # <<>>
    BY LadderFacts, KeptInjective
  <2>3. ChosenStacks(J)
    BY StackFacts, ChosenFacts
  <2>4. Grid(Kept(Ladder, I), Kept(Stacks, J)) # <<>>
    BY <2>2, <2>3, GridFacts DEF ChosenStacks
  <2> QED  BY <1>2, <2>1, <2>2, <2>3, <2>4 DEF ChosenStacks
<1>5. CASE StartRenderOnly(p, t)
  <2> DEFINE label == IF csv[t] = <<>> THEN runs + 1 ELSE LatestRunLabel(csv[t])
  <2>1. PICK partial \in BOOLEAN : Begin(p, t, label, partial, <<>>)
    BY <1>5 DEF StartRenderOnly
  <2>2. <<>> \in Seq(Points) /\ Injective(<<>>)
    BY EmptySeq DEF Injective
  <2>3. csv[t] \in Seq(Row)
    BY DEF IInv, TypeOK, Rows
  <2>4. CASE csv[t] # <<>>
    <3>1. Len(csv[t]) \in DOMAIN csv[t]
      BY <2>3, <2>4, LenProperties, EmptySeq
    <3>2. label = csv[t][Len(csv[t])].label
      BY <2>4 DEF LatestRunLabel
    <3>3. csv[t][Len(csv[t])].label \in 1 .. runs
      BY <3>1 DEF IInv, RowInv
    <3>4. label \in 1 .. (runs + 1)
      BY <1>1, <3>2, <3>3
    <3> QED  BY <2>1, <2>2, <3>2, <3>4 DEF Starts
  <2>5. CASE csv[t] = <<>>
    <3>1. label = runs + 1
      BY <2>5
    <3> QED  BY <1>1, <2>1, <2>2, <2>5, <3>1 DEF Starts
  <2> QED  BY <2>4, <2>5
<1> QED  BY <1>3, <1>4, <1>5

\* What a point records is one of the outcomes.
LEMMA RecordFacts ==
    ASSUME IInv, NEW p \in Procs, Record(p)
    PROVE  Active(p) /\ HasPoint(p) /\ job[p].outcome \in Outcomes
<1>1. pc[p] = "append" /\ Active(p)
  BY DEF Record, Active
<1>2. job[p].next <= Len(job[p].grid)
  BY <1>1 DEF IInv, JobInv
<1>3. job[p] \in Jobs
  BY DEF IInv, TypeOK
<1> QED  BY <1>1, <1>2, <1>3 DEF HasPoint, Jobs

StepOf(p) ==
    \/ \E t \in Transports : \/ StartFull(p, t) \/ StartPartial(p, t)
                            \/ StartRenderOnly(p, t) \/ Load(p, t)
    \/ Locked(p) \/ TakeLock(p) \/ BenchEnds(p) \/ Record(p)
    \/ TakeLabels(p) \/ Write(p) \/ Killed(p)

\* What Locked and Record have in common.
Records(p) ==
    /\ Active(p) /\ HasPoint(p)
    /\ \E o \in Outcomes : AppendLine(p, o)
    /\ job' = [job EXCEPT ![p].next = @ + 1]
    /\ pc' = [pc EXCEPT ![p] = "points"]
    /\ UNCHANGED <<doc, lock, clock, runs, draft>>

\* Next by what it does to the histories.
LEMMA StepShape ==
    ASSUME IInv, NEW p \in Procs,
           StepOf(p)
    PROVE  \/ \E t \in Transports : \E label, partial, grid : Starts(p, t, label, partial, grid)
           \/ Records(p)
           \/ TakeLock(p) \/ BenchEnds(p)
           \/ TakeLabels(p) \/ (\E t \in Transports : Load(p, t)) \/ Write(p) \/ Killed(p)
<1>1. CASE \E t \in Transports : StartFull(p, t) \/ StartPartial(p, t) \/ StartRenderOnly(p, t)
  BY <1>1, StartFacts
<1>2. CASE Locked(p)
  <2>1. pc \in [Procs -> Phases]
    BY DEF IInv, TypeOK
  <2>2. /\ pc[p] = "points" /\ HasPoint(p) /\ AppendLine(p, "na")
        /\ job' = [job EXCEPT ![p].next = @ + 1]
        /\ pc' = pc /\ UNCHANGED <<doc, lock, clock, runs, draft>>
    BY <1>2 DEF Locked
  <2>3. pc' = [pc EXCEPT ![p] = "points"]
    BY <2>1, <2>2
  <2>4. Active(p) /\ "na" \in Outcomes
    BY <2>2 DEF Active, Outcomes
  <2> QED  BY <2>2, <2>3, <2>4 DEF Records
<1>3. CASE Record(p)
  <2>1. Active(p) /\ HasPoint(p) /\ job[p].outcome \in Outcomes
    BY <1>3, RecordFacts
  <2>2. /\ AppendLine(p, job[p].outcome)
        /\ job' = [job EXCEPT ![p].next = @ + 1]
        /\ pc' = [pc EXCEPT ![p] = "points"]
        /\ UNCHANGED <<doc, lock, clock, runs, draft>>
    BY <1>3 DEF Record
  <2> QED  BY <2>1, <2>2 DEF Records
<1> QED  BY <1>1, <1>2, <1>3 DEF StepOf

LEMMA NextInv == IInv /\ [Next]_vars => IInv'
<1> SUFFICES ASSUME IInv, [Next]_vars
             PROVE  IInv'
  OBVIOUS
<1>1. CASE UNCHANGED vars
  <2>1. TypeOK'
    BY <1>1 DEF vars, IInv, TypeOK
  <2>2. csv' = csv /\ runs' = runs /\ job' = job /\ pc' = pc
    BY <1>1 DEF vars
  <2>3. \A p \in Procs : Active(p) =>
           /\ pc[p] \in {"bench", "append"} => job[p].next <= Len(job[p].grid)
           /\ pc[p] \in {"tcp", "udp", "write"} => job[p].next > Len(job[p].grid)
    BY DEF IInv, JobInv
  <2>4. \A p \in Procs : Active(p)' <=> Active(p)
    BY <2>2 DEF Active
  <2> QED  BY <2>1, <2>2, <2>3, <2>4, QuietInv
<1>2. CASE Next
  <2>1. PICK p \in Procs : StepOf(p)
    BY <1>2 DEF Next, StepOf
  <2>2. CASE \E t \in Transports : \E label, partial, grid : Starts(p, t, label, partial, grid)
    BY <2>2, BeginInv DEF Starts
  <2>3. CASE Records(p)
    BY <2>3, AppendInv DEF Records
  <2> QED  BY <2>1, <2>2, <2>3, StepShape, TakeLockInv, BenchEndsInv, TakeLabelsInv, LoadInv,
              EndInv
<1> QED  BY <1>1, <1>2

-----------------------------------------------------------------------------
(* Drafts and documents.                                                   *)

LEMMA NothingShown == Proper(<<>>)
BY DEF Proper, OncePerConfig

\* The histories only grow.
Grown ==
    \A t \in Transports : \A i \in DOMAIN csv[t] : i \in DOMAIN csv'[t] /\ csv'[t][i] = csv[t][i]

\* A draft is not disturbed by what others record.
LEMMA DraftKept ==
    ASSUME NEW q \in Procs, DraftOk(q), Grown,
           pc'[q] = pc[q] /\ job'[q] = job[q] /\ draft'[q] = draft[q]
    PROVE  DraftOk(q)'
<1>1. Rendering(q)' <=> Rendering(q)
  BY DEF Rendering
<1>2. \A t : Loaded(q, t)' <=> Loaded(q, t)
  BY DEF Loaded
<1>3. \A t : OwnLabel(q, t)' = OwnLabel(q, t)
  BY DEF OwnLabel
<1>4. \A t \in Transports : Proper(draft'[q].rows[t])
  BY DEF DraftOk
<1>5. ASSUME Rendering(q)
      PROVE  \A t \in Transports :
                LET n == draft'[q].seen[t]
                IN  t # job'[q].transport /\ n > 0 =>
                      /\ n \in DOMAIN csv'[t]
                      /\ draft'[q].label[t] = csv'[t][n].label
                      /\ Loaded(q, t) => \E i \in DOMAIN draft'[q].rows[t] :
                                            draft'[q].rows[t][i] = csv'[t][n]
  <2> SUFFICES ASSUME NEW t \in Transports, t # job[q].transport, draft[q].seen[t] > 0
               PROVE  LET n == draft[q].seen[t]
                      IN  /\ n \in DOMAIN csv'[t]
                          /\ draft[q].label[t] = csv'[t][n].label
                          /\ Loaded(q, t) => \E i \in DOMAIN draft[q].rows[t] :
                                                draft[q].rows[t][i] = csv'[t][n]
    OBVIOUS
  <2> DEFINE n == draft[q].seen[t]
  <2>1. /\ n \in DOMAIN csv[t] /\ draft[q].label[t] = csv[t][n].label
        /\ Loaded(q, t) => \E i \in DOMAIN draft[q].rows[t] : draft[q].rows[t][i] = csv[t][n]
    BY <1>5 DEF DraftOk
  <2>2. n \in DOMAIN csv'[t] /\ csv'[t][n] = csv[t][n]
    BY <2>1 DEF Grown
  <2> QED  BY <2>1, <2>2
<1> QED  BY <1>1, <1>2, <1>3, <1>4, <1>5 DEF DraftOk

\* A process that renders nothing.
LEMMA DraftIdle ==
    ASSUME NEW p \in Procs, DraftOk(p), ~Rendering(p)',
           draft'[p] = draft[p] \/ draft'[p] = NoDraft
    PROVE  DraftOk(p)'
<1>1. \A t \in Transports : Proper(draft'[p].rows[t])
  BY NothingShown DEF DraftOk, NoDraft
<1> QED  BY <1>1 DEF DraftOk

LEMMA LabelsTaken ==
    ASSUME IInv, NEW p \in Procs, TakeLabels(p)
    PROVE  DraftOk(p)'
<1> DEFINE own == job[p].transport
<1>1. /\ draft'[p] = [label |-> [t \in Transports |-> RunLabel(p, t)],
                      rows |-> [t \in Transports |-> <<>>],
                      seen |-> [t \in Transports |-> Len(csv[t])]]
  BY TakeLabelsInv
<1>2. TypeOK /\ pc'[p] = "tcp" /\ csv' = csv /\ job' = job
  BY DEF IInv, TypeOK, TakeLabels
<1>3. own \in Transports
  BY <1>2 DEF TypeOK, Jobs
<1>4. \A t : ~Loaded(p, t)'
  BY <1>2 DEF Loaded
<1>5. \A t \in Transports : Proper(draft'[p].rows[t])
  BY <1>1, NothingShown
<1>6. draft'[p].label[own] = OwnLabel(p, own) /\ OwnLabel(p, own)' = OwnLabel(p, own)
  BY <1>1, <1>2, <1>3 DEF RunLabel, OwnLabel
<1>7. ASSUME NEW t \in Transports, t # own, draft'[p].seen[t] > 0
      PROVE  /\ draft'[p].seen[t] \in DOMAIN csv[t]
             /\ draft'[p].label[t] = csv[t][draft'[p].seen[t]].label
  <2>1. draft'[p].seen[t] = Len(csv[t]) /\ draft'[p].label[t] = RunLabel(p, t)
    BY <1>1
  <2>2. csv[t] \in Seq(Row)
    BY <1>2 DEF TypeOK, Rows
  <2>3. Len(csv[t]) \in Nat /\ DOMAIN csv[t] = 1 .. Len(csv[t]) /\ Len(csv[t]) > 0
    BY <1>7, <2>1, <2>2, LenProperties
  <2>4. csv[t] # <<>>
    BY <2>3, EmptySeq
  <2>5. RunLabel(p, t) = csv[t][Len(csv[t])].label
    BY <1>7, <2>4 DEF RunLabel, LatestRunLabel
  <2> QED  BY <2>1, <2>3, <2>5
<1> QED  BY <1>2, <1>4, <1>5, <1>6, <1>7 DEF DraftOk

\* All points of a run that is being rendered have their row.
LEMMA RunShown ==
    ASSUME IInv, NEW p \in Procs, Rendering(p), job[p].grid # <<>>
    PROVE  LET F == FilterRunLabel(csv[job[p].transport], job[p].label)
           IN  [i \in DOMAIN F |-> F[i].point] = job[p].grid
<1> DEFINE t == job[p].transport
           F == FilterRunLabel(csv[t], job[p].label)
           grid == job[p].grid
<1>1. Active(p)
  BY DEF Rendering, Active
<1>2. job[p] \in Jobs /\ csv \in [Transports -> Rows]
  BY DEF IInv, TypeOK
<1>3. t \in Transports /\ grid \in Seq(Points)
  BY <1>2 DEF Jobs
<1>4. Len(grid) \in Nat /\ DOMAIN grid = 1 .. Len(grid) /\ grid \in [1 .. Len(grid) -> Points]
  BY <1>3, LenProperties
<1>5. job[p].next \in 1 .. (Len(grid) + 1) /\ job[p].next > Len(grid)
  BY <1>1 DEF IInv, JobInv, Rendering
<1>6. job[p].next = Len(grid) + 1
  BY <1>4, <1>5
<1>7. Len(F) = job[p].next - 1 /\ \A k \in 1 .. (job[p].next - 1) : F[k].point = grid[k]
  <2>1. Recorded(p)
    BY <1>1 DEF IInv, RecordInv
  <2> QED  BY <2>1 DEF Recorded
<1>8. F \in Seq(Row)
  BY <1>2, <1>3, FilterFacts DEF Rows
<1> HIDE DEF F, grid
<1>9. DOMAIN F = 1 .. Len(grid) /\ \A k \in 1 .. Len(grid) : F[k].point = grid[k]
  BY <1>4, <1>6, <1>7, <1>8, LenProperties
<1>10. [i \in DOMAIN F |-> F[i].point] = grid
  BY <1>4, <1>9
<1> QED  BY <1>10 DEF grid, F

\* A history that has been read shows what it had when its label was taken.
LEMMA HistoryLoaded ==
    ASSUME IInv, NEW p \in Procs, NEW t \in Transports, DraftOk(p), Load(p, t)
    PROVE  DraftOk(p)'
<1> DEFINE own == job[p].transport
<1>1. TypeOK /\ csv' = csv /\ job' = job
  BY DEF IInv, Load
<1>2. pc[p] = t /\ pc'[p] = IF t = "tcp" THEN "udp" ELSE "write"
  BY <1>1 DEF TypeOK, Load
<1>3. Rendering(p) /\ \A u \in Transports : Loaded(p, u)' => u = t \/ Loaded(p, u)
  BY <1>2 DEF Rendering, Loaded, Transports
<1>4. /\ draft'[p].label = draft[p].label /\ draft'[p].seen = draft[p].seen
      /\ draft'[p].rows[t] = MakeDataset(csv[t], draft[p].label[t])
      /\ Proper(draft'[p].rows[t])
      /\ \A u \in Transports : u # t => draft'[p].rows[u] = draft[p].rows[u]
  BY LoadInv
<1>5. csv[t] \in Rows /\ job[p] \in Jobs /\ own \in Transports
  BY <1>1 DEF TypeOK, Jobs
<1>6. \A u \in Transports : Proper(draft'[p].rows[u])
  BY <1>4 DEF DraftOk
<1>7. draft'[p].label[own] = OwnLabel(p, own) /\ OwnLabel(p, own)' = OwnLabel(p, own)
  BY <1>1, <1>3, <1>4 DEF DraftOk, OwnLabel
<1>8. ASSUME Loaded(p, own)', ~job[p].partial, job[p].grid # <<>>
      PROVE  [i \in DOMAIN draft'[p].rows[own] |-> draft'[p].rows[own][i].point] = job[p].grid
  <2>1. CASE own # t
    <3>1. Loaded(p, own) /\ draft'[p].rows[own] = draft[p].rows[own]
      BY <1>1, <1>3, <1>4, <1>5, <1>8, <2>1
    <3>2. LET shown == draft[p].rows[own]
          IN  [i \in DOMAIN shown |-> shown[i].point] = job[p].grid
      BY <1>3, <1>8, <3>1 DEF DraftOk
    <3> QED  BY <3>1, <3>2
  <2>2. CASE own = t
    <3>1. draft[p].label[t] = job[p].label
      BY <1>4, <1>7, <1>8, <2>2 DEF OwnLabel
    <3>2. Active(p)
      BY <1>3 DEF Rendering, Active
    <3>3. draft'[p].rows[t] = FilterRunLabel(csv[t], job[p].label)
      <4>1. job[p].label \in 1 .. runs
        BY <3>2 DEF IInv, JobInv
      <4> QED  BY <1>4, <3>1, <4>1 DEF MakeDataset
    <3> QED  BY <1>8, <2>2, <3>2, <3>3, RunShown, <1>3 DEF Rendering
  <2> QED  BY <2>1, <2>2
<1>9. ASSUME NEW u \in Transports, u # own, draft'[p].seen[u] > 0
      PROVE  LET n == draft'[p].seen[u]
             IN  /\ n \in DOMAIN csv[u]
                 /\ draft'[p].label[u] = csv[u][n].label
                 /\ Loaded(p, u)' => \E i \in DOMAIN draft'[p].rows[u] :
                                       draft'[p].rows[u][i] = csv[u][n]
  <2> DEFINE n == draft[p].seen[u]
  <2>1. /\ n \in DOMAIN csv[u] /\ draft[p].label[u] = csv[u][n].label
        /\ Loaded(p, u) => \E i \in DOMAIN draft[p].rows[u] : draft[p].rows[u][i] = csv[u][n]
    BY <1>3, <1>4, <1>9 DEF DraftOk
  <2>2. CASE u # t
    BY <1>3, <1>4, <2>1, <2>2
  <2>3. CASE u = t
    <3>1. csv[t][n].label \in 1 .. runs
      BY <2>1, <2>3 DEF IInv, RowInv
    <3>2. draft'[p].rows[t] = FilterRunLabel(csv[t], csv[t][n].label)
      BY <1>4, <2>1, <2>3, <3>1 DEF MakeDataset
    <3>3. \E i \in DOMAIN draft'[p].rows[t] : draft'[p].rows[t][i] = csv[t][n]
      <4>1. csv[t] \in Rows /\ n \in DOMAIN csv[t]
        BY <1>5, <2>1, <2>3
      <4> HIDE DEF n
      <4> QED  BY <3>2, <4>1, FilterFacts
    <3> QED  BY <1>4, <2>1, <2>3, <3>3
  <2> QED  BY <2>2, <2>3
<1> QED  BY <1>1, <1>6, <1>7, <1>8, <1>9 DEF DraftOk

LEMMA InitShown == Init => ShownInv
<1> SUFFICES ASSUME Init
             PROVE  ShownInv
  OBVIOUS
<1>1. \A p \in Procs : ~Rendering(p)
  BY DEF Init, Rendering
<1>2. \A p \in Procs : \A t \in Transports : Proper(draft[p].rows[t])
  BY NothingShown DEF Init, NoDraft
<1>3. DocInv
  BY NothingShown DEF Init, DocInv
<1> QED  BY <1>1, <1>2, <1>3 DEF ShownInv, DraftInv, DraftOk

LEMMA NextShown == IInv /\ ShownInv /\ [Next]_vars => ShownInv'
<1> SUFFICES ASSUME IInv, ShownInv, [Next]_vars
             PROVE  ShownInv'
  OBVIOUS
<1>1. TypeOK /\ \A q \in Procs : DraftOk(q)
  BY DEF IInv, ShownInv, DraftInv
<1>2. CASE UNCHANGED vars
  <2>1. Grown /\ DocInv' /\ pc' = pc /\ job' = job /\ draft' = draft
    BY <1>2 DEF vars, Grown, ShownInv, DocInv
  <2>2. \A q \in Procs : DraftOk(q)'
    BY <1>1, <2>1, DraftKept
  <2> QED  BY <2>1, <2>2 DEF ShownInv, DraftInv
<1>3. CASE Next
  <2>1. PICK p \in Procs : StepOf(p)
    BY <1>3 DEF Next, StepOf
  <2>2. ASSUME Grown, DocInv', DraftOk(p)',
               \A q \in Procs : q # p =>
                  pc'[q] = pc[q] /\ job'[q] = job[q] /\ draft'[q] = draft[q]
        PROVE  ShownInv'
    <3>1. \A q \in Procs : q # p => DraftOk(q)'
      BY <1>1, <2>2, DraftKept
    <3> QED  BY <2>2, <3>1 DEF ShownInv, DraftInv
  <2>3. csv' = csv => Grown
    BY DEF Grown
  <2>4. doc' = doc => DocInv'
    BY DEF ShownInv, DocInv
  <2>5. CASE \E t \in Transports : \E label, partial, grid : Starts(p, t, label, partial, grid)
    <3>1. /\ csv' = csv /\ doc' = doc /\ draft' = draft /\ pc'[p] = "points"
          /\ \A q \in Procs : q # p => pc'[q] = pc[q] /\ job'[q] = job[q]
      BY <1>1, <2>5 DEF Starts, Begin, TypeOK
    <3>2. ~Rendering(p)'
      BY <3>1 DEF Rendering
    <3> QED  BY <1>1, <2>2, <2>3, <2>4, <3>1, <3>2, DraftIdle
  <2>6. CASE Records(p)
    <3>1. PICK o \in Outcomes : AppendLine(p, o)
      BY <2>6 DEF Records
    <3>2. /\ Active(p) /\ HasPoint(p) /\ job' = [job EXCEPT ![p].next = @ + 1]
          /\ doc' = doc /\ draft' = draft /\ pc' = [pc EXCEPT ![p] = "points"]
      BY <2>6 DEF Records
    <3>3. pc'[p] = "points" /\ \A q \in Procs : q # p => pc'[q] = pc[q] /\ job'[q] = job[q]
      BY <1>1, <3>2 DEF TypeOK
    <3>4. Grown
      <4> DEFINE own == job[p].transport
                 m == Len(csv[own])
      <4>1. /\ \A u \in Transports : u # own => csv'[u] = csv[u]
            /\ m \in Nat /\ DOMAIN csv[own] = 1 .. m /\ DOMAIN csv'[own] = 1 .. (m + 1)
            /\ \A i \in 1 .. m : csv'[own][i] = csv[own][i]
        BY <3>1, <3>2, AppendEffect
      <4> HIDE DEF m, own
      <4>2. \A i \in 1 .. m : i \in 1 .. (m + 1)
        BY <4>1
      <4>3. \A i \in DOMAIN csv[own] : i \in DOMAIN csv'[own] /\ csv'[own][i] = csv[own][i]
        BY <4>1, <4>2
      <4> QED  BY <4>1, <4>3 DEF Grown
    <3>5. ~Rendering(p)'
      BY <3>3 DEF Rendering
    <3> QED  BY <1>1, <2>2, <2>4, <3>2, <3>3, <3>4, <3>5, DraftIdle
  <2>7. CASE TakeLock(p) \/ BenchEnds(p)
    <3>1. /\ csv' = csv /\ doc' = doc /\ draft' = draft /\ pc'[p] \in {"bench", "append"}
          /\ \A q \in Procs : q # p => pc'[q] = pc[q] /\ job'[q] = job[q]
      BY <1>1, <2>7 DEF TakeLock, BenchEnds, TypeOK
    <3>2. ~Rendering(p)'
      BY <3>1 DEF Rendering
    <3> QED  BY <1>1, <2>2, <2>3, <2>4, <3>1, <3>2, DraftIdle
  <2>8. CASE TakeLabels(p)
    <3>1. /\ csv' = csv /\ doc' = doc
          /\ \A q \in Procs : q # p => pc'[q] = pc[q] /\ job'[q] = job[q]
      BY <1>1, <2>8 DEF TakeLabels, TypeOK
    <3>2. \A q \in Procs : q # p => draft'[q] = draft[q]
      BY <2>8, TakeLabelsInv
    <3> QED  BY <2>2, <2>3, <2>4, <2>8, <3>1, <3>2, LabelsTaken
  <2>9. CASE \E t \in Transports : Load(p, t)
    <3>1. PICK t \in Transports : Load(p, t)
      BY <2>9
    <3>2. /\ csv' = csv /\ doc' = doc
          /\ \A q \in Procs : q # p => pc'[q] = pc[q] /\ job'[q] = job[q]
      BY <1>1, <3>1 DEF Load, TypeOK
    <3>3. \A q \in Procs : q # p => draft'[q] = draft[q]
      BY <3>1, LoadInv
    <3> QED  BY <1>1, <2>2, <2>3, <2>4, <3>1, <3>2, <3>3, HistoryLoaded
  <2>10. CASE Write(p) \/ Killed(p)
    <3>1. /\ ~Active(p)' /\ draft'[p] = NoDraft
          /\ \A q \in Procs : q # p =>
                pc'[q] = pc[q] /\ job'[q] = job[q] /\ draft'[q] = draft[q]
      BY <2>10, EndInv
    <3>2. csv' = csv /\ doc' \in {doc, draft[p].rows}
      BY <2>10 DEF Write, Killed
    <3>3. DocInv'
      BY <1>1, <2>4, <3>2 DEF DocInv, DraftOk
    <3>4. ~Rendering(p)'
      BY <3>1 DEF Rendering, Active
    <3> QED  BY <1>1, <2>2, <2>3, <3>1, <3>2, <3>3, <3>4, DraftIdle
  <2> QED  BY <2>1, <2>5, <2>6, <2>7, <2>8, <2>9, <2>10, StepShape
<1> QED  BY <1>2, <1>3

SInv == IInv /\ ShownInv

LEMMA SInvHolds == Spec => []SInv
<1>1. Init => SInv
  BY InitInv, InitShown DEF SInv
<1>2. SInv /\ [Next]_vars => SInv'
  BY NextInv, NextShown DEF SInv
<1> QED  BY <1>1, <1>2, PTL DEF Spec

-----------------------------------------------------------------------------
(* For any set of terminals.                                               *)

\* In rows with one row of each configuration no later row takes the place
\* of a charted one in the table.
LEMMA ChartedIsListed ==
    ASSUME NEW rows \in Rows, OncePerConfig(rows), NEW r \in Series(rows)
    PROVE  \E line \in Table(rows) : line.key[1] = r.point[1] /\ r \in line.cells
<1>1. PICK i \in DOMAIN rows : r = rows[i]
  BY DEF Series
<1>2. \A j \in DOMAIN rows : \E size, stack : rows[j].point = <<size, stack>>
  <2> SUFFICES ASSUME NEW j \in DOMAIN rows
               PROVE  \E size, stack : rows[j].point = <<size, stack>>
    OBVIOUS
  <2>1. rows[j] \in Row
    BY LenProperties, ElementOfSeq DEF Rows
  <2>2. rows[j].point \in Points
    BY <2>1 DEF Row
  <2> QED  BY <2>2 DEF Points
<1> DEFINE key == TableKey(r)
           entries == {j \in DOMAIN rows : TableKey(rows[j]) = key}
           cells == {rows[j] : j \in {m \in entries :
                       \A k \in entries : rows[k].point[2] = rows[m].point[2] => k <= m}}
           line == [key |-> key, cells |-> cells]
<1>3. line \in Table(rows)
  BY <1>1 DEF Table
<1>4. i \in entries
  BY <1>1
<1>5. ASSUME NEW k \in entries, rows[k].point[2] = rows[i].point[2]
      PROVE  k = i
  <2>1. rows[k].point[1] = rows[i].point[1] /\ rows[k].rate = rows[i].rate
    BY <1>1 DEF TableKey
  <2>2. rows[k].point = rows[i].point
    BY <1>2, <1>5, <2>1
  <2>3. ConfigKey(rows[k]) = ConfigKey(rows[i])
    BY <2>1, <2>2 DEF ConfigKey
  <2> QED  BY <2>3 DEF OncePerConfig
<1>6. i \in Int
  BY LenProperties DEF Rows
<1>7. r \in cells
  <2>1. \A k \in entries : rows[k].point[2] = rows[i].point[2] => k <= i
    BY <1>5, <1>6
  <2> QED  BY <1>1, <1>4, <2>1
<1>8. line.key[1] = r.point[1]
  BY DEF TableKey
<1> HIDE DEF key, cells
<1>9. line.cells = cells
  OBVIOUS
<1> QED  BY <1>3, <1>7, <1>8, <1>9

\* The table shows exactly the charted rows as measurements.
LEMMA ChartFacts ==
    ASSUME NEW rows \in Rows, Proper(rows), NEW size, NEW stack
    PROVE  Measured(rows, size, stack) = {r \in Series(rows) : r.point = <<size, stack>>}
<1>1. OncePerConfig(rows)
  BY DEF Proper
<1>2. ASSUME NEW r \in Series(rows), r.point = <<size, stack>>
      PROVE  r \in Measured(rows, size, stack)
  <2>1. PICK line \in Table(rows) : r \in line.cells
    BY <1>1, ChartedIsListed
  <2>2. r \in UNION {l.cells : l \in Table(rows)}
    BY <2>1
  <2>3. RowOk(r)
    BY DEF Series
  <2> QED  BY <1>2, <2>2, <2>3 DEF Measured
<1>3. ASSUME NEW r \in Measured(rows, size, stack)
      PROVE  r \in Series(rows) /\ r.point = <<size, stack>>
  <2>1. r \in UNION {l.cells : l \in Table(rows)} /\ r.point = <<size, stack>> /\ RowOk(r)
    BY <1>3 DEF Measured
  <2>2. PICK i \in DOMAIN rows : r = rows[i]
    BY <2>1 DEF Table
  <2>3. ASSUME NEW k \in DOMAIN rows, RowOk(rows[k]), rows[k].point = rows[i].point
        PROVE  k = i
    <3>1. rows[k].rate = "fixed" /\ rows[i].rate = "fixed"
      <4>1. \A j \in DOMAIN rows : RowOk(rows[j]) => rows[j].rate = "fixed"
        BY DEF Proper, RowOk
      <4> QED  BY <2>1, <2>2, <2>3, <4>1
    <3>2. ConfigKey(rows[k]) = ConfigKey(rows[i])
      BY <2>3, <3>1 DEF ConfigKey
    <3> QED  BY <1>1, <3>2 DEF OncePerConfig
  <2>4. i \in Int
    BY LenProperties DEF Rows
  <2>5. \A k \in {m \in DOMAIN rows : RowOk(rows[m])} : rows[k].point = rows[i].point => k <= i
    BY <2>3, <2>4
  <2> QED  BY <2>1, <2>2, <2>5 DEF Series
<1> QED  BY <1>2, <1>3

\* Table and chart of a section agree, whatever rows it is made of: neither has
\* a measurement that the other lacks.  Both sections always hold at most one
\* row of each point and form of the rate, and a failed point has a form of its
\* own.
THEOREM ChartIsTable == Spec => []ChartMatchesTable
<1>1. SInv => ChartMatchesTable
  <2> SUFFICES ASSUME SInv, NEW t \in Transports, NEW i \in DOMAIN Ladder, NEW j \in DOMAIN Stacks
               PROVE  Measured(doc[t], Ladder[i], Stacks[j]) =
                        IF Ladder[i] \in SizeLabels(doc[t])
                        THEN Line(doc[t], Stacks[j])[Ladder[i]] ELSE {}
    BY DEF ChartMatchesTable
  <2> DEFINE z == Ladder[i]
             drawn == {r \in Series(doc[t]) : r.point = <<z, Stacks[j]>>}
  <2>1. doc[t] \in Rows /\ Proper(doc[t])
    BY DEF SInv, IInv, TypeOK, ShownInv, DocInv
  <2>2. Measured(doc[t], z, Stacks[j]) = drawn
    BY <2>1, ChartFacts
  <2>3. CASE z \in SizeLabels(doc[t])
    <3>1. Line(doc[t], Stacks[j])[z] = drawn
      BY <2>3 DEF Line
    <3> QED  BY <2>2, <2>3, <3>1
  <2>4. CASE z \notin SizeLabels(doc[t])
    <3>1. \A r \in Series(doc[t]) : r.point[1] # z
      BY <2>4 DEF SizeLabels
    <3>2. drawn = {}
      <4>1. \A r : r.point = <<z, Stacks[j]>> => r.point[1] = z
        OBVIOUS
      <4> HIDE DEF z
      <4> QED  BY <3>1, <4>1
    <3> QED  BY <2>2, <2>4, <3>2
  <2> QED  BY <2>3, <2>4
<1> QED  BY <1>1, SInvHolds, PTL

\* A full run is rendered as that exact run: its section has one row for each
\* point of the grid, in order, whatever became of the point and whoever else
\* was recording or rendering.
THEOREM FullRunIsShown == Spec => FullRunShown
<1> DEFINE A == \A p \in Procs :
                  Write(p) /\ ~job[p].partial /\ job[p].grid # <<>> =>
                    LET shown == doc'[job[p].transport]
                    IN  [i \in DOMAIN shown |-> shown[i].point] = job[p].grid
<1>1. ASSUME SInv
      PROVE  A
  <2> SUFFICES ASSUME NEW p \in Procs, Write(p), ~job[p].partial, job[p].grid # <<>>
               PROVE  LET shown == doc'[job[p].transport]
                      IN  [i \in DOMAIN shown |-> shown[i].point] = job[p].grid
    OBVIOUS
  <2>1. pc[p] = "write" /\ doc' = draft[p].rows
    BY DEF Write
  <2>2. Rendering(p) /\ Loaded(p, job[p].transport) /\ DraftOk(p)
    BY <1>1, <2>1 DEF Rendering, Loaded, SInv, ShownInv, DraftInv
  <2> QED  BY <2>1, <2>2 DEF DraftOk
<1>2. SInv /\ [Next]_vars => [A]_vars
  BY <1>1
<1> QED  BY <1>2, SInvHolds, PTL DEF Spec, FullRunShown

-----------------------------------------------------------------------------
(* With one terminal per transport.                                        *)

LEMMA AloneFacts ==
    ASSUME OneTerminal, NEW p, NEW q, NEW t, <<p, t>> \in Users, <<q, t>> \in Users
    PROVE  p = q
<1>1. <<p, t>>[2] = <<q, t>>[2]
  OBVIOUS
<1>2. <<p, t>> = <<q, t>>
  BY <1>1 DEF OneTerminal
<1> QED  BY <1>2

OrderInv == IInv /\ TimeInv /\ LastInv

LEMMA InitOrder == Init => OrderInv
<1> SUFFICES ASSUME Init
             PROVE  OrderInv
  OBVIOUS
<1>1. \A t \in Transports : csv[t] = <<>>
  BY DEF Init
<1>2. \A p \in Procs : ~Active(p)
  BY DEF Init, Active
<1> QED  BY <1>1, <1>2, InitInv DEF OrderInv, TimeInv, LastInv

LEMMA BeginOrder ==
    ASSUME OrderInv, NEW p \in Procs, NEW t \in Transports, NEW label, NEW partial, NEW grid,
           Starts(p, t, label, partial, grid)
    PROVE  TimeInv' /\ LastInv'
<1> DEFINE new == [transport |-> t, label |-> label, time |-> clock', partial |-> partial,
                   grid |-> grid, next |-> 1, outcome |-> "na"]
<1>1. /\ csv' = csv /\ clock' \in {clock, clock + 1}
      /\ job' = [job EXCEPT ![p] = new]
      /\ pc' = [pc EXCEPT ![p] = "points"]
      /\ grid = <<>> /\ csv[t] # <<>> => label = csv[t][Len(csv[t])].label
  BY DEF Starts, Begin
<1>2. TypeOK /\ TimeInv /\ LastInv
  BY DEF OrderInv, IInv
<1>3. clock \in Nat /\ clock' \in Nat /\ clock <= clock'
  BY <1>1, <1>2, SnapshotAssumption DEF TypeOK
<1>4. /\ new.transport = t /\ new.label = label /\ new.grid = grid /\ new.next = 1
      /\ new.time = clock'
  OBVIOUS
<1> HIDE DEF new
<1>5. \A q \in Procs : /\ q = p => job'[q] = new
                       /\ q # p => job'[q] = job[q] /\ (Active(q)' <=> Active(q))
  BY <1>1, <1>2 DEF TypeOK, Active
<1>6. \A u \in Transports : \A i \in DOMAIN csv[u] :
         csv[u][i].time \in Nat /\ csv[u][i].time <= clock'
  <2> SUFFICES ASSUME NEW u \in Transports, NEW i \in DOMAIN csv[u]
               PROVE  csv[u][i].time \in Nat /\ csv[u][i].time <= clock'
    OBVIOUS
  <2>1. csv[u][i] \in Row
    BY <1>2, LenProperties, ElementOfSeq DEF TypeOK, Rows
  <2>2. csv[u][i].time \in Nat /\ csv[u][i].time <= clock
    BY <1>2, <2>1, RowFields DEF TimeInv
  <2> QED  BY <1>3, <2>2
<1>7. TimeInv'
  <2>1. ASSUME NEW q \in Procs, Active(q)'
        PROVE  /\ job'[q].time <= clock'
               /\ \A i \in DOMAIN csv[job'[q].transport] :
                     csv[job'[q].transport][i].time <= job'[q].time
    <3>1. CASE q = p
      BY <1>3, <1>4, <1>5, <1>6, <3>1
    <3>2. CASE q # p
      <4>1. job'[q] = job[q] /\ Active(q)
        BY <1>5, <2>1, <3>2
      <4>2. /\ job[q].time <= clock
            /\ \A i \in DOMAIN csv[job[q].transport] : csv[job[q].transport][i].time <= job[q].time
        BY <1>2, <4>1 DEF TimeInv
      <4>3. job[q].time \in Nat
        BY <1>2, SnapshotAssumption DEF TypeOK, Jobs
      <4>4. job[q].time <= clock'
        BY <1>3, <4>2, <4>3
      <4> QED  BY <4>1, <4>2, <4>4
    <3> QED  BY <3>1, <3>2
  <2> QED  BY <1>1, <1>2, <1>6, <2>1 DEF TimeInv
<1>8. LastInv'
  <2> SUFFICES ASSUME NEW q \in Procs, Active(q)'
               PROVE  LET rows == csv[job'[q].transport]
                      IN  /\ job'[q].next > 1 => rows # <<>>
                          /\ (job'[q].next > 1 \/ job'[q].grid = <<>>) /\ rows # <<>> =>
                                rows[Len(rows)].label = job'[q].label
    BY <1>1 DEF LastInv
  <2>1. CASE q = p
    <3>1. ~(1 > 1)
      OBVIOUS
    <3> QED  BY <1>1, <1>4, <1>5, <2>1, <3>1
  <2>2. CASE q # p
    BY <1>2, <1>5, <2>2 DEF LastInv
  <2> QED  BY <2>1, <2>2
<1> QED  BY <1>7, <1>8

LEMMA AppendOrder ==
    ASSUME OneTerminal, OrderInv, NEW p \in Procs, Active(p), HasPoint(p), NEW o \in Outcomes,
           AppendLine(p, o), job' = [job EXCEPT ![p].next = @ + 1],
           pc' = [pc EXCEPT ![p] = "points"], clock' = clock
    PROVE  TimeInv' /\ LastInv'
<1> DEFINE t == job[p].transport
           n == Len(csv[t])
           r == NewRow(p, o)
<1>1. IInv /\ TypeOK /\ TimeInv /\ LastInv
  BY DEF OrderInv, IInv
<1>2. /\ t \in Transports /\ csv[t] \in Rows
      /\ r \in Row /\ r.label = job[p].label /\ r.time = job[p].time
  BY <1>1, AppendFacts
<1>3. /\ \A u \in Transports : u # t => csv'[u] = csv[u]
      /\ n \in Nat /\ DOMAIN csv[t] = 1 .. n /\ DOMAIN csv'[t] = 1 .. (n + 1)
      /\ Len(csv'[t]) = n + 1
      /\ \A i \in 1 .. n : csv'[t][i] = csv[t][i]
      /\ csv'[t][n + 1] = r
      /\ \A q \in Procs : q # p => job'[q] = job[q]
      /\ job'[p].transport = t /\ job'[p].label = job[p].label /\ job'[p].time = job[p].time
  BY <1>1, AppendEffect
<1>4. \A q \in Procs : q # p /\ Active(q) => job[q].transport # t
  BY <1>1, AloneFacts DEF IInv, JobInv
<1>5. \A q \in Procs : job[q].transport \in Transports
  BY <1>1 DEF TypeOK, Jobs
<1>6. \A i \in 1 .. n : csv[t][i] \in Row
  BY <1>2, <1>3, ElementOfSeq DEF Rows
<1> HIDE DEF t, n, r
<1>7. \A q \in Procs : Active(q)' <=> Active(q)
  BY <1>1 DEF TypeOK, Active
<1>8. \A i \in 1 .. (n + 1) : i \in 1 .. n \/ i = n + 1
  BY <1>3
<1>9. \A i \in 1 .. (n + 1) : csv'[t][i].time <= r.time
  <2>1. \A i \in 1 .. n : csv[t][i].time <= r.time
    BY <1>1, <1>2, <1>3 DEF TimeInv, t
  <2>2. r.time \in Nat
    BY <1>2, RowFields
  <2>3. r.time <= r.time
    BY <2>2
  <2> QED  BY <1>3, <1>8, <2>1, <2>3
<1>10. job[p].time <= clock
  BY <1>1 DEF TimeInv
<1>11. TimeInv'
  <2>1. ASSUME NEW u \in Transports, NEW i \in DOMAIN csv'[u], NEW j \in DOMAIN csv'[u], i <= j
        PROVE  csv'[u][i].time <= csv'[u][j].time
    <3>1. CASE u # t
      BY <1>1, <1>3, <2>1, <3>1 DEF TimeInv
    <3>2. CASE u = t /\ j \in 1 .. n
      <4>1. i \in 1 .. n
        BY <1>3, <2>1, <3>2
      <4> QED  BY <1>1, <1>2, <1>3, <2>1, <3>2, <4>1 DEF TimeInv
    <3>3. CASE u = t /\ j = n + 1
      BY <1>3, <1>9, <3>3
    <3> QED  BY <1>3, <1>8, <3>1, <3>2, <3>3
  <2>2. ASSUME NEW u \in Transports, NEW i \in DOMAIN csv'[u]
        PROVE  csv'[u][i].time <= clock
    <3>1. CASE u # t
      BY <1>1, <1>3, <3>1 DEF TimeInv
    <3>2. CASE u = t /\ i \in 1 .. n
      BY <1>1, <1>2, <1>3, <3>2 DEF TimeInv
    <3>3. CASE u = t /\ i = n + 1
      BY <1>2, <1>3, <1>10, <3>3
    <3> QED  BY <1>3, <1>8, <3>1, <3>2, <3>3
  <2>3. ASSUME NEW q \in Procs, Active(q)'
        PROVE  /\ job'[q].time <= clock
               /\ \A i \in DOMAIN csv'[job'[q].transport] :
                     csv'[job'[q].transport][i].time <= job'[q].time
    <3>1. CASE q = p
      BY <1>2, <1>3, <1>9, <1>10, <3>1
    <3>2. CASE q # p
      <4>1. job'[q] = job[q] /\ Active(q) /\ csv'[job[q].transport] = csv[job[q].transport]
        BY <1>3, <1>4, <1>5, <1>7, <2>3, <3>2
      <4> QED  BY <1>1, <4>1 DEF TimeInv
    <3> QED  BY <3>1, <3>2
  <2> QED  BY <2>1, <2>2, <2>3 DEF TimeInv
<1>12. LastInv'
  <2> SUFFICES ASSUME NEW q \in Procs, Active(q)'
               PROVE  LET rows == csv'[job'[q].transport]
                      IN  /\ job'[q].next > 1 => rows # <<>>
                          /\ (job'[q].next > 1 \/ job'[q].grid = <<>>) /\ rows # <<>> =>
                                rows[Len(rows)].label = job'[q].label
    BY DEF LastInv
  <2>1. CASE q = p
    <3>1. csv'[t] # <<>>
      <4>1. Len(csv'[t]) # 0
        BY <1>3
      <4> QED  BY <4>1, EmptySeq
    <3>2. csv'[t][Len(csv'[t])].label = job[p].label
      BY <1>2, <1>3
    <3> QED  BY <1>3, <2>1, <3>1, <3>2
  <2>2. CASE q # p
    <3>1. job'[q] = job[q] /\ Active(q) /\ csv'[job[q].transport] = csv[job[q].transport]
      BY <1>3, <1>4, <1>5, <1>7, <2>2
    <3> QED  BY <1>1, <3>1 DEF LastInv
  <2> QED  BY <2>1, <2>2
<1> QED  BY <1>11, <1>12

LEMMA QuietOrder ==
    ASSUME TimeInv, LastInv, csv' = csv, clock' = clock,
           \A p \in Procs : Active(p)' =>
              /\ Active(p)
              /\ job'[p].transport = job[p].transport /\ job'[p].label = job[p].label
              /\ job'[p].grid = job[p].grid /\ job'[p].next = job[p].next
              /\ job'[p].time = job[p].time
    PROVE  TimeInv' /\ LastInv'
<1>1. TimeInv'
  BY DEF TimeInv
<1>2. LastInv'
  BY DEF LastInv
<1> QED  BY <1>1, <1>2

LEMMA NextOrder == OneTerminal => (OrderInv /\ [Next]_vars => OrderInv')
<1> SUFFICES ASSUME OneTerminal, OrderInv, [Next]_vars
             PROVE  OrderInv'
  OBVIOUS
<1>1. IInv /\ TypeOK /\ TimeInv /\ LastInv
  BY DEF OrderInv, IInv
<1>2. IInv'
  BY <1>1, NextInv
<1>3. CASE UNCHANGED vars
  <2>1. csv' = csv /\ clock' = clock /\ job' = job /\ pc' = pc
    BY <1>3 DEF vars
  <2>2. \A p \in Procs : Active(p)' => Active(p)
    BY <2>1 DEF Active
  <2> QED  BY <1>1, <1>2, <2>1, <2>2, QuietOrder DEF OrderInv
<1>4. CASE Next
  <2>1. PICK p \in Procs : StepOf(p)
    BY <1>4 DEF Next, StepOf
  <2>2. CASE \E t \in Transports : \E label, partial, grid : Starts(p, t, label, partial, grid)
    BY <1>2, <2>2, BeginOrder DEF OrderInv
  <2>3. CASE Records(p)
    BY <1>2, <2>3, AppendOrder DEF OrderInv, Records
  <2>4. CASE TakeLock(p)
    <3>1. /\ csv' = csv /\ clock' = clock /\ job' = job
          /\ pc[p] = "points" /\ pc' = [pc EXCEPT ![p] = "bench"]
      BY <2>4 DEF TakeLock
    <3>2. \A q \in Procs : Active(q)' => Active(q)
      BY <1>1, <3>1 DEF TypeOK, Active
    <3> QED  BY <1>1, <1>2, <3>1, <3>2, QuietOrder DEF OrderInv
  <2>5. CASE BenchEnds(p)
    <3>1. /\ csv' = csv /\ clock' = clock
          /\ pc[p] = "bench" /\ pc' = [pc EXCEPT ![p] = "append"]
      BY <2>5 DEF BenchEnds
    <3>2. PICK o \in Ends : job' = [job EXCEPT ![p].outcome = o]
      BY <2>5 DEF BenchEnds
    <3>3. job \in [Procs -> Jobs] /\ job[p] \in Jobs
      BY <1>1 DEF TypeOK
    <3>4. /\ job'[p] = [job[p] EXCEPT !.outcome = o]
          /\ \A q \in Procs : q # p => job'[q] = job[q]
      BY <3>2, <3>3
    <3>5. /\ job'[p].transport = job[p].transport /\ job'[p].label = job[p].label
          /\ job'[p].grid = job[p].grid /\ job'[p].next = job[p].next
          /\ job'[p].time = job[p].time
      BY <3>3, <3>4 DEF Jobs
    <3>6. \A q \in Procs : Active(q)' => Active(q)
      BY <1>1, <3>1 DEF TypeOK, Active
    <3>7. \A q \in Procs :
            /\ job'[q].transport = job[q].transport /\ job'[q].label = job[q].label
            /\ job'[q].grid = job[q].grid /\ job'[q].next = job[q].next
            /\ job'[q].time = job[q].time
      BY <3>4, <3>5
    <3> QED  BY <1>1, <1>2, <3>1, <3>6, <3>7, QuietOrder DEF OrderInv
  <2>6. CASE Write(p) \/ Killed(p)
    <3>1. /\ csv' = csv /\ clock' = clock
          /\ pc' = [pc EXCEPT ![p] = "idle"] /\ job' = [job EXCEPT ![p] = NoJob]
      BY <2>6 DEF Write, Killed
    <3>2. ~Active(p)' /\ \A q \in Procs : q # p => pc'[q] = pc[q] /\ job'[q] = job[q]
      BY <1>1, <3>1, IdleFacts
    <3>3. \A q \in Procs : Active(q)' => Active(q) /\ job'[q] = job[q]
      BY <3>2 DEF Active
    <3> QED  BY <1>1, <1>2, <3>1, <3>3, QuietOrder DEF OrderInv
  <2>7. CASE TakeLabels(p) \/ \E t \in Transports : Load(p, t)
    <3>1. /\ csv' = csv /\ clock' = clock /\ job' = job /\ pc[p] # "idle"
          /\ \A q \in Procs : q # p => pc'[q] = pc[q]
      BY <1>1, <2>7 DEF TakeLabels, Load, TypeOK, Transports
    <3>2. \A q \in Procs : Active(q)' => Active(q)
      BY <3>1 DEF Active
    <3> QED  BY <1>1, <1>2, <3>1, <3>2, QuietOrder DEF OrderInv
  <2> QED  BY <1>1, <2>1, <2>2, <2>3, <2>4, <2>5, <2>6, <2>7, StepShape
<1> QED  BY <1>3, <1>4

\* The history of a run that is being rendered stays as it is.
LEMMA OwnKept ==
    ASSUME OwnInv, NEW q \in Procs,
           pc'[q] = pc[q] /\ job'[q] = job[q] /\ draft'[q] = draft[q],
           Rendering(q) => csv'[job[q].transport] = csv[job[q].transport],
           Rendering(q)'
    PROVE  OwnOk(q)'
<1> DEFINE t == job[q].transport
<1>1. Rendering(q) /\ OwnOk(q) /\ csv'[t] = csv[t]
  BY DEF Rendering, OwnInv
<1>2. Loaded(q, t)' <=> Loaded(q, t)
  BY DEF Loaded
<1> QED  BY <1>1, <1>2 DEF OwnOk, Loaded

LEMMA NextOwn == OneTerminal => (IInv /\ OwnInv /\ [Next]_vars => OwnInv')
<1> SUFFICES ASSUME OneTerminal, IInv, OwnInv, [Next]_vars
             PROVE  OwnInv'
  OBVIOUS
<1>1. TypeOK
  BY DEF IInv
<1>2. CASE UNCHANGED vars
  <2>1. csv' = csv /\ pc' = pc /\ job' = job /\ draft' = draft
    BY <1>2 DEF vars
  <2> QED  BY <2>1, OwnKept DEF OwnInv
<1>3. CASE Next
  <2>1. PICK p \in Procs : StepOf(p)
    BY <1>3 DEF Next, StepOf
  <2>2. ASSUME \A q \in Procs : q # p =>
                  /\ pc'[q] = pc[q] /\ job'[q] = job[q] /\ draft'[q] = draft[q]
                  /\ Rendering(q) => csv'[job[q].transport] = csv[job[q].transport],
               Rendering(p)' => OwnOk(p)'
        PROVE  OwnInv'
    <3>1. \A q \in Procs : q # p /\ Rendering(q)' => OwnOk(q)'
      BY <2>2, OwnKept
    <3> QED  BY <2>2, <3>1 DEF OwnInv
  <2>3. CASE \E t \in Transports : \E label, partial, grid : Starts(p, t, label, partial, grid)
    <3>1. /\ csv' = csv /\ draft' = draft /\ pc'[p] = "points"
          /\ \A q \in Procs : q # p => pc'[q] = pc[q] /\ job'[q] = job[q]
      BY <1>1, <2>3 DEF Starts, Begin, TypeOK
    <3>2. ~Rendering(p)'
      BY <3>1 DEF Rendering
    <3> QED  BY <2>2, <3>1, <3>2
  <2>4. CASE Records(p)
    <3>1. PICK o \in Outcomes : AppendLine(p, o)
      BY <2>4 DEF Records
    <3>2. /\ Active(p) /\ HasPoint(p) /\ job' = [job EXCEPT ![p].next = @ + 1]
          /\ draft' = draft /\ pc' = [pc EXCEPT ![p] = "points"]
      BY <2>4 DEF Records
    <3>3. pc'[p] = "points" /\ \A q \in Procs : q # p => pc'[q] = pc[q] /\ job'[q] = job[q]
      BY <1>1, <3>2 DEF TypeOK
    <3>4. \A u \in Transports : u # job[p].transport => csv'[u] = csv[u]
      BY <3>1, <3>2, AppendEffect
    <3>5. \A q \in Procs : q # p /\ Rendering(q) => csv'[job[q].transport] = csv[job[q].transport]
      <4> SUFFICES ASSUME NEW q \in Procs, q # p, Rendering(q)
                   PROVE  csv'[job[q].transport] = csv[job[q].transport]
        OBVIOUS
      <4>1. Active(q)
        BY DEF Rendering, Active
      <4>2. <<p, job[p].transport>> \in Users /\ <<q, job[q].transport>> \in Users
        BY <3>2, <4>1 DEF IInv, JobInv
      <4>3. job[q].transport # job[p].transport
        BY <4>2, AloneFacts
      <4>4. job[q].transport \in Transports
        BY <1>1 DEF TypeOK, Jobs
      <4> QED  BY <3>4, <4>3, <4>4
    <3>6. ~Rendering(p)'
      BY <3>3 DEF Rendering
    <3> QED  BY <2>2, <3>2, <3>3, <3>5, <3>6
  <2>5. CASE TakeLock(p) \/ BenchEnds(p)
    <3>1. /\ csv' = csv /\ draft' = draft /\ pc'[p] \in {"bench", "append"}
          /\ \A q \in Procs : q # p => pc'[q] = pc[q] /\ job'[q] = job[q]
      BY <1>1, <2>5 DEF TakeLock, BenchEnds, TypeOK
    <3>2. ~Rendering(p)'
      BY <3>1 DEF Rendering
    <3> QED  BY <2>2, <3>1, <3>2
  <2>6. CASE TakeLabels(p)
    <3>1. /\ csv' = csv /\ job' = job /\ pc'[p] = "tcp"
          /\ \A q \in Procs : q # p => pc'[q] = pc[q]
      BY <1>1, <2>6 DEF TakeLabels, TypeOK
    <3>2. /\ draft'[p].seen = [t \in Transports |-> Len(csv[t])]
          /\ \A q \in Procs : q # p => draft'[q] = draft[q]
      <4> DEFINE labels == [t \in Transports |-> RunLabel(p, t)]
                 lengths == [t \in Transports |-> Len(csv[t])]
      <4>1. /\ draft'[p] = [label |-> labels, rows |-> [t \in Transports |-> <<>>],
                            seen |-> lengths]
            /\ \A q \in Procs : q # p => draft'[q] = draft[q]
        BY <2>6, TakeLabelsInv
      <4> HIDE DEF labels, lengths
      <4>2. draft'[p].seen = lengths
        BY <4>1
      <4> QED  BY <4>1, <4>2 DEF lengths
    <3>3. job[p].transport \in Transports
      BY <1>1 DEF TypeOK, Jobs
    <3>4. \A t : ~Loaded(p, t)'
      BY <3>1 DEF Loaded
    <3> QED  BY <2>2, <3>1, <3>2, <3>3, <3>4 DEF OwnOk
  <2>7. CASE \E t \in Transports : Load(p, t)
    <3>1. PICK t \in Transports : Load(p, t)
      BY <2>7
    <3>2. /\ csv' = csv /\ job' = job /\ pc[p] = t
          /\ pc'[p] = IF t = "tcp" THEN "udp" ELSE "write"
          /\ \A q \in Procs : q # p => pc'[q] = pc[q]
      BY <1>1, <3>1 DEF Load, TypeOK
    <3>3. /\ draft'[p].label = draft[p].label /\ draft'[p].seen = draft[p].seen
          /\ draft'[p].rows[t] = MakeDataset(csv[t], draft[p].label[t])
          /\ \A u \in Transports : u # t => draft'[p].rows[u] = draft[p].rows[u]
          /\ \A q \in Procs : q # p => draft'[q] = draft[q]
      BY <3>1, LoadInv
    <3>4. Rendering(p) /\ \A u \in Transports : Loaded(p, u)' => u = t \/ Loaded(p, u)
      BY <3>2 DEF Rendering, Loaded, Transports
    <3>5. job[p].transport \in Transports
      BY <1>1 DEF TypeOK, Jobs
    <3> DEFINE own == job[p].transport
    <3>6. /\ draft[p].seen[own] = Len(csv[own])
          /\ Loaded(p, own) => draft[p].rows[own] = MakeDataset(csv[own], draft[p].label[own])
      BY <3>4 DEF OwnInv, OwnOk
    <3>7. Loaded(p, own)' => draft'[p].rows[own] = MakeDataset(csv[own], draft[p].label[own])
      BY <3>2, <3>3, <3>4, <3>5, <3>6
    <3> QED  BY <2>2, <3>2, <3>3, <3>6, <3>7 DEF OwnOk
  <2>8. CASE Write(p) \/ Killed(p)
    <3>1. /\ ~Active(p)'
          /\ \A q \in Procs : q # p =>
                pc'[q] = pc[q] /\ job'[q] = job[q] /\ draft'[q] = draft[q]
      BY <2>8, EndInv
    <3>2. csv' = csv
      BY <2>8 DEF Write, Killed
    <3>3. ~Rendering(p)'
      BY <3>1 DEF Rendering, Active
    <3> QED  BY <2>2, <3>1, <3>2, <3>3
  <2> QED  BY <2>1, <2>3, <2>4, <2>5, <2>6, <2>7, <2>8, StepShape
<1> QED  BY <1>2, <1>3

AllInv == SInv /\ OrderInv /\ OwnInv

LEMMA OrderHolds ==
    ASSUME OneTerminal
    PROVE  Spec => []AllInv
<1>1. Init => OwnInv
  BY DEF Init, OwnInv, Rendering
<1>2. Init => AllInv
  BY <1>1, InitOrder, InitInv, InitShown DEF AllInv, SInv
<1>3. AllInv /\ [Next]_vars => AllInv'
  BY NextInv, NextShown, NextOrder, NextOwn DEF AllInv, SInv
<1> QED  BY <1>2, <1>3, PTL DEF Spec

\* In the order of the minutes the newest row of a configuration is the last.
LEMMA NewestIsLast ==
    ASSUME OrderInv, NEW t \in Transports, NEW i \in DOMAIN csv[t]
    PROVE  ~Beaten(csv[t], i) <=>
             \A j \in DOMAIN csv[t] : ConfigKey(csv[t][j]) = ConfigKey(csv[t][i]) => j <= i
<1>1. csv[t] \in Rows /\ TimeInv
  BY DEF OrderInv, IInv, TypeOK
<1>2. i \in Nat
  BY <1>1, LenProperties DEF Rows
<1>3. ASSUME NEW j \in DOMAIN csv[t]
      PROVE  Newer(csv[t], j, i) <=> ~(j <= i)
  <2>1. j \in Nat /\ csv[t][j] \in Row /\ csv[t][i] \in Row
    BY <1>1, LenProperties, ElementOfSeq DEF Rows
  <2>2. csv[t][j].time \in Nat /\ csv[t][i].time \in Nat
    BY <2>1, RowFields
  <2>3. /\ j <= i => csv[t][j].time <= csv[t][i].time
        /\ i <= j => csv[t][i].time <= csv[t][j].time
    BY <1>1 DEF TimeInv
  <2> QED  BY <1>2, <2>1, <2>2, <2>3 DEF Newer
<1> QED  BY <1>3 DEF Beaten

\* What is written of the run's own transport.
LEMMA OwnWritten ==
    ASSUME AllInv, NEW p \in Procs, Write(p)
    PROVE  LET t == job[p].transport
           IN  /\ t \in Transports /\ Active(p) /\ draft[p].seen[t] = Len(csv[t])
               /\ job[p].next > Len(job[p].grid)
               /\ doc'[t] = MakeDataset(csv[t], OwnLabel(p, t))
<1>1. pc[p] = "write" /\ doc' = draft[p].rows
  BY DEF Write
<1>2. Rendering(p) /\ Active(p) /\ \A t : Loaded(p, t)
  BY <1>1 DEF Rendering, Loaded, Active
<1>3. DraftOk(p) /\ OwnInv /\ IInv
  BY DEF AllInv, SInv, ShownInv, DraftInv
<1>4. job[p].transport \in Transports /\ job[p].next > Len(job[p].grid)
  BY <1>1, <1>2, <1>3 DEF IInv, TypeOK, Jobs, JobInv
<1> QED  BY <1>1, <1>2, <1>3, <1>4 DEF DraftOk, OwnInv, OwnOk

\* The section of a partial run.
LEMMA PartialShown ==
    ASSUME AllInv, NEW p \in Procs, Write(p), job[p].partial
    PROVE  /\ job[p].transport \in Transports
           /\ doc'[job[p].transport] = LatestPerConfig(csv[job[p].transport])
<1>1. OwnLabel(p, job[p].transport) = 0
  BY DEF OwnLabel
<1> QED  BY <1>1, OwnWritten DEF MakeDataset

\* One terminal per transport: after a partial run the chart shows, for every
\* point, the newest of all the rows the bench printed for it, whichever run
\* printed it, also when runs were killed or shared a minute.
THEOREM NewestIsCharted ==
    ASSUME OneTerminal
    PROVE  Spec => NewestCharted
<1>1. ASSUME AllInv, NEW p \in Procs, Write(p), job[p].partial
      PROVE  LET rows == csv[job[p].transport]
                 Printed == {i \in DOMAIN rows : rows[i].rate = "fixed"}
                 Newest == {i \in Printed :
                              \A j \in Printed : rows[j].point = rows[i].point => j <= i}
             IN  Series(doc'[job[p].transport]) =
                   {rows[i] : i \in {j \in Newest : RowOk(rows[j])}}
  <2> DEFINE t == job[p].transport
             rows == csv[t]
             shown == doc'[t]
             Printed == {i \in DOMAIN rows : rows[i].rate = "fixed"}
             Newest == {i \in Printed :
                          \A j \in Printed : rows[j].point = rows[i].point => j <= i}
             Good == {k \in DOMAIN shown : RowOk(shown[k])}
  <2>1. t \in Transports /\ shown = LatestPerConfig(rows)
    BY <1>1, PartialShown
  <2>2. rows \in Rows /\ RowInv
    BY <1>1, <2>1 DEF AllInv, OrderInv, IInv, TypeOK
  <2>3. /\ shown \in Rows
        /\ \A k \in DOMAIN shown : \E i \in DOMAIN rows : ~Beaten(rows, i) /\ shown[k] = rows[i]
        /\ \A i \in DOMAIN rows : ~Beaten(rows, i) => \E k \in DOMAIN shown : shown[k] = rows[i]
        /\ OncePerConfig(shown)
    BY <2>1, <2>2, LatestFacts
  <2>4. \A i \in DOMAIN rows : RowOk(rows[i]) => rows[i].rate = "fixed"
    BY <2>1, <2>2 DEF RowInv, RowOk
  <2>5. \A i \in DOMAIN rows : rows[i].rate = "fixed" => (~Beaten(rows, i) <=> i \in Newest)
    <3> SUFFICES ASSUME NEW i \in DOMAIN rows, rows[i].rate = "fixed"
                 PROVE  ~Beaten(rows, i) <=> i \in Newest
      OBVIOUS
    <3>1. ~Beaten(rows, i) <=>
            \A j \in DOMAIN rows : ConfigKey(rows[j]) = ConfigKey(rows[i]) => j <= i
      BY <1>1, <2>1, NewestIsLast DEF AllInv
    <3>2. \A j \in DOMAIN rows :
            ConfigKey(rows[j]) = ConfigKey(rows[i]) <=> j \in Printed /\ rows[j].point = rows[i].point
      BY DEF ConfigKey
    <3> QED  BY <3>1, <3>2
  <2>6. ASSUME NEW k \in Good, NEW m \in Good, shown[k].point = shown[m].point
        PROVE  k = m
    <3>1. shown[k].rate = "fixed" /\ shown[m].rate = "fixed"
      BY <2>3, <2>4
    <3>2. ConfigKey(shown[k]) = ConfigKey(shown[m])
      BY <2>6, <3>1 DEF ConfigKey
    <3> QED  BY <2>3, <3>2 DEF OncePerConfig
  <2>7. Series(shown) = {shown[k] : k \in Good}
    <3>1. \A k \in Good : k \in Int
      BY <2>3, LenProperties DEF Rows
    <3>2. \A k, m \in Good : shown[m].point = shown[k].point => m <= k
      BY <2>6, <3>1
    <3> QED  BY <3>2 DEF Series
  <2>8. \A r : r \in Series(shown) <=> \E i \in {j \in Newest : RowOk(rows[j])} : r = rows[i]
    <3> SUFFICES ASSUME NEW r
                 PROVE  r \in Series(shown) <=> \E i \in {j \in Newest : RowOk(rows[j])} : r = rows[i]
      OBVIOUS
    <3>1. ASSUME r \in Series(shown)
          PROVE  \E i \in {j \in Newest : RowOk(rows[j])} : r = rows[i]
      <4>1. PICK k \in Good : r = shown[k]
        BY <2>7, <3>1
      <4>2. PICK i \in DOMAIN rows : ~Beaten(rows, i) /\ shown[k] = rows[i]
        BY <2>3
      <4>3. RowOk(rows[i]) /\ r = rows[i]
        BY <4>1, <4>2
      <4>4. i \in Newest
        BY <2>4, <2>5, <4>2, <4>3
      <4> QED  BY <4>3, <4>4
    <3>2. ASSUME NEW i \in Newest, RowOk(rows[i]), r = rows[i]
          PROVE  r \in Series(shown)
      <4>1. i \in DOMAIN rows /\ ~Beaten(rows, i)
        BY <2>5, <3>2
      <4>2. PICK k \in DOMAIN shown : shown[k] = rows[i]
        BY <2>3, <4>1
      <4>3. k \in Good
        BY <3>2, <4>2
      <4> QED  BY <2>7, <3>2, <4>2, <4>3
    <3> QED  BY <3>1, <3>2
  <2> HIDE DEF shown, Newest
  <2>9. Series(shown) = {rows[i] : i \in {j \in Newest : RowOk(rows[j])}}
    BY <2>8 DEF Series
  <2> QED  BY <2>9 DEF shown, Newest
<1>2. AllInv /\ [Next]_vars =>
        [\A p \in Procs :
           Write(p) /\ job[p].partial =>
              LET rows == csv[job[p].transport]
                  Printed == {i \in DOMAIN rows : rows[i].rate = "fixed"}
                  Newest == {i \in Printed :
                               \A j \in Printed : rows[j].point = rows[i].point => j <= i}
              IN  Series(doc'[job[p].transport]) =
                    {rows[i] : i \in {j \in Newest : RowOk(rows[j])}}]_vars
  BY <1>1
<1> QED  BY <1>2, OrderHolds, PTL DEF Spec, NewestCharted

\* One terminal per transport: a document shows, in both sections, the row that
\* was the last one when its run chose what to show; of what a run of the other
\* transport records only rows that came later may be missing.
THEOREM LastRowIsShown ==
    ASSUME OneTerminal
    PROVE  Spec => LastRowShown
<1>1. ASSUME AllInv, NEW p \in Procs, Write(p), NEW t \in Transports, draft[p].seen[t] > 0
      PROVE  \E i \in DOMAIN doc'[t] : doc'[t][i] = csv[t][draft[p].seen[t]]
  <2> DEFINE own == job[p].transport
             last == Len(csv[own])
  <2>1. IInv /\ TypeOK /\ LastInv /\ DraftOk(p)
    BY <1>1 DEF AllInv, SInv, ShownInv, DraftInv, OrderInv, IInv
  <2>2. CASE t # own
    <3>1. pc[p] = "write" /\ doc' = draft[p].rows
      BY <1>1 DEF Write
    <3>2. Rendering(p) /\ Loaded(p, t)
      BY <3>1 DEF Rendering, Loaded
    <3> QED  BY <1>1, <2>1, <2>2, <3>1, <3>2 DEF DraftOk
  <2>3. CASE t = own
    <3>1. /\ own \in Transports /\ Active(p) /\ draft[p].seen[own] = last
          /\ job[p].next > Len(job[p].grid)
          /\ doc'[own] = MakeDataset(csv[own], OwnLabel(p, own))
      BY <1>1, OwnWritten
    <3>2. csv[own] \in Rows /\ csv[own] \in Seq(Row)
      BY <2>1, <3>1 DEF TypeOK, Rows
    <3>3. last \in DOMAIN csv[own] /\ csv[own] # <<>> /\ \A j \in DOMAIN csv[own] : j <= last
      <4>1. /\ Len(csv[own]) \in Nat /\ Len(csv[own]) > 0
            /\ DOMAIN csv[own] = 1 .. Len(csv[own])
        BY <1>1, <2>3, <3>1, <3>2, LenProperties
      <4> QED  BY <3>2, <4>1, EmptySeq
    <3> HIDE DEF last
    <3>4. CASE job[p].partial
      <4>1. doc'[own] = LatestPerConfig(csv[own])
        BY <1>1, <3>4, PartialShown
      <4>2. ~Beaten(csv[own], last)
        BY <1>1, <3>1, <3>3, NewestIsLast DEF AllInv
      <4>3. \E k \in DOMAIN LatestPerConfig(csv[own]) :
               LatestPerConfig(csv[own])[k] = csv[own][last]
        BY <3>2, <3>3, <4>2, LatestFacts
      <4> QED  BY <2>3, <3>1, <4>1, <4>3
    <3>5. CASE ~job[p].partial
      <4>1. job[p].label \in 1 .. runs /\ OwnLabel(p, own) = job[p].label
        BY <2>1, <3>1, <3>5 DEF IInv, JobInv, OwnLabel
      <4>2. doc'[own] = FilterRunLabel(csv[own], job[p].label)
        BY <3>1, <4>1 DEF MakeDataset
      <4>3. job[p].next > 1 \/ job[p].grid = <<>>
        <5>1. job[p].grid \in Seq(Points) /\ job[p].next \in Nat
          BY <2>1 DEF TypeOK, Jobs
        <5>2. Len(job[p].grid) \in Nat /\ (Len(job[p].grid) = 0 => job[p].grid = <<>>)
          BY <5>1, LenProperties, EmptySeq
        <5> QED  BY <3>1, <5>1, <5>2
      <4>4. csv[own][last].label = job[p].label
        BY <2>1, <3>1, <3>3, <4>3 DEF LastInv, last
      <4>5. \E k \in DOMAIN doc'[own] : doc'[own][k] = csv[own][last]
        BY <3>2, <3>3, <4>2, <4>4, FilterFacts
      <4> QED  BY <2>3, <3>1, <4>5
    <3> QED  BY <3>4, <3>5
  <2> QED  BY <2>2, <2>3
<1>2. AllInv /\ [Next]_vars =>
        [\A p \in Procs :
           Write(p) => \A t \in Transports :
              LET n == draft[p].seen[t]
              IN  n > 0 => \E i \in DOMAIN doc'[t] : doc'[t][i] = csv[t][n]]_vars
  BY <1>1
<1> QED  BY <1>2, OrderHolds, PTL DEF Spec, LastRowShown
=============================================================================

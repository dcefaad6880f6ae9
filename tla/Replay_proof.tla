----------------------------- MODULE Replay_proof -----------------------------
(***************************************************************************)
(* Theorems about the replay service, for any number of runs, records and  *)
(* results.                                                                *)
(*                                                                         *)
(* A run takes up one thing after the other, and that is the whole         *)
(* argument: while it fetches it has posted nothing, so nothing that it    *)
(* has caused can be in the topic yet; once it posts, what it has fetched  *)
(* stays as it is.                                                         *)
(***************************************************************************)
EXTENDS Replay, TLAPS

\* A run that has not started to replay.
Fresh(c) == pc[c] \in {"idle", "fetching"}

Typed ==
    /\ log \in Seq(Record) /\ Len(log) <= MaxRecords
    /\ pc \in [Runs -> {"idle", "fetching", "replaying", "done"}]
    /\ left \in [Runs -> BOOLEAN]
    /\ offset \in [Runs -> Nat]
    /\ fetched \in [Runs -> Seq(Nat)]
    /\ waiting \in [Runs -> BOOLEAN]
    /\ results \in [Runs -> Seq(Result)]
    /\ owed \in [Runs -> Nat]

\* The reader is within the log, and its result within what it has read.
Reads(c) ==
    /\ offset[c] <= Len(log)
    /\ Len(fetched[c]) <= Limit
    /\ \A i \in 1..Len(fetched[c]) : fetched[c][i] \in 1..offset[c]

\* Every goroutine that may yet write a record belongs to a post of the run, and
\* every post to a record it has fetched.
Posts(c) ==
    /\ Len(results[c]) <= Len(fetched[c])
    /\ waiting[c] => pc[c] = "replaying" /\ Len(results[c]) < Len(fetched[c])
    /\ owed[c] <= Len(results[c]) + 1
    /\ owed[c] <= Len(results[c]) \/ waiting[c]
    /\ Fresh(c) => results[c] = <<>>

\* Nothing in the topic is by a run that has not started to replay.
Past(c) ==
    /\ Fresh(c) => \A i \in 1..Len(log) : log[i].by # c
    /\ \A i \in 1..Len(fetched[c]) : log[fetched[c][i]].by # c

\* What the reader has passed, in its order.
History(c) ==
    /\ \A n \in 1..offset[c] :
        log[n].kind = "match" => \E i \in 1..Len(fetched[c]) : fetched[c][i] = n
    /\ \A i \in 1..Len(fetched[c]) : log[fetched[c][i]].kind = "match"
    /\ \A i, j \in 1..Len(fetched[c]) : i < j => fetched[c][i] < fetched[c][j]

\* One result for each record that has been replayed, in the order of the records.
Answers(c) == \A i \in 1..Len(results[c]) : results[c][i].of = fetched[c][i]

OfRun(c) == Reads(c) /\ Posts(c) /\ Past(c) /\ History(c) /\ Answers(c)

Inv == Typed /\ \A c \in Runs : OfRun(c)

------------------------------------------------------------------------------
(* Types *)

LEMMA BoundedIs ==
    ASSUME NEW S, NEW n \in Nat, NEW s
    PROVE  s \in BoundedSeq(S, n) <=> s \in Seq(S) /\ Len(s) <= n
<1>1. ASSUME s \in BoundedSeq(S, n)
      PROVE  s \in Seq(S) /\ Len(s) <= n
  <2>1. PICK m \in 0..n : s \in [1..m -> S]
    BY <1>1 DEF BoundedSeq, SeqOf
  <2> QED
    BY <2>1
<1>2. ASSUME s \in Seq(S), Len(s) <= n
      PROVE  s \in BoundedSeq(S, n)
  <2>1. Len(s) \in 0..n /\ s \in [1..Len(s) -> S]
    BY <1>2
  <2> QED
    BY <2>1 DEF BoundedSeq, SeqOf
<1> QED
  BY <1>1, <1>2

\* The values are within the bounds of the type invariant: each follows from how
\* far the run has come.
LEMMA Bounds == Inv => TypeOK
<1> SUFFICES ASSUME Inv PROVE TypeOK
  OBVIOUS
<1> USE DEF Inv, OfRun
<1>1. log \in BoundedSeq(Record, MaxRecords)
  BY BoundedIs, ReplayAssumption DEF Typed
<1>2. \A c \in Runs : offset[c] \in 0..Len(log)
  BY DEF Typed, Reads
<1>3. \A c \in Runs : fetched[c] \in BoundedSeq(1..Len(log), Limit)
  <2> TAKE c \in Runs
  <2>1. fetched[c] \in Seq(Nat) /\ Len(log) \in Nat /\ offset[c] \in Nat /\ Reads(c)
    BY DEF Typed
  <2>2. \A i \in 1..Len(fetched[c]) : fetched[c][i] \in 1..Len(log)
    BY <2>1 DEF Reads
  <2>3. fetched[c] \in Seq(1..Len(log)) /\ Len(fetched[c]) <= Limit
    BY <2>1, <2>2 DEF Reads
  <2> QED
    BY <2>3, BoundedIs, ReplayAssumption
<1>4. \A c \in Runs : results[c] \in BoundedSeq(Result, Limit)
  <2> TAKE c \in Runs
  <2>1. results[c] \in Seq(Result) /\ fetched[c] \in Seq(Nat) /\ Reads(c) /\ Posts(c)
    BY DEF Typed
  <2>2. Len(results[c]) <= Limit
    BY <2>1, ReplayAssumption DEF Reads, Posts
  <2> QED
    BY <2>1, <2>2, BoundedIs, ReplayAssumption
<1>5. \A c \in Runs : owed[c] \in 0..Limit
  <2> TAKE c \in Runs
  <2>1. /\ results[c] \in Seq(Result) /\ fetched[c] \in Seq(Nat) /\ Reads(c) /\ Posts(c)
        /\ owed[c] \in Nat
    BY DEF Typed
  <2> QED
    BY <2>1, ReplayAssumption DEF Reads, Posts
<1> QED
  BY <1>1, <1>2, <1>3, <1>4, <1>5 DEF TypeOK, Typed

LEMMA InitInv == Init => Inv
<1> SUFFICES ASSUME Init PROVE Inv
  OBVIOUS
<1>1. Typed
  BY ReplayAssumption DEF Init, Typed
<1>2. ASSUME NEW c \in Runs PROVE OfRun(c)
  <2>1. offset[c] = 0 /\ fetched[c] = <<>> /\ results[c] = <<>> /\ ~waiting[c] /\ owed[c] = 0 /\ log = <<>>
    BY DEF Init
  <2> QED
    BY <2>1, ReplayAssumption DEF OfRun, Reads, Posts, Past, History, Answers
<1> QED
  BY <1>1, <1>2 DEF Inv

------------------------------------------------------------------------------
(* The topic *)

\* A record is added, by no run that is yet to replay: what the runs have read
\* is still there.
LEMMA LogGrows ==
    ASSUME Inv, NEW rec \in Record, log' = Append(log, rec), UNCHANGED runs,
           NEW c \in Runs, Fresh(c) => rec.by # c,
           owed'[c] \in Nat, owed'[c] <= owed[c]
    PROVE  OfRun(c)'
<1>1. /\ log \in Seq(Record) /\ offset[c] \in Nat /\ fetched[c] \in Seq(Nat) /\ results[c] \in Seq(Result)
      /\ owed[c] \in Nat /\ waiting[c] \in BOOLEAN
  BY DEF Inv, Typed
<1>2. Reads(c) /\ Posts(c) /\ Past(c) /\ History(c) /\ Answers(c)
  BY DEF Inv, OfRun
<1>3. /\ offset'[c] = offset[c] /\ fetched'[c] = fetched[c] /\ results'[c] = results[c]
      /\ waiting'[c] = waiting[c] /\ pc'[c] = pc[c]
  BY DEF runs
<1>4. /\ Len(log') = Len(log) + 1 /\ log'[Len(log) + 1] = rec
      /\ \A i \in 1..Len(log) : log'[i] = log[i]
  BY <1>1
<1>5. Reads(c)'
  BY <1>1, <1>2, <1>3, <1>4 DEF Reads
<1>6. Posts(c)'
  BY <1>1, <1>2, <1>3 DEF Posts, Fresh
<1>7. \A n \in 1..offset[c] : log'[n] = log[n]
  BY <1>1, <1>2, <1>4 DEF Reads
<1>8. Past(c)'
  <2>1. Fresh(c)' => \A i \in 1..Len(log') : log'[i].by # c
    BY <1>1, <1>2, <1>3, <1>4 DEF Past, Fresh
  <2>2. \A i \in 1..Len(fetched[c]) : log'[fetched[c][i]].by # c
    BY <1>2, <1>7 DEF Past, Reads
  <2> QED
    BY <1>3, <2>1, <2>2 DEF Past
<1>9. History(c)'
  <2>1. /\ \A n \in 1..offset[c] :
            log'[n].kind = "match" => \E i \in 1..Len(fetched[c]) : fetched[c][i] = n
        /\ \A i \in 1..Len(fetched[c]) : log'[fetched[c][i]].kind = "match"
    BY <1>2, <1>7 DEF History, Reads
  <2>2. \A i, j \in 1..Len(fetched[c]) : i < j => fetched[c][i] < fetched[c][j]
    BY <1>2 DEF History
  <2> QED
    BY <1>3, <2>1, <2>2 DEF History
<1>10. Answers(c)'
  BY <1>2, <1>3 DEF Answers
<1> QED
  BY <1>5, <1>6, <1>8, <1>9, <1>10 DEF OfRun

LEMMA AppendTyped ==
    ASSUME Typed, NEW rec \in Record, Len(log) < MaxRecords
    PROVE  Append(log, rec) \in Seq(Record) /\ Len(Append(log, rec)) <= MaxRecords
  BY ReplayAssumption DEF Typed

LEMMA ServeClientKeeps == ASSUME Inv, ServeClient PROVE Inv'
<1>1. PICK kind \in {"match", "other", "garbled"} : log' = Append(log, [kind |-> kind, by |-> Client])
  BY DEF ServeClient
<1>2. [kind |-> kind, by |-> Client] \in Record
  BY DEF Record
<1>3. UNCHANGED runs /\ owed' = owed /\ Len(log) < MaxRecords
  BY DEF ServeClient
<1>4. Typed'
  BY <1>1, <1>2, <1>3, AppendTyped DEF Inv, Typed, runs
<1>5. ASSUME NEW c \in Runs PROVE OfRun(c)'
  <2>1. Client # c /\ owed'[c] \in Nat /\ owed'[c] <= owed[c]
    BY <1>3, ReplayAssumption DEF Inv, Typed
  <2> QED
    BY <1>1, <1>2, <1>3, <2>1, LogGrows
<1> QED
  BY <1>4, <1>5 DEF Inv

\* A record is by a run that has posted.
LEMMA CollectKeeps == ASSUME Inv, NEW d \in Runs, Collect(d) PROVE Inv'
<1>1. PICK kind \in {"match", "other"} : log' = Append(log, [kind |-> kind, by |-> d])
  BY DEF Collect
<1>2. [kind |-> kind, by |-> d] \in Record
  BY DEF Record
<1>3. /\ UNCHANGED runs /\ Len(log) < MaxRecords /\ owed[d] > 0
      /\ owed' = owed \/ owed' = [owed EXCEPT ![d] = @ - 1]
  BY DEF Collect
<1>4. owed \in [Runs -> Nat]
  BY DEF Inv, Typed
<1>5. owed' \in [Runs -> Nat] /\ \A c \in Runs : owed'[c] <= owed[c]
  BY <1>3, <1>4
<1>6. Typed'
  BY <1>1, <1>2, <1>3, <1>5, AppendTyped DEF Inv, Typed, runs
<1>7. ~Fresh(d)
  <2>1. Posts(d) /\ waiting[d] \in BOOLEAN
    BY DEF Inv, OfRun, Typed
  <2>2. Fresh(d) => results[d] = <<>> /\ ~waiting[d]
    BY <2>1 DEF Posts, Fresh
  <2>3. Fresh(d) => owed[d] <= 0
    BY <2>1, <2>2 DEF Posts
  <2> QED
    BY <1>3, <1>4, <2>3
<1>8. ASSUME NEW c \in Runs PROVE OfRun(c)'
  <2>1. Fresh(c) => d # c
    BY <1>7
  <2>2. owed'[c] \in Nat /\ owed'[c] <= owed[c]
    BY <1>5
  <2> QED
    BY <1>1, <1>2, <1>3, <2>1, <2>2, LogGrows
<1> QED
  BY <1>6, <1>8 DEF Inv

------------------------------------------------------------------------------
(* Steps of a run *)

\* What a step of another run leaves alone.
Untouched(c) ==
    /\ pc'[c] = pc[c] /\ offset'[c] = offset[c] /\ fetched'[c] = fetched[c]
    /\ waiting'[c] = waiting[c] /\ results'[c] = results[c] /\ owed'[c] = owed[c]

LEMMA OthersKeep ==
    ASSUME Inv, NEW c \in Runs, Untouched(c), log' = log
    PROVE  OfRun(c)'
<1>1. Reads(c) /\ Posts(c) /\ Past(c) /\ History(c) /\ Answers(c)
  BY DEF Inv, OfRun
<1>2. Reads(c)' /\ History(c)' /\ Answers(c)'
  BY <1>1 DEF Reads, History, Answers, Untouched
<1>3. Posts(c)' /\ Past(c)'
  BY <1>1 DEF Posts, Past, Fresh, Untouched
<1> QED
  BY <1>2, <1>3 DEF OfRun

\* So a step of one run needs to be looked at for that run only.
LEMMA OneRun ==
    ASSUME Inv, NEW d \in Runs, log' = log, Typed', OfRun(d)',
           \A c \in Runs \ {d} : Untouched(c)
    PROVE  Inv'
<1>1. ASSUME NEW c \in Runs PROVE OfRun(c)'
  BY OthersKeep
<1> QED
  BY <1>1 DEF Inv

LEMMA LoseKeeps == ASSUME Inv, NEW d \in Runs, Lose(d) PROVE Inv'
<1>1. owed \in [Runs -> Nat] /\ owed[d] > 0
  BY DEF Inv, Typed, Lose
<1>2. owed' = [owed EXCEPT ![d] = @ - 1] /\ UNCHANGED <<log, runs>>
  BY DEF Lose
<1>3. Typed'
  BY <1>1, <1>2 DEF Inv, Typed, runs
<1>4. OfRun(d)'
  <2>1. /\ Reads(d) /\ Posts(d) /\ Past(d) /\ History(d) /\ Answers(d)
        /\ results[d] \in Seq(Result) /\ waiting[d] \in BOOLEAN
    BY DEF Inv, OfRun, Typed
  <2>2. Reads(d)' /\ Past(d)' /\ History(d)' /\ Answers(d)'
    BY <1>2, <2>1 DEF Reads, Past, History, Answers, Fresh, runs
  <2>3. Posts(d)'
    BY <1>1, <1>2, <2>1 DEF Posts, Fresh, runs
  <2> QED
    BY <2>2, <2>3 DEF OfRun
<1>5. \A c \in Runs \ {d} : Untouched(c)
  BY <1>1, <1>2 DEF Untouched, runs
<1> QED
  BY <1>2, <1>3, <1>4, <1>5, OneRun

\* What the invariant says of one run.
Known(d) ==
    /\ log \in Seq(Record) /\ Len(log) <= MaxRecords
    /\ pc \in [Runs -> {"idle", "fetching", "replaying", "done"}]
    /\ offset[d] \in Nat /\ fetched[d] \in Seq(Nat) /\ waiting[d] \in BOOLEAN
    /\ results[d] \in Seq(Result) /\ owed[d] \in Nat
    /\ Reads(d) /\ Posts(d) /\ Past(d) /\ History(d) /\ Answers(d)

LEMMA RunKnown == ASSUME Inv, NEW d \in Runs PROVE Known(d)
  BY DEF Inv, Typed, OfRun, Known

LEMMA StartKeeps == ASSUME Inv, NEW d \in Runs, Start(d) PROVE Inv'
<1>1. Known(d)
  BY RunKnown
<1>2. PICK step \in {"fetching", "done"} : pc' = [pc EXCEPT ![d] = step]
  BY DEF Start
<1>3. pc[d] = "idle" /\ UNCHANGED <<log, left, offset, fetched, waiting, results, owed>>
  BY DEF Start
<1>4. Typed'
  BY <1>2, <1>3 DEF Inv, Typed
<1>5. OfRun(d)'
  <2>1. Fresh(d) /\ ~waiting[d]
    BY <1>1, <1>3 DEF Fresh, Known, Posts
  <2>2. Reads(d)' /\ History(d)' /\ Answers(d)'
    BY <1>1, <1>3 DEF Known, Reads, History, Answers
  <2>3. Posts(d)' /\ Past(d)'
    BY <1>1, <1>3, <2>1 DEF Known, Posts, Past, Fresh
  <2> QED
    BY <2>2, <2>3 DEF OfRun
<1>6. \A c \in Runs \ {d} : Untouched(c)
  BY <1>2, <1>3 DEF Untouched, Inv, Typed
<1> QED
  BY <1>3, <1>4, <1>5, <1>6, OneRun

\* The reader moves on by one record, and nothing of it has been replayed yet.
LEMMA ReadKeeps == ASSUME Inv, NEW d \in Runs, Read(d) PROVE Inv'
<1> DEFINE n == offset[d] + 1
<1>1. Known(d)
  BY RunKnown
<1>2. /\ pc[d] = "fetching" /\ offset[d] < Len(log) /\ Len(fetched[d]) < Limit
      /\ UNCHANGED <<log, pc, left, waiting, results, owed>>
      /\ offset' = [offset EXCEPT ![d] = @ + 1]
      /\ fetched' = IF log[offset'[d]].kind = "match"
                    THEN [fetched EXCEPT ![d] = Append(@, offset'[d])]
                    ELSE fetched
  BY DEF Read
<1>3. offset \in [Runs -> Nat] /\ fetched \in [Runs -> Seq(Nat)]
  BY DEF Inv, Typed
<1>4. offset'[d] = n /\ n \in 1..Len(log)
  BY <1>1, <1>2, <1>3 DEF Known
<1>5. fetched'[d] = IF log[n].kind = "match" THEN Append(fetched[d], n) ELSE fetched[d]
  BY <1>2, <1>3, <1>4
<1>6. Append(fetched[d], n) \in Seq(Nat)
  BY <1>1, <1>4 DEF Known
<1>7. Typed'
  <2>1. offset' \in [Runs -> Nat]
    BY <1>2, <1>3
  <2>2. fetched' \in [Runs -> Seq(Nat)]
    BY <1>2, <1>3, <1>4, <1>6
  <2> QED
    BY <1>2, <2>1, <2>2 DEF Inv, Typed
<1>8. Fresh(d) /\ results[d] = <<>>
  BY <1>1, <1>2 DEF Fresh, Known, Posts
<1>9. \A i \in 1..Len(fetched[d]) : fetched[d][i] \in 1..offset[d]
  BY <1>1 DEF Known, Reads
<1>10. OfRun(d)'
  <2>1. CASE log[n].kind = "match"
    <3>1. /\ fetched'[d] = Append(fetched[d], n)
          /\ Len(fetched'[d]) = Len(fetched[d]) + 1
          /\ fetched'[d][Len(fetched[d]) + 1] = n
          /\ \A i \in 1..Len(fetched[d]) : fetched'[d][i] = fetched[d][i]
      BY <1>1, <1>5, <2>1 DEF Known
    <3>2. Len(fetched[d]) \in Nat /\ offset[d] \in Nat
      BY <1>1 DEF Known
    <3>3. Reads(d)'
      BY <1>2, <1>4, <1>9, <3>1, <3>2, ReplayAssumption DEF Reads
    <3>4. Posts(d)'
      BY <1>1, <1>2, <1>8, <3>1, <3>2 DEF Known, Posts, Fresh
    <3>5. Past(d)'
      BY <1>1, <1>2, <1>4, <1>8, <3>1, <3>2 DEF Known, Past, Fresh
    <3>6. History(d)'
      <4>1. \A m \in 1..n :
              log[m].kind = "match" => \E i \in 1..Len(fetched'[d]) : fetched'[d][i] = m
        <5> SUFFICES ASSUME NEW m \in 1..n, log[m].kind = "match"
                     PROVE  \E i \in 1..Len(fetched'[d]) : fetched'[d][i] = m
          OBVIOUS
        <5>1. CASE m = n
          BY <5>1, <3>1, <3>2
        <5>2. CASE m \in 1..offset[d]
          BY <5>2, <1>1, <3>1, <3>2 DEF Known, History
        <5> QED
          BY <5>1, <5>2, <3>2
      <4>2. \A i \in 1..Len(fetched'[d]) : log[fetched'[d][i]].kind = "match"
        BY <1>1, <2>1, <3>1, <3>2 DEF Known, History
      <4>3. \A i, j \in 1..Len(fetched'[d]) : i < j => fetched'[d][i] < fetched'[d][j]
        <5> DEFINE len == Len(fetched[d])
        <5>1. \A i, j \in 1..len : i < j => fetched'[d][i] < fetched'[d][j]
          BY <1>1, <3>1 DEF Known, History
        <5>2. \A i \in 1..len : fetched'[d][i] < fetched'[d][len + 1]
          BY <1>9, <3>1, <3>2
        <5>3. \A i, j \in 1..len + 1 :
                i < j => i \in 1..len /\ (j \in 1..len \/ j = len + 1)
          BY <3>2
        <5> HIDE DEF len
        <5> QED
          BY <3>1, <5>1, <5>2, <5>3 DEF len
      <4> QED
        BY <1>2, <1>4, <4>1, <4>2, <4>3 DEF History
    <3>7. Answers(d)'
      BY <1>2, <1>8 DEF Answers
    <3> QED
      BY <3>3, <3>4, <3>5, <3>6, <3>7 DEF OfRun
  <2>2. CASE log[n].kind # "match"
    <3>1. fetched'[d] = fetched[d] /\ offset[d] \in Nat
      BY <1>1, <1>5, <2>2 DEF Known
    <3>2. Reads(d)'
      <4>1. /\ n <= Len(log') /\ Len(fetched[d]) <= Limit
            /\ \A i \in 1..Len(fetched[d]) : fetched[d][i] \in 1..n
        BY <1>1, <1>2, <1>4, <1>9, <3>1 DEF Known, Reads
      <4> QED
        BY <1>4, <3>1, <4>1 DEF Reads
    <3>3. Posts(d)' /\ Past(d)'
      BY <1>1, <1>2, <3>1 DEF Known, Posts, Past, Fresh
    <3>4. History(d)'
      <4>1. \A m \in 1..n : m = n \/ m \in 1..offset[d]
        BY <3>1
      <4> QED
        BY <1>1, <1>2, <1>4, <2>2, <3>1, <4>1 DEF Known, History
    <3>5. Answers(d)'
      BY <1>1, <1>2, <3>1 DEF Known, Answers
    <3> QED
      BY <3>2, <3>3, <3>4, <3>5 DEF OfRun
  <2> QED
    BY <2>1, <2>2
<1>11. \A c \in Runs \ {d} : Untouched(c)
  BY <1>2, <1>3 DEF Untouched
<1> QED
  BY <1>2, <1>7, <1>10, <1>11, OneRun

\* The run moves on, and has no post under way.
LEMMA MoveKeeps ==
    ASSUME Inv, NEW d \in Runs, FetchEnds(d) \/ ReplayEnds(d) PROVE Inv'
<1>1. Known(d)
  BY RunKnown
<1>2. PICK step \in {"replaying", "done"} : pc' = [pc EXCEPT ![d] = step]
  BY DEF FetchEnds, ReplayEnds
<1>3. UNCHANGED <<log, left, offset, fetched, waiting, results, owed>>
  BY DEF FetchEnds, ReplayEnds
<1>4. ~waiting[d]
  BY <1>1 DEF FetchEnds, ReplayEnds, Known, Posts
<1>5. Typed'
  BY <1>2, <1>3 DEF Inv, Typed
<1>6. OfRun(d)'
  <2>1. ~Fresh(d)'
    BY <1>1, <1>2 DEF Fresh, Known
  <2>2. Reads(d)' /\ History(d)' /\ Answers(d)'
    BY <1>1, <1>3 DEF Known, Reads, History, Answers
  <2>3. Posts(d)' /\ Past(d)'
    BY <1>1, <1>3, <1>4, <2>1 DEF Known, Posts, Past
  <2> QED
    BY <2>2, <2>3 DEF OfRun
<1>7. \A c \in Runs \ {d} : Untouched(c)
  BY <1>2, <1>3 DEF Untouched, Inv, Typed
<1> QED
  BY <1>3, <1>5, <1>6, <1>7, OneRun

LEMMA LeaveKeeps == ASSUME Inv, NEW d \in Runs, Leave(d) PROVE Inv'
<1>1. left' = [left EXCEPT ![d] = TRUE] /\ UNCHANGED <<log, pc, offset, fetched, waiting, results, owed>>
  BY DEF Leave
<1>2. Typed'
  BY <1>1 DEF Inv, Typed
<1>3. \A c \in Runs : Untouched(c)
  BY <1>1 DEF Untouched
<1> QED
  BY <1>1, <1>2, <1>3, OthersKeep DEF Inv

\* One more goroutine may write a record from now on.
LEMMA PostKeeps == ASSUME Inv, NEW d \in Runs, Post(d) PROVE Inv'
<1>1. Known(d)
  BY RunKnown
<1>2. /\ pc[d] = "replaying" /\ ~waiting[d] /\ Len(results[d]) < Len(fetched[d])
      /\ waiting' = [waiting EXCEPT ![d] = TRUE]
      /\ owed' = [owed EXCEPT ![d] = @ + 1]
      /\ UNCHANGED <<log, pc, left, offset, fetched, results>>
  BY DEF Post
<1>3. waiting \in [Runs -> BOOLEAN] /\ owed \in [Runs -> Nat]
  BY DEF Inv, Typed
<1>4. waiting'[d] = TRUE /\ owed'[d] = owed[d] + 1
  BY <1>2, <1>3
<1>5. Typed'
  <2>1. waiting' \in [Runs -> BOOLEAN] /\ owed' \in [Runs -> Nat]
    BY <1>2, <1>3
  <2> QED
    BY <1>2, <2>1 DEF Inv, Typed
<1>6. OfRun(d)'
  <2>1. Reads(d)' /\ Past(d)' /\ History(d)' /\ Answers(d)'
    BY <1>1, <1>2 DEF Known, Reads, Past, History, Answers, Fresh
  <2>2. Posts(d)'
    BY <1>1, <1>2, <1>4 DEF Known, Posts, Fresh
  <2> QED
    BY <2>1, <2>2 DEF OfRun
<1>7. \A c \in Runs \ {d} : Untouched(c)
  BY <1>2, <1>3 DEF Untouched
<1> QED
  BY <1>2, <1>5, <1>6, <1>7, OneRun

\* The result is that of the record the post was for, whichever way it went.
LEMMA AnswerKeeps == ASSUME Inv, NEW d \in Runs, PostAnswered(d) \/ PostFails(d) PROVE Inv'
<1>1. Known(d)
  BY RunKnown
<1>2. /\ pc[d] = "replaying" /\ Len(results[d]) < Len(fetched[d])
      /\ waiting' = [waiting EXCEPT ![d] = FALSE]
      /\ UNCHANGED <<log, pc, left, offset, fetched, owed>>
  BY <1>1 DEF PostAnswered, PostFails, Known, Posts
<1>3. PICK answered \in BOOLEAN : AddResult(d, answered)
  BY DEF PostAnswered, PostFails
<1> DEFINE new == [of |-> Current(d), answered |-> answered]
<1>4. /\ waiting \in [Runs -> BOOLEAN] /\ results \in [Runs -> Seq(Result)]
      /\ Len(results[d]) \in Nat /\ Len(fetched[d]) \in Nat /\ Len(log) \in Nat
      /\ offset[d] \in Nat /\ Len(log) <= MaxRecords
  BY <1>1 DEF Inv, Typed, Known
<1>5. Current(d) = fetched[d][Len(results[d]) + 1] /\ Current(d) \in 1..MaxRecords
  <2>1. Len(results[d]) + 1 \in 1..Len(fetched[d])
    BY <1>2, <1>4
  <2>2. Current(d) \in 1..offset[d] /\ offset[d] <= Len(log)
    BY <1>1, <2>1 DEF Known, Reads, Current
  <2> QED
    BY <1>4, <2>2, ReplayAssumption DEF Current
<1>6. new \in Result
  BY <1>5 DEF Result
<1> HIDE DEF new
<1>7. results' = [results EXCEPT ![d] = Append(@, new)]
  BY <1>3 DEF AddResult, new
<1>8. /\ waiting'[d] = FALSE /\ results'[d] = Append(results[d], new)
      /\ Append(results[d], new) \in Seq(Result)
  BY <1>2, <1>4, <1>6, <1>7
<1>9. /\ Len(results'[d]) = Len(results[d]) + 1
      /\ results'[d][Len(results[d]) + 1] = new
      /\ \A i \in 1..Len(results[d]) : results'[d][i] = results[d][i]
  BY <1>4, <1>8
<1>10. Typed'
  <2>1. waiting' \in [Runs -> BOOLEAN] /\ results' \in [Runs -> Seq(Result)]
    BY <1>2, <1>4, <1>7, <1>8
  <2> QED
    BY <1>2, <2>1 DEF Inv, Typed
<1>11. OfRun(d)'
  <2>1. Reads(d)' /\ Past(d)' /\ History(d)'
    BY <1>1, <1>2 DEF Known, Reads, Past, History, Fresh
  <2>2. Posts(d)'
    <3>1. owed[d] \in Nat /\ owed[d] <= Len(results[d]) + 1
      BY <1>1 DEF Known, Posts
    <3> QED
      BY <1>2, <1>4, <1>8, <1>9, <3>1 DEF Posts, Fresh
  <2>3. Answers(d)'
    <3>1. new.of = fetched[d][Len(results[d]) + 1]
      BY <1>5 DEF new
    <3>2. \A i \in 1..Len(results[d]) : results[d][i].of = fetched[d][i]
      BY <1>1 DEF Known, Answers
    <3>3. \A i \in 1..Len(results[d]) + 1 : results'[d][i].of = fetched[d][i]
      <4>1. \A i \in 1..Len(results[d]) + 1 : i \in 1..Len(results[d]) \/ i = Len(results[d]) + 1
        BY <1>4
      <4> QED
        BY <1>9, <3>1, <3>2, <4>1
    <3> QED
      BY <1>2, <1>9, <3>3 DEF Answers
  <2> QED
    BY <2>1, <2>2, <2>3 DEF OfRun
<1>12. \A c \in Runs \ {d} : Untouched(c)
  BY <1>2, <1>4, <1>7 DEF Untouched
<1> QED
  BY <1>2, <1>10, <1>11, <1>12, OneRun

LEMMA StutterKeeps == ASSUME Inv, UNCHANGED vars PROVE Inv'
<1>1. log' = log /\ \A c \in Runs : Untouched(c)
  BY DEF vars, runs, Untouched
<1>2. Typed'
  BY DEF Inv, Typed, vars, runs
<1> QED
  BY <1>1, <1>2, OthersKeep DEF Inv

LEMMA InvNext == Inv /\ [Next]_vars => Inv'
<1> SUFFICES ASSUME Inv, [Next]_vars PROVE Inv'
  OBVIOUS
<1>1. CASE ServeClient
  BY <1>1, ServeClientKeeps
<1>2. ASSUME NEW c \in Runs, Collect(c) \/ Lose(c)
      PROVE  Inv'
  BY <1>2, CollectKeeps, LoseKeeps
<1>3. ASSUME NEW c \in Runs, Start(c) \/ Read(c) \/ FetchEnds(c) \/ ReplayStep(c) \/ Leave(c)
      PROVE  Inv'
  BY <1>3, StartKeeps, ReadKeeps, MoveKeeps, LeaveKeeps, PostKeeps, AnswerKeeps DEF ReplayStep
<1>4. CASE Stop \/ UNCHANGED vars
  BY <1>4, StutterKeeps DEF Stop
<1> QED
  BY <1>1, <1>2, <1>3, <1>4 DEF Next

LEMMA Inductive == Spec => []Inv
  BY InitInv, InvNext, PTL DEF Spec

------------------------------------------------------------------------------
(* Theorems *)

\* Values keep their types: no run fetches or answers more than its limit, and no
\* more goroutines are to record its requests than it has posted
\* (filter.Limit in FetchHistory, the loop of Replay).
THEOREM TypeCorrect == Spec => []TypeOK
<1>1. Inv => TypeOK
  BY Bounds
<1> QED
  BY <1>1, Inductive, PTL

\* No run replays a record that it has caused itself, however late or often the
\* gateway writes it: FetchHistory has returned before Replay posts.
THEOREM NoFeedback == Spec => []ReplaysThePast
<1>1. Inv => ReplaysThePast
  <2> SUFFICES ASSUME Inv, NEW c \in Runs, NEW i \in DOMAIN fetched[c]
               PROVE  log[fetched[c][i]].by # c
    BY DEF ReplaysThePast
  <2>1. i \in 1..Len(fetched[c])
    BY DEF Inv, Typed
  <2> QED
    BY <2>1 DEF Inv, OfRun, Past
<1> QED
  BY <1>1, Inductive, PTL

\* A history is what its reader has passed and the filter lets through, all of it
\* and in order (FetchHistory skips what it cannot parse and what does not match).
THEOREM HistoryIsWhole == Spec => []HistoryHasNoGaps
<1>1. Inv => HistoryHasNoGaps
  <2> SUFFICES ASSUME Inv, NEW c \in Runs
               PROVE  /\ ToSet(fetched[c]) = {i \in 1..offset[c] : log[i].kind = "match"}
                      /\ \A i, j \in DOMAIN fetched[c] : i < j => fetched[c][i] < fetched[c][j]
    BY DEF HistoryHasNoGaps
  <2>1. Reads(c) /\ History(c) /\ DOMAIN fetched[c] = 1..Len(fetched[c])
    BY DEF Inv, OfRun, Typed
  <2>2. ToSet(fetched[c]) = {fetched[c][i] : i \in 1..Len(fetched[c])}
    BY <2>1 DEF ToSet
  <2>3. ASSUME NEW n \in ToSet(fetched[c])
        PROVE  n \in 1..offset[c] /\ log[n].kind = "match"
    BY <2>1, <2>2, <2>3 DEF Reads, History
  <2>4. ASSUME NEW n \in 1..offset[c], log[n].kind = "match"
        PROVE  n \in ToSet(fetched[c])
    BY <2>1, <2>2, <2>4 DEF History
  <2> QED
    BY <2>1, <2>3, <2>4 DEF History
<1> QED
  BY <1>1, Inductive, PTL

\* The results of a run are those of the first records of its history, one for
\* one, at every moment and whichever posts have failed: what RunEnds says of a
\* run that is done, short of its ending (the loop of Replay).
ResultsMatch ==
    \A c \in Runs :
        /\ Len(results[c]) <= Len(fetched[c])
        /\ \A i \in DOMAIN results[c] : results[c][i].of = fetched[c][i]

THEOREM ResultsInOrder == Spec => []ResultsMatch
<1>1. Inv => ResultsMatch
  <2> SUFFICES ASSUME Inv, NEW c \in Runs
               PROVE  /\ Len(results[c]) <= Len(fetched[c])
                      /\ \A i \in DOMAIN results[c] : results[c][i].of = fetched[c][i]
    BY DEF ResultsMatch
  <2>1. Posts(c) /\ Answers(c) /\ DOMAIN results[c] = 1..Len(results[c])
    BY DEF Inv, OfRun, Typed
  <2> QED
    BY <2>1 DEF Posts, Answers
<1> QED
  BY <1>1, Inductive, PTL
==============================================================================

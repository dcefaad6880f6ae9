-------------------------------- MODULE Replay --------------------------------
(***************************************************************************)
(* internal/replay and internal/handler/replay.go: operators query the     *)
(* history of requests and run it again, while the gateway goes on serving *)
(* clients and records what it serves, replayed requests among the rest.   *)
(*                                                                         *)
(* A record is written by a goroutine with the context of a request that   *)
(* is ending, so it may be written late, or lost, and the Kafka writer may *)
(* repeat it.  The writer picks any partition; the reader names neither a  *)
(* group nor a partition and reads the first one, so that a record in      *)
(* another partition is as good as lost: only the first is modelled.       *)
(***************************************************************************)
EXTENDS Integers, SequencesExt

CONSTANTS
    Runs,           \* calls of ListHistory and StartReplay
    Client,         \* who a record is from that no run has caused
    Limit,          \* filter.Limit, after its correction
    MaxRecords      \* BOUND: records in the partition

ASSUME ReplayAssumption ==
    /\ Client \notin Runs
    /\ Limit \in Nat \ {0}
    /\ MaxRecords \in Nat

VARIABLES
    log,        \* records of the partition
    pc,         \* where the call is
    left,       \* its operator has disconnected
    offset,     \* records its reader has read
    fetched,    \* offsets of the records that are its result
    waiting,    \* the request it has posted is under way
    results,    \* ReplayResults: of which record, and whether it was answered
    owed        \* goroutines that may yet record a request it has posted

runs == <<pc, left, offset, fetched, waiting, results>>
vars == <<log, runs, owed>>

\* A record passes the filters of the runs or not, or is no JSON at all; and the
\* run that caused it.
Record == [kind : {"match", "other", "garbled"}, by : Runs \union {Client}]
Result == [of : 1..MaxRecords, answered : BOOLEAN]

TypeOK ==
    /\ log \in BoundedSeq(Record, MaxRecords)
    /\ pc \in [Runs -> {"idle", "fetching", "replaying", "done"}]
    /\ left \in [Runs -> BOOLEAN]
    /\ offset \in [Runs -> 0..Len(log)]
    /\ fetched \in [Runs -> BoundedSeq(1..Len(log), Limit)]
    /\ waiting \in [Runs -> BOOLEAN]
    /\ results \in [Runs -> BoundedSeq(Result, Limit)]
    /\ owed \in [Runs -> 0..Limit]

Init ==
    /\ log = <<>>
    /\ pc = [c \in Runs |-> "idle"]
    /\ left = [c \in Runs |-> FALSE]
    /\ offset = [c \in Runs |-> 0]
    /\ fetched = [c \in Runs |-> <<>>]
    /\ waiting = [c \in Runs |-> FALSE]
    /\ results = [c \in Runs |-> <<>>]
    /\ owed = [c \in Runs |-> 0]

------------------------------------------------------------------------------
(* ReplayCollector.Collect, and the writer behind it *)

\* A request of a client has been served and recorded; or something else has
\* written to the topic.
ServeClient ==
    /\ Len(log) < MaxRecords
    /\ \E kind \in {"match", "other", "garbled"} :
        log' = Append(log, [kind |-> kind, by |-> Client])
    /\ UNCHANGED <<runs, owed>>

\* The gateway has served a replayed request and records it like any other; the
\* writer may repeat the record if it gets no acknowledgement.
Collect(c) ==
    /\ owed[c] > 0
    /\ Len(log) < MaxRecords
    /\ \E kind \in {"match", "other"} : log' = Append(log, [kind |-> kind, by |-> c])
    /\ owed' \in {owed, [owed EXCEPT ![c] = @ - 1]}
    /\ UNCHANGED runs

\* The context is done before the record is written, the request was refused or
\* failed, or the record went to another partition.
Lose(c) ==
    /\ owed[c] > 0
    /\ owed' = [owed EXCEPT ![c] = @ - 1]
    /\ UNCHANGED <<log, runs>>

------------------------------------------------------------------------------
(* FetchHistory *)

\* ListHistory or StartReplay accepts the call and opens a reader of its own, or
\* answers 400.
Start(c) ==
    /\ pc[c] = "idle"
    /\ \E step \in {"fetching", "done"} : pc' = [pc EXCEPT ![c] = step]
    /\ UNCHANGED <<log, left, offset, fetched, waiting, results, owed>>

\* Mutant of Read: the limit is checked after the record is added.
ReadOneMore(c) ==
    /\ pc[c] = "fetching"
    /\ offset[c] < Len(log) /\ Len(fetched[c]) <= Limit
    /\ offset' = [offset EXCEPT ![c] = @ + 1]
    /\ fetched' = IF log[offset'[c]].kind = "match"
                  THEN [fetched EXCEPT ![c] = Append(@, offset'[c])]
                  ELSE fetched
    /\ UNCHANGED <<log, pc, left, waiting, results, owed>>

\* Mutant of Read: a record that cannot be parsed is kept, with empty fields.
ReadGarbled(c) ==
    /\ pc[c] = "fetching"
    /\ offset[c] < Len(log) /\ Len(fetched[c]) < Limit
    /\ offset' = [offset EXCEPT ![c] = @ + 1]
    /\ fetched' = IF log[offset'[c]].kind # "other"
                  THEN [fetched EXCEPT ![c] = Append(@, offset'[c])]
                  ELSE fetched
    /\ UNCHANGED <<log, pc, left, waiting, results, owed>>

\* The next record is there before the deadline; it is kept if it passes the filter.
\* (A record that the reader has already fetched is handed out even to a caller that
\* has left.)
Read(c) ==
    /\ pc[c] = "fetching"
    /\ offset[c] < Len(log) /\ Len(fetched[c]) < Limit
    /\ offset' = [offset EXCEPT ![c] = @ + 1]
    /\ fetched' = IF log[offset'[c]].kind = "match"
                  THEN [fetched EXCEPT ![c] = Append(@, offset'[c])]
                  ELSE fetched
    /\ UNCHANGED <<log, pc, left, waiting, results, owed>>

\* Mutant of FetchEnds: a read waits for a record as long as its caller does.
FetchEndsNotInTime(c) ==
    /\ pc[c] = "fetching"
    /\ left[c] \/ Len(fetched[c]) = Limit
    /\ \E step \in {"replaying", "done"} : pc' = [pc EXCEPT ![c] = step]
    /\ UNCHANGED <<log, left, offset, fetched, waiting, results, owed>>

\* The limit is reached, or the reader fails, at the latest when ten seconds are
\* over: what there is is the history.  ListHistory returns it, Replay goes on.
FetchEnds(c) ==
    /\ pc[c] = "fetching"
    /\ \E step \in {"replaying", "done"} : pc' = [pc EXCEPT ![c] = step]
    /\ UNCHANGED <<log, left, offset, fetched, waiting, results, owed>>

------------------------------------------------------------------------------
(* Replay *)

\* The record to replay next.
Current(c) == fetched[c][Len(results[c]) + 1]

\* Mutant of Post: records are replayed as they are read.
PostAsRead(c) ==
    /\ pc[c] \in {"fetching", "replaying"} /\ ~waiting[c]
    /\ Len(results[c]) < Len(fetched[c])
    /\ ~left[c]
    /\ waiting' = [waiting EXCEPT ![c] = TRUE]
    /\ owed' = [owed EXCEPT ![c] = @ + 1]
    /\ UNCHANGED <<log, pc, left, offset, fetched, results>>

\* replayOne posts the request to a gateway, which may record it from now on.
Post(c) ==
    /\ pc[c] = "replaying" /\ ~waiting[c]
    /\ Len(results[c]) < Len(fetched[c])
    /\ ~left[c]
    /\ waiting' = [waiting EXCEPT ![c] = TRUE]
    /\ owed' = [owed EXCEPT ![c] = @ + 1]
    /\ UNCHANGED <<log, pc, left, offset, fetched, results>>

AddResult(c, answered) ==
    results' = [results EXCEPT ![c] = Append(@, [of |-> Current(c), answered |-> answered])]

\* A response of any status, compared with the record.
PostAnswered(c) ==
    /\ waiting[c]
    /\ ~left[c]
    /\ waiting' = [waiting EXCEPT ![c] = FALSE]
    /\ AddResult(c, TRUE)
    /\ UNCHANGED <<log, pc, left, offset, fetched, owed>>

\* The gateway cannot be reached or takes more than two minutes, or the operator has
\* left: the result says so, and the next record is tried.
PostFails(c) ==
    /\ pc[c] = "replaying"
    /\ Len(results[c]) < Len(fetched[c])
    /\ waiting' = [waiting EXCEPT ![c] = FALSE]
    /\ AddResult(c, FALSE)
    /\ UNCHANGED <<log, pc, left, offset, fetched, owed>>

ReplayEnds(c) ==
    /\ pc[c] = "replaying"
    /\ Len(results[c]) = Len(fetched[c])
    /\ pc' = [pc EXCEPT ![c] = "done"]
    /\ UNCHANGED <<log, left, offset, fetched, waiting, results, owed>>

------------------------------------------------------------------------------

\* The operator disconnects.
Leave(c) ==
    /\ pc[c] \in {"fetching", "replaying"}
    /\ ~left[c]
    /\ left' = [left EXCEPT ![c] = TRUE]
    /\ UNCHANGED <<log, pc, offset, fetched, waiting, results, owed>>

\* The partition has reached its bound, and all calls are over.
Stop ==
    /\ Len(log) = MaxRecords
    /\ \A c \in Runs : pc[c] = "done" /\ owed[c] = 0
    /\ UNCHANGED vars

ReplayStep(c) == Post(c) \/ PostAnswered(c) \/ PostFails(c) \/ ReplayEnds(c)

Next ==
    \/ ServeClient
    \/ \E c \in Runs : Collect(c) \/ Lose(c)
    \/ \E c \in Runs : Start(c) \/ Read(c) \/ FetchEnds(c) \/ ReplayStep(c) \/ Leave(c)
    \/ Stop

Spec == Init /\ [][Next]_vars

\* The deadline of a fetch passes, and a post has an answer or times out.
Fairness == \A c \in Runs : WF_vars(FetchEnds(c)) /\ WF_vars(ReplayStep(c))

FairSpec == Spec /\ Fairness

------------------------------------------------------------------------------
(* Properties *)

\* A run replays the past: no record that it has caused itself, early or late or
\* twice, is among those it replays, so that it cannot feed on its own traffic.
\* (Other runs, and later ones, do replay it: nothing marks such a record.)
ReplaysThePast ==
    \A c \in Runs : \A i \in DOMAIN fetched[c] : log[fetched[c][i]].by # c

\* What is fetched has no gaps: all that the reader has passed and that meets the
\* filter is there, in the order of the partition, whatever else is written there.
HistoryHasNoGaps ==
    \A c \in Runs :
        /\ ToSet(fetched[c]) = {i \in 1..offset[c] : log[i].kind = "match"}
        /\ \A i, j \in DOMAIN fetched[c] : i < j => fetched[c][i] < fetched[c][j]

\* A fetch ends, although the end of the topic is never seen, and a run ends with
\* one result for each record in its order, whichever of its posts have failed.
RunEnds ==
    \A c \in Runs :
        /\ pc[c] = "fetching" ~> pc[c] \in {"replaying", "done"}
        /\ pc[c] = "replaying" ~>
            /\ pc[c] = "done"
            /\ Len(results[c]) = Len(fetched[c])
            /\ \A i \in DOMAIN fetched[c] : results[c][i].of = fetched[c][i]
==============================================================================

----------------------------- MODULE StreamProxy -----------------------------
(***************************************************************************)
(* internal/proxy: ProxyStream and its connection manager, called by       *)
(* handleStream once for every upstream that failover tries.               *)
(*                                                                         *)
(* Each call runs three goroutines: the reader (A in the source) scans the *)
(* upstream body, counts tokens in a result it shares with the caller and  *)
(* writes to an io.Pipe; the writer (B) copies the pipe to the client; the *)
(* caller waits for the writer or for the request's context.  A fourth,    *)
(* the cleanup loop, closes bodies that have been idle for five minutes.   *)
(* The reader is not waited for: it may outlive its call, and run beside   *)
(* the next one.                                                           *)
(*                                                                         *)
(* A chunk is one line of the event stream, reduced to what the proxy      *)
(* tells apart.  Text is estimated at one token.                           *)
(***************************************************************************)
EXTENDS Integers, SequencesExt

CONSTANTS
    MaxAttempts,    \* BOUND: upstreams that answer one request
    MaxChunks,      \* BOUND: MaxChunks[a], the chunks of the upstream that answers call a
    Session,        \* Session[a]: the request's id and 8 characters of the key
    Usage,          \* what a chunk with a usage field says: [prompt, completion]
    NoStream        \* no stream is registered under a session

Attempts == 1 .. MaxAttempts
Sessions == {Session[a] : a \in Attempts}
Kinds == {"text", "usage", "done", "other"}

ASSUME StreamAssumption ==
    /\ MaxAttempts \in Nat \ {0}
    /\ MaxChunks \in [Attempts -> Nat]
    /\ DOMAIN Session = Attempts
    /\ Usage \in [prompt : Nat \ {0}, completion : Nat]
    /\ NoStream \notin Attempts

VARIABLES
    broken,         \* the client connection is: writes to it may fail
    cancelled,      \* the request's context is done
    pc,             \* where the handler goroutine is
    attempt,        \* ProxyStream calls so far; the last one may be running
    streamErr,      \* what the last call returns
    streamResult,   \* the token counts the handler will settle
    reader,         \* where goroutine A of each call is
    writeErr,       \* what it closes the pipe with
    result,         \* the counts it shares with its caller
    writer,         \* where goroutine B of each call is
    copyDone,       \* the channel it reports to
    pipe,           \* io.Pipe: how its two ends were closed
    bodyOpen,       \* the upstream response body of each call
    bodyEnded,      \* the end of that body has been read
    connections,    \* ConnectionManager.connections
    idle,           \* registered sessions not active for five minutes
    read,           \* the chunks each reader has scanned (the last may be in its hands)
    delivered       \* HISTORY: the chunks the last call has written to the client

handler == <<pc, attempt, streamErr, streamResult>>
readers == <<reader, writeErr, result, read, bodyEnded>>
writers == <<writer, copyDone, delivered>>
manager == <<connections, bodyOpen, idle>>
vars == <<broken, cancelled, handler, readers, writers, pipe, manager>>

Counts == [prompt : {0, Usage.prompt}, completion : Nat]
NoTokens == [prompt |-> 0, completion |-> 0]

HandlerSteps == {"failover", "select", "cancelWriter", "cancelReader", "cancelBody", "drain",
                 "closeBody", "closeReader", "prompt", "completion", "settle", "over"}
ReaderSteps == {"none", "scan", "check", "count", "countRest", "send", "touch", "close", "ended"}
WriterSteps == {"none", "receive", "write", "ended"}

TypeOK ==
    /\ broken \in BOOLEAN /\ cancelled \in BOOLEAN
    /\ pc \in HandlerSteps
    /\ attempt \in 0..MaxAttempts
    /\ streamErr \in {"nil", "error"}
    /\ streamResult \in Counts
    /\ reader \in [Attempts -> ReaderSteps]
    /\ writeErr \in [Attempts -> {"nil", "error"}]
    /\ result \in [Attempts -> Counts]
    /\ writer \in [Attempts -> WriterSteps]
    /\ copyDone \in [Attempts -> {"empty", "nil", "error"}]
    /\ pipe \in [Attempts -> [writeEnd : {"open", "nil", "error"}, readEnd : {"open", "closed"}]]
    /\ bodyOpen \in [Attempts -> BOOLEAN]
    /\ bodyEnded \in [Attempts -> BOOLEAN]
    /\ connections \in [Sessions -> Attempts \union {NoStream}]
    /\ idle \in [Sessions -> BOOLEAN]
    /\ read \in [Attempts -> Seq(Kinds)]
    /\ delivered \in Seq(Kinds)

Init ==
    /\ broken = FALSE /\ cancelled = FALSE
    /\ pc = "failover"
    /\ attempt = 0
    /\ streamErr = "error"
    /\ streamResult = NoTokens
    /\ reader = [a \in Attempts |-> "none"]
    /\ writeErr = [a \in Attempts |-> "nil"]
    /\ result = [a \in Attempts |-> NoTokens]
    /\ writer = [a \in Attempts |-> "none"]
    /\ copyDone = [a \in Attempts |-> "empty"]
    /\ pipe = [a \in Attempts |-> [writeEnd |-> "open", readEnd |-> "open"]]
    /\ bodyOpen = [a \in Attempts |-> FALSE]
    /\ bodyEnded = [a \in Attempts |-> FALSE]
    /\ connections = [s \in Sessions |-> NoStream]
    /\ idle = [s \in Sessions |-> FALSE]
    /\ read = [a \in Attempts |-> <<>>]
    /\ delivered = <<>>

------------------------------------------------------------------------------
(* ConnectionManager.  Each operation holds its mutex.  A connection is     *)
(* marked Closed only when it is also deleted, so the mark is not kept.     *)

Register(a) ==
    /\ connections' = [connections EXCEPT ![Session[a]] = a]
    /\ bodyOpen' = [bodyOpen EXCEPT ![a] = TRUE]
    /\ idle' = [idle EXCEPT ![Session[a]] = FALSE]

Close(s) ==
    /\ bodyOpen' = [a \in Attempts |-> bodyOpen[a] /\ connections[s] # a]
    /\ connections' = [connections EXCEPT ![s] = NoStream]
    /\ idle' = [idle EXCEPT ![s] = FALSE]

\* Five minutes pass without activity on the session.
GoIdle(s) ==
    /\ connections[s] # NoStream
    /\ ~idle[s]
    /\ idle' = [idle EXCEPT ![s] = TRUE]
    /\ UNCHANGED <<broken, cancelled, handler, readers, writers, pipe, connections, bodyOpen>>

\* cleanupStaleConnections, for one of the connections it finds.
Cleanup(s) ==
    /\ connections[s] # NoStream
    /\ idle[s]
    /\ Close(s)
    /\ UNCHANGED <<broken, cancelled, handler, readers, writers, pipe>>

------------------------------------------------------------------------------
(* Goroutine A: upstream body -> token counts -> pipe *)

Chunk(a) == Last(read[a])

\* The end of the body has been received; lines may still be in the scanner.
BodyEnds(a) ==
    /\ reader[a] = "scan"
    /\ bodyOpen[a] /\ ~cancelled /\ ~bodyEnded[a]
    /\ bodyEnded' = [bodyEnded EXCEPT ![a] = TRUE]
    /\ UNCHANGED <<broken, cancelled, handler, reader, writeErr, result, read, writers, pipe,
                   manager>>

\* The scanner has a line, perhaps one it had buffered before the body was closed.
Scan(a) ==
    /\ reader[a] = "scan"
    /\ Len(read[a]) < MaxChunks[a]
    /\ \E kind \in Kinds : read' = [read EXCEPT ![a] = Append(@, kind)]
    /\ reader' = [reader EXCEPT ![a] = "check"]
    /\ UNCHANGED <<broken, cancelled, handler, writeErr, result, bodyEnded, writers, pipe, manager>>

\* The scanner stops: at the end of the body, or because reading failed (the
\* upstream, the client timeout, a cancelled context, a closed body).
ScanStops(a) ==
    /\ reader[a] = "scan"
    /\ reader' = [reader EXCEPT ![a] = "close"]
    /\ writeErr' = [writeErr EXCEPT ![a] = IF bodyEnded[a] THEN "nil" ELSE "error"]
    /\ UNCHANGED <<broken, cancelled, handler, result, read, bodyEnded, writers, pipe, manager>>

CheckContext(a) ==
    /\ reader[a] = "check"
    /\ IF cancelled
       THEN /\ reader' = [reader EXCEPT ![a] = "close"]
            /\ writeErr' = [writeErr EXCEPT ![a] = "error"]
       ELSE /\ reader' = [reader EXCEPT ![a] =
                            IF Chunk(a) \in {"text", "usage"} THEN "count" ELSE "send"]
            /\ UNCHANGED writeErr
    /\ UNCHANGED <<broken, cancelled, handler, result, read, bodyEnded, writers, pipe, manager>>

\* Mutant of CountText: the estimate replaces the count.
CountTextOverwrites(a) ==
    /\ reader[a] = "count" /\ Chunk(a) = "text"
    /\ result' = [result EXCEPT ![a].completion = 1]
    /\ reader' = [reader EXCEPT ![a] = "send"]
    /\ UNCHANGED <<broken, cancelled, handler, writeErr, read, bodyEnded, writers, pipe, manager>>

CountText(a) ==
    /\ reader[a] = "count" /\ Chunk(a) = "text"
    /\ result' = [result EXCEPT ![a].completion = @ + 1]
    /\ reader' = [reader EXCEPT ![a] = "send"]
    /\ UNCHANGED <<broken, cancelled, handler, writeErr, read, bodyEnded, writers, pipe, manager>>

\* Mutant of CountUsage: the usage is added to what was counted.
CountUsageAdds(a) ==
    /\ reader[a] \in {"count", "countRest"} /\ Chunk(a) = "usage"
    /\ \/ /\ reader[a] = "count"
          /\ result' = [result EXCEPT ![a].prompt = @ + Usage.prompt]
          /\ reader' = [reader EXCEPT ![a] = "countRest"]
       \/ /\ reader[a] = "countRest"
          /\ result' = [result EXCEPT ![a].completion = @ + Usage.completion]
          /\ reader' = [reader EXCEPT ![a] = "send"]
    /\ UNCHANGED <<broken, cancelled, handler, writeErr, read, bodyEnded, writers, pipe, manager>>

\* The two fields are assigned one after the other, without a lock: a caller
\* that returns meanwhile may read either of them before or after.
CountUsage(a) ==
    /\ reader[a] \in {"count", "countRest"} /\ Chunk(a) = "usage"
    /\ \/ /\ reader[a] = "count"
          /\ result' = [result EXCEPT ![a].prompt = Usage.prompt]
          /\ reader' = [reader EXCEPT ![a] = "countRest"]
       \/ /\ reader[a] = "countRest"
          /\ result' = [result EXCEPT ![a].completion = Usage.completion]
          /\ reader' = [reader EXCEPT ![a] = "send"]
    /\ UNCHANGED <<broken, cancelled, handler, writeErr, read, bodyEnded, writers, pipe, manager>>

Closed(a) == pipe[a].writeEnd # "open" \/ pipe[a].readEnd # "open"

\* The writer takes the chunk from the pipe, and the reader goes on: after
\* [DONE] it ends, after data it reports activity.
Send(a) ==
    /\ reader[a] = "send" /\ writer[a] = "receive"
    /\ reader' = [reader EXCEPT ![a] = CASE Chunk(a) = "done" -> "close"
                                         [] Chunk(a) = "other" -> "scan"
                                         [] OTHER -> "touch"]
    /\ writer' = [writer EXCEPT ![a] = "write"]
    /\ UNCHANGED <<broken, cancelled, handler, writeErr, result, read, bodyEnded, copyDone,
                   delivered, pipe, manager>>

SendFails(a) ==
    /\ reader[a] = "send" /\ Closed(a)
    /\ reader' = [reader EXCEPT ![a] = "close"]
    /\ writeErr' = [writeErr EXCEPT ![a] = "error"]
    /\ UNCHANGED <<broken, cancelled, handler, result, read, bodyEnded, writers, pipe, manager>>

\* UpdateActivity of whatever stream is registered under the session by now.
Touch(a) ==
    /\ reader[a] = "touch"
    /\ reader' = [reader EXCEPT ![a] = "scan"]
    /\ idle' = IF connections[Session[a]] = NoStream THEN idle
                                                     ELSE [idle EXCEPT ![Session[a]] = FALSE]
    /\ UNCHANGED <<broken, cancelled, handler, writeErr, result, read, bodyEnded, writers, pipe,
                   connections, bodyOpen>>

\* pw.CloseWithError: the first close of an end of a pipe is the one that counts.
CloseWriteEnd(a, err) ==
    pipe' = IF pipe[a].writeEnd = "open" THEN [pipe EXCEPT ![a].writeEnd = err] ELSE pipe

\* Mutant of ReaderEnds: the pipe is closed without the error.
ReaderEndsQuietly(a) ==
    /\ reader[a] = "close"
    /\ CloseWriteEnd(a, "nil")
    /\ reader' = [reader EXCEPT ![a] = "ended"]
    /\ UNCHANGED <<broken, cancelled, handler, writeErr, result, read, bodyEnded, writers, manager>>

\* The deferred close of the pipe.
ReaderEnds(a) ==
    /\ reader[a] = "close"
    /\ CloseWriteEnd(a, writeErr[a])
    /\ reader' = [reader EXCEPT ![a] = "ended"]
    /\ UNCHANGED <<broken, cancelled, handler, writeErr, result, read, bodyEnded, writers, manager>>

------------------------------------------------------------------------------
(* Goroutine B: pipe -> client *)

\* pr.Read fails: io.EOF, which is no error, only if the reader closed the pipe
\* so and nobody closed this end.
ReceiveStops(a) ==
    /\ writer[a] = "receive" /\ Closed(a)
    /\ writer' = [writer EXCEPT ![a] = "ended"]
    /\ copyDone' = [copyDone EXCEPT ![a] =
                        IF pipe[a] = [writeEnd |-> "nil", readEnd |-> "open"]
                        THEN "nil" ELSE "error"]
    /\ UNCHANGED <<broken, cancelled, handler, readers, delivered, pipe, manager>>

\* The chunk the writer holds: the one after those it has delivered.
Write(a) ==
    /\ writer[a] = "write"
    /\ delivered' = Append(delivered, read[a][Len(delivered) + 1])
    /\ writer' = [writer EXCEPT ![a] = "receive"]
    /\ UNCHANGED <<broken, cancelled, handler, readers, copyDone, pipe, manager>>

\* Mutant of WriteFails: the writer returns without a word to its caller.
WriteFailsSilently(a) ==
    /\ writer[a] = "write" /\ broken
    /\ writer' = [writer EXCEPT ![a] = "ended"]
    /\ UNCHANGED <<broken, cancelled, handler, readers, copyDone, delivered, pipe, manager>>

WriteFails(a) ==
    /\ writer[a] = "write" /\ broken
    /\ writer' = [writer EXCEPT ![a] = "ended"]
    /\ copyDone' = [copyDone EXCEPT ![a] = "error"]
    /\ UNCHANGED <<broken, cancelled, handler, readers, delivered, pipe, manager>>

------------------------------------------------------------------------------
(* ProxyStream's own goroutine, and the handler around it *)

At(step) == pc = step
Goto(step) == pc' = step

\* The next upstream answers (one that does not leaves everything as it was).
\* With a context that is done no upstream request can succeed.
StartStream ==
    /\ At("failover") /\ Goto("select")
    /\ attempt < MaxAttempts
    /\ ~cancelled
    /\ attempt' = attempt + 1
    /\ Register(attempt')
    /\ reader' = [reader EXCEPT ![attempt'] = "scan"]
    /\ writer' = [writer EXCEPT ![attempt'] = "receive"]
    /\ delivered' = <<>>
    /\ UNCHANGED <<broken, cancelled, streamErr, streamResult, writeErr, result, read, bodyEnded,
                   copyDone, pipe>>

\* select: the context is done.
ContextDone ==
    /\ At("select") /\ Goto("cancelWriter")
    /\ cancelled
    /\ streamErr' = "error"
    /\ UNCHANGED <<broken, cancelled, attempt, streamResult, readers, writers, pipe, manager>>

CancelWriteEnd ==
    /\ At("cancelWriter") /\ Goto("cancelReader")
    /\ CloseWriteEnd(attempt, "error")
    /\ UNCHANGED <<broken, cancelled, attempt, streamErr, streamResult, readers, writers, manager>>

CancelReadEnd ==
    /\ At("cancelReader") /\ Goto("cancelBody")
    /\ pipe' = [pipe EXCEPT ![attempt].readEnd = "closed"]
    /\ UNCHANGED <<broken, cancelled, attempt, streamErr, streamResult, readers, writers, manager>>

\* Mutant of CancelBody: the upstream response is left to the cleanup loop.
CancelBodyLater ==
    /\ At("cancelBody") /\ Goto("drain")
    /\ UNCHANGED <<broken, cancelled, attempt, streamErr, streamResult, readers, writers, pipe,
                   manager>>

CancelBody ==
    /\ At("cancelBody") /\ Goto("drain")
    /\ Close(Session[attempt])
    /\ UNCHANGED <<broken, cancelled, attempt, streamErr, streamResult, readers, writers, pipe>>

\* Mutant of Drain: the writer is not waited for.
DrainNot ==
    /\ At("drain") /\ Goto("prompt")
    /\ UNCHANGED <<broken, cancelled, attempt, streamErr, streamResult, readers, writers, pipe,
                   manager>>

Drain ==
    /\ At("drain") /\ Goto("prompt")
    /\ copyDone[attempt] # "empty"
    /\ UNCHANGED <<broken, cancelled, attempt, streamErr, streamResult, readers, writers, pipe,
                   manager>>

\* select: the writer has reported.
CopyDone ==
    /\ At("select") /\ Goto("closeBody")
    /\ copyDone[attempt] # "empty"
    /\ streamErr' = copyDone[attempt]
    /\ UNCHANGED <<broken, cancelled, attempt, streamResult, readers, writers, pipe, manager>>

CloseBody ==
    /\ At("closeBody") /\ Goto("closeReader")
    /\ Close(Session[attempt])
    /\ UNCHANGED <<broken, cancelled, attempt, streamErr, streamResult, readers, writers, pipe>>

\* Mutant of CloseReadEnd: the reader is left to find out by itself.
CloseReadEndNot ==
    /\ At("closeReader") /\ Goto("prompt")
    /\ UNCHANGED <<broken, cancelled, attempt, streamErr, streamResult, readers, writers, pipe,
                   manager>>

CloseReadEnd ==
    /\ At("closeReader") /\ Goto("prompt")
    /\ pipe' = [pipe EXCEPT ![attempt].readEnd = "closed"]
    /\ UNCHANGED <<broken, cancelled, attempt, streamErr, streamResult, readers, writers, manager>>

\* "return result" copies two fields that the reader may be writing.
ReturnPrompt ==
    /\ At("prompt") /\ Goto("completion")
    /\ streamResult' = [streamResult EXCEPT !.prompt = result[attempt].prompt]
    /\ UNCHANGED <<broken, cancelled, attempt, streamErr, readers, writers, pipe, manager>>

ReturnCompletion ==
    /\ At("completion") /\ Goto(IF streamErr = "nil" THEN "settle" ELSE "failover")
    /\ streamResult' = [streamResult EXCEPT !.completion = result[attempt].completion]
    /\ UNCHANGED <<broken, cancelled, attempt, streamErr, readers, writers, pipe, manager>>

\* Failover has no candidate left.
GiveUp ==
    /\ At("failover") /\ Goto("settle")
    /\ UNCHANGED <<broken, cancelled, attempt, streamErr, streamResult, readers, writers, pipe,
                   manager>>

\* Settled and recorded, the handler returns, which ends the request's context.
HandlerReturns ==
    /\ At("settle") /\ Goto("over")
    /\ cancelled' = TRUE
    /\ UNCHANGED <<broken, attempt, streamErr, streamResult, readers, writers, pipe, manager>>

------------------------------------------------------------------------------
\* The client goes away, or the server's write timeout passes.
Break ==
    /\ ~broken /\ pc # "over"
    /\ broken' = TRUE
    /\ UNCHANGED <<cancelled, handler, readers, writers, pipe, manager>>

\* The server notices that the client is gone.
Cancel ==
    /\ broken /\ ~cancelled
    /\ cancelled' = TRUE
    /\ UNCHANGED <<broken, handler, readers, writers, pipe, manager>>

ReaderStep(a) ==
    \/ Scan(a) \/ ScanStops(a) \/ CheckContext(a) \/ CountText(a) \/ CountUsage(a)
    \/ Send(a) \/ SendFails(a) \/ Touch(a) \/ ReaderEnds(a)

WriterStep(a) == Send(a) \/ ReceiveStops(a) \/ Write(a) \/ WriteFails(a)

HandlerStep ==
    \/ StartStream \/ ContextDone \/ CancelWriteEnd \/ CancelReadEnd \/ CancelBody \/ Drain
    \/ CopyDone \/ CloseBody \/ CloseReadEnd \/ ReturnPrompt \/ ReturnCompletion \/ GiveUp
    \/ HandlerReturns

\* The request is over and nothing of it is left.
Finished ==
    /\ pc = "over"
    /\ \A a \in Attempts : reader[a] \in {"none", "ended"} /\ writer[a] \in {"none", "ended"}

Stop == Finished /\ UNCHANGED vars

Next ==
    \/ HandlerStep
    \/ \E a \in Attempts : ReaderStep(a) \/ WriterStep(a) \/ BodyEnds(a)
    \/ \E s \in Sessions : GoIdle(s) \/ Cleanup(s)
    \/ Break \/ Cancel
    \/ Stop

Spec == Init /\ [][Next]_vars

\* Goroutines are scheduled; a read of the body ends by the HTTP client's timeout
\* of five minutes and a write to the client by the server's write timeout.
Fairness ==
    /\ WF_vars(HandlerStep)
    /\ \A a \in Attempts : WF_vars(ReaderStep(a)) /\ WF_vars(WriterStep(a))

FairSpec == Spec /\ Fairness

------------------------------------------------------------------------------
(* Properties *)

\* The call of ProxyStream for attempt a has not returned.
Running(a) == a = attempt /\ pc \notin {"failover", "settle", "over"}

\* Nothing writes to the http.ResponseWriter outside the call it was lent to: not
\* after the handler has returned, and never two goroutines together, although
\* the call may leave through the context while a write is under way.
WriterIsLent == \A a \in Attempts : writer[a] \in {"receive", "write"} => Running(a)

\* No upstream response leaks: while a body is open it is registered, so that
\* the call or the cleanup loop can close it, and it is closed when the call
\* returns.  Holds although keys that begin alike share their session id.
NoBodyLeaks ==
    \A a \in Attempts : bodyOpen[a] => connections[Session[a]] = a /\ Running(a)

\* What a reader counts in a sequence of chunks.
CountedIn(chunks) ==
    FoldLeft(LAMBDA counts, chunk :
                CASE chunk = "text" -> [counts EXCEPT !.completion = @ + 1]
                  [] chunk = "usage" -> Usage
                  [] OTHER -> counts,
             NoTokens, chunks)

Complete(chunks, a) == bodyEnded[a] \/ (chunks # <<>> /\ Last(chunks) = "done")

\* Success means success: if a call returns nil, the client has been written all
\* that the upstream sent, to its end, and the counts are those of all of it.
NilMeansComplete ==
    pc \in {"settle", "over"} /\ streamErr = "nil" =>
        /\ delivered = read[attempt]
        /\ Complete(read[attempt], attempt)
        /\ streamResult = CountedIn(read[attempt])

\* Whatever interrupts a call, and although its reader may still be counting when
\* it returns, each count it returns covers all that the client was written by
\* this call, and nothing that was not read.
CountsDelivered ==
    pc \in {"failover", "settle", "over"} /\ attempt > 0 =>
        LET prefixes == {SubSeq(read[attempt], 1, n) :
                            n \in Len(delivered)..Len(read[attempt])}
        IN  /\ \E p \in prefixes : streamResult.prompt = CountedIn(p).prompt
            /\ \E p \in prefixes : streamResult.completion = CountedIn(p).completion

\* Whoever waits has someone to wait for: a writer its reader or the end of the pipe,
\* a reader with a chunk the end of the pipe or the call that has yet to close it,
\* and the call a writer that has reported or will; although each of the three may
\* stop first, and a writer that fails leaves the pipe open behind it.
NoneWaitsInVain ==
    \A a \in Attempts :
        /\ writer[a] = "receive" => Closed(a) \/ reader[a] \notin {"none", "ended"}
        /\ reader[a] = "send" => Closed(a) \/ Running(a)
        /\ Running(a) /\ pc \in {"select", "drain"} =>
            copyDone[a] # "empty" \/ writer[a] \in {"receive", "write"}

\* Every call returns and leaves no goroutine: reader, writer and caller never wait
\* for each other forever, whichever of them stops first, and a reader that outlives
\* its call is freed from the pipe, or from the body that was closed under it.
EveryCallEnds ==
    \A a \in Attempts :
        reader[a] # "none" ~> reader[a] = "ended" /\ writer[a] = "ended" /\ ~Running(a)
==============================================================================

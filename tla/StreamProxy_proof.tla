--------------------------- MODULE StreamProxy_proof ---------------------------
(***************************************************************************)
(* What holds of any number of calls, sessions and chunks: the types, that *)
(* the ResponseWriter is never used outside the call it was lent to, and   *)
(* that no upstream body is left open.  The key fact is where the caller   *)
(* can be while a writer is at work, and while a body is open: it passes   *)
(* the point where it waits for the one, and the point where it closes the *)
(* other, whichever way it leaves.                                         *)
(*                                                                         *)
(* Then the data: what a stream that returned nil has delivered (StreamInv *)
(* follows each chunk from hand to hand), and the counts (CountsInv finds, *)
(* for each reader, how many of its chunks are in the counts it shares).   *)
(* Last, who waits for whom: a goroutine that stops has left what the      *)
(* others wait for (WaitsInv).                                             *)
(***************************************************************************)
EXTENDS StreamProxy, WellFoundedInduction, TLAPS

\* Where the caller has not yet waited for the writer.
Waiting == {"select", "cancelWriter", "cancelReader", "cancelBody", "drain"}

\* Where it has not yet closed the body.
Holding == {"select", "cancelWriter", "cancelReader", "cancelBody", "closeBody"}

Live(a) == writer[a] \in {"receive", "write"}

WritersInv ==
    \A a \in Attempts :
        /\ Live(a) => a = attempt /\ pc \in Waiting
        /\ copyDone[a] # "empty" => writer[a] = "ended" /\ a <= attempt

BodiesInv ==
    \A a \in Attempts :
        bodyOpen[a] => connections[Session[a]] = a /\ a = attempt /\ pc \in Holding

\* There is a call wherever its outcome is looked at.
CallsInv ==
    pc \in Waiting \union Holding \union {"closeReader", "prompt", "completion"} => attempt \in Attempts

\* The chunks that were read, less those delivered, less the one that is being
\* written, less the one the reader has not sent: there is always one to write.
InHand(a) == reader[a] \in {"check", "count", "countRest", "send"}

ChunksInv ==
    \A a \in Attempts : Live(a) =>
        /\ Len(delivered) <= Len(read[a])
        /\ InHand(a) => Len(delivered) + 1 <= Len(read[a])
        /\ writer[a] = "write" => Len(delivered) + 1 <= Len(read[a])
        /\ InHand(a) /\ writer[a] = "write" => Len(delivered) + 2 <= Len(read[a])

------------------------------------------------------------------------------
(* Types, by groups of variables *)

HandlerTypes ==
    /\ pc \in HandlerSteps
    /\ attempt \in 0..MaxAttempts
    /\ streamErr \in {"nil", "error"}
    /\ streamResult \in Counts

ContextTypes == broken \in BOOLEAN /\ cancelled \in BOOLEAN

ReaderTypes ==
    /\ reader \in [Attempts -> ReaderSteps]
    /\ writeErr \in [Attempts -> {"nil", "error"}]
    /\ result \in [Attempts -> Counts]
    /\ bodyEnded \in [Attempts -> BOOLEAN]
    /\ read \in [Attempts -> Seq(Kinds)]

WriterTypes ==
    /\ writer \in [Attempts -> WriterSteps]
    /\ copyDone \in [Attempts -> {"empty", "nil", "error"}]
    /\ delivered \in Seq(Kinds)

PipeTypes == pipe \in [Attempts -> [writeEnd : {"open", "nil", "error"}, readEnd : {"open", "closed"}]]

ManagerTypes ==
    /\ bodyOpen \in [Attempts -> BOOLEAN]
    /\ connections \in [Sessions -> Attempts \union {NoStream}]
    /\ idle \in [Sessions -> BOOLEAN]

LEMMA TypesByGroup ==
    TypeOK <=> /\ HandlerTypes /\ ContextTypes /\ ReaderTypes /\ WriterTypes /\ PipeTypes
               /\ ManagerTypes
  BY DEF TypeOK, HandlerTypes, ContextTypes, ReaderTypes, WriterTypes, PipeTypes, ManagerTypes

Inv == TypeOK /\ WritersInv /\ BodiesInv /\ CallsInv /\ ChunksInv

LEMMA CountsTyped ==
    /\ NoTokens \in Counts
    /\ \A c \in Counts : c.prompt \in {0, Usage.prompt} /\ c.completion \in Nat
    /\ Usage.prompt \in Nat /\ Usage.completion \in Nat
  BY StreamAssumption DEF Counts, NoTokens

LEMMA SessionsTyped == \A a \in Attempts : Session[a] \in Sessions
  BY DEF Sessions

LEMMA InitInv == Init => Inv
<1> SUFFICES ASSUME Init PROVE Inv
  OBVIOUS
<1>1. HandlerTypes /\ ContextTypes
  <2>1. 0 \in 0..MaxAttempts
    BY StreamAssumption
  <2> QED
    BY <2>1, CountsTyped DEF Init, HandlerTypes, ContextTypes, HandlerSteps
<1>2. ReaderTypes /\ WriterTypes
  BY CountsTyped DEF Init, ReaderTypes, WriterTypes, ReaderSteps, WriterSteps
<1>3. PipeTypes
  BY DEF Init, PipeTypes
<1>4. ManagerTypes
  BY DEF Init, ManagerTypes
<1>5. TypeOK
  BY <1>1, <1>2, <1>3, <1>4, TypesByGroup
<1>6. WritersInv /\ ChunksInv
  BY DEF Init, WritersInv, ChunksInv, Live
<1>7. BodiesInv /\ CallsInv
  BY DEF Init, BodiesInv, CallsInv, Waiting, Holding
<1> QED
  BY <1>5, <1>6, <1>7 DEF Inv

------------------------------------------------------------------------------
(* Goroutines of the call *)

\* What none of them touches.
OwnersOnly == UNCHANGED <<broken, cancelled, handler>>

LEMMA ReaderFrame ==
    ASSUME NEW a \in Attempts, ReaderStep(a) \/ WriterStep(a) \/ BodyEnds(a)
    PROVE  OwnersOnly /\ UNCHANGED <<connections, bodyOpen>>
  BY DEF ReaderStep, WriterStep, BodyEnds, Scan, ScanStops, CheckContext, CountText, CountUsage, Send,
        SendFails, Touch, ReaderEnds, ReceiveStops, Write, WriteFails, OwnersOnly, manager

LEMMA ReaderTypesKept ==
    ASSUME TypeOK, NEW a \in Attempts, ReaderStep(a) \/ BodyEnds(a)
    PROVE  ReaderTypes'
<1> USE DEF ReaderTypes, ReaderSteps
<1>0. ReaderTypes
  BY TypesByGroup
<1>1. CASE BodyEnds(a)
  BY <1>0, <1>1 DEF BodyEnds
<1>2. CASE Scan(a)
  <2>1. PICK kind \in Kinds : read' = [read EXCEPT ![a] = Append(@, kind)]
    BY <1>2 DEF Scan
  <2>2. Append(read[a], kind) \in Seq(Kinds)
    <3>1. read[a] \in Seq(Kinds)
      BY <1>0
    <3> QED
      BY <3>1
  <2> QED
    BY <1>0, <1>2, <2>1, <2>2 DEF Scan
<1>3. CASE ScanStops(a)
  BY <1>0, <1>3 DEF ScanStops
<1>4. CASE CheckContext(a)
  BY <1>0, <1>4 DEF CheckContext
<1>5. CASE CountText(a)
  <2>1. [result[a] EXCEPT !.completion = @ + 1] \in Counts
    <3>1. result[a] \in Counts
      BY <1>0
    <3> QED
      BY <3>1 DEF Counts
  <2> QED
    BY <1>0, <1>5, <2>1 DEF CountText
<1>6. CASE CountUsage(a)
  <2>1. [result[a] EXCEPT !.prompt = Usage.prompt] \in Counts
    BY <1>0 DEF Counts
  <2>2. [result[a] EXCEPT !.completion = Usage.completion] \in Counts
    BY <1>0, StreamAssumption DEF Counts
  <2>3. CASE reader[a] = "count"
    <3>1. result' = [result EXCEPT ![a] = [result[a] EXCEPT !.prompt = Usage.prompt]]
      BY <1>6, <2>3 DEF CountUsage
    <3>2. /\ reader' = [reader EXCEPT ![a] = "countRest"]
          /\ UNCHANGED <<writeErr, read, bodyEnded>>
      BY <1>6, <2>3 DEF CountUsage
    <3> QED
      BY <1>0, <2>1, <3>1, <3>2
  <2>4. CASE reader[a] = "countRest"
    <3>1. result' = [result EXCEPT ![a] = [result[a] EXCEPT !.completion = Usage.completion]]
      BY <1>6, <2>4 DEF CountUsage
    <3>2. /\ reader' = [reader EXCEPT ![a] = "send"]
          /\ UNCHANGED <<writeErr, read, bodyEnded>>
      BY <1>6, <2>4 DEF CountUsage
    <3> QED
      BY <1>0, <2>2, <3>1, <3>2
  <2> QED
    BY <1>6, <2>3, <2>4 DEF CountUsage
<1>7. CASE Send(a)
  BY <1>0, <1>7 DEF Send
<1>8. CASE SendFails(a)
  BY <1>0, <1>8 DEF SendFails
<1>9. CASE Touch(a)
  BY <1>0, <1>9 DEF Touch
<1>10. CASE ReaderEnds(a)
  BY <1>0, <1>10 DEF ReaderEnds
<1> QED
  BY <1>1, <1>2, <1>3, <1>4, <1>5, <1>6, <1>7, <1>8, <1>9, <1>10 DEF ReaderStep

LEMMA CloseWriteEndTyped ==
    ASSUME TypeOK, NEW a \in Attempts, NEW err \in {"nil", "error"}, CloseWriteEnd(a, err)
    PROVE  PipeTypes'
  BY DEF TypeOK, CloseWriteEnd, PipeTypes

\* A step of the reader alone: the writer, the handler and the bodies are as they were.
LEMMA ReaderAlone ==
    ASSUME Inv, NEW a \in Attempts, ReaderStep(a) \/ BodyEnds(a), ~Send(a)
    PROVE  Inv'
<1>0. TypeOK /\ ReaderTypes /\ WriterTypes /\ PipeTypes /\ ManagerTypes
  BY TypesByGroup DEF Inv
<1>1. OwnersOnly /\ UNCHANGED <<connections, bodyOpen>>
  BY ReaderFrame
<1>2. UNCHANGED writers
  BY DEF ReaderStep, BodyEnds, Scan, ScanStops, CheckContext, CountText, CountUsage, SendFails, Touch,
        ReaderEnds
<1>3. PipeTypes'
  <2>1. CASE ReaderEnds(a)
    BY <1>0, <2>1, CloseWriteEndTyped DEF ReaderEnds, ReaderTypes
  <2>2. CASE UNCHANGED pipe
    BY <1>0, <2>2 DEF PipeTypes
  <2> QED
    BY <2>1, <2>2 DEF ReaderStep, BodyEnds, Scan, ScanStops, CheckContext, CountText, CountUsage,
          SendFails, Touch
<1>4. ManagerTypes'
  <2>1. CASE Touch(a)
    BY <1>0, <1>1, <2>1, SessionsTyped DEF Touch, ManagerTypes
  <2>2. CASE UNCHANGED idle
    BY <1>0, <1>1, <2>2 DEF ManagerTypes
  <2> QED
    BY <2>1, <2>2 DEF ReaderStep, BodyEnds, Scan, ScanStops, CheckContext, CountText, CountUsage,
          SendFails, ReaderEnds, manager
<1>5. ReaderTypes'
  BY <1>0, ReaderTypesKept
<1>6. TypeOK'
  BY <1>0, <1>1, <1>2, <1>3, <1>4, <1>5, TypesByGroup DEF TypeOK, OwnersOnly, handler, writers,
        ReaderTypes, PipeTypes, ManagerTypes
<1>7. WritersInv' /\ BodiesInv' /\ CallsInv'
  BY <1>1, <1>2 DEF Inv, OwnersOnly, handler, writers, WritersInv, BodiesInv, CallsInv, Live
<1>8. \A b \in Attempts : Len(read[b]) \in Nat
  BY <1>0 DEF ReaderTypes
<1>9. Len(delivered) \in Nat
  BY <1>0 DEF WriterTypes
<1>10. CASE Scan(a)
  <2>1. PICK kind \in Kinds : read' = [read EXCEPT ![a] = Append(@, kind)]
    BY <1>10 DEF Scan
  <2>2. Len(read'[a]) = Len(read[a]) + 1
    <3>1. read[a] \in Seq(Kinds) /\ read'[a] = Append(read[a], kind)
      BY <1>0, <2>1 DEF ReaderTypes
    <3> QED
      BY <3>1
  <2>3. \A b \in Attempts \ {a} : read'[b] = read[b] /\ reader'[b] = reader[b]
    BY <1>0, <1>10, <2>1 DEF ReaderTypes, Scan
  <2>4. ~InHand(a)
    BY <1>10 DEF Scan, InHand
  <2>5. ChunksInv'
    BY <1>2, <1>8, <1>9, <2>2, <2>3, <2>4 DEF Inv, ChunksInv, InHand, Live, writers
  <2> QED
    BY <1>6, <1>7, <2>5 DEF Inv
<1>11. CASE ~Scan(a)
  <2>1. UNCHANGED read
    BY <1>11 DEF ReaderStep, BodyEnds, ScanStops, CheckContext, CountText, CountUsage, SendFails,
          Touch, ReaderEnds
  <2>2. ASSUME NEW b \in Attempts, InHand(b)' PROVE InHand(b)
    <3>1. b # a => reader'[b] = reader[b]
      BY <1>0, <1>11 DEF ReaderTypes, ReaderStep, BodyEnds, ScanStops, CheckContext, CountText,
            CountUsage, SendFails, Touch, ReaderEnds
    <3>2. b = a => reader[a] \in {"check", "count", "countRest", "send"}
      BY <1>0, <1>11, <2>2 DEF ReaderTypes, InHand, ReaderStep, BodyEnds, ScanStops, CheckContext,
            CountText, CountUsage, SendFails, Touch, ReaderEnds
    <3> QED
      BY <2>2, <3>1, <3>2 DEF InHand
  <2>3. ChunksInv'
    BY <1>2, <2>1, <2>2 DEF Inv, ChunksInv, Live, writers
  <2> QED
    BY <1>6, <1>7, <2>3 DEF Inv
<1> QED
  BY <1>10, <1>11

\* The writer takes a chunk from the reader.
LEMMA SendKeeps == ASSUME Inv, NEW a \in Attempts, Send(a) PROVE Inv'
<1>0. TypeOK /\ ReaderTypes /\ WriterTypes
  BY TypesByGroup DEF Inv
<1>1. OwnersOnly /\ UNCHANGED <<connections, bodyOpen>>
  BY ReaderFrame DEF ReaderStep
<1>2. UNCHANGED <<copyDone, delivered, pipe, manager, read>>
  BY DEF Send
<1>3. writer[a] = "receive" /\ writer' = [writer EXCEPT ![a] = "write"]
  BY DEF Send
<1>4. WriterTypes'
  BY <1>0, <1>2, <1>3 DEF WriterTypes, WriterSteps
<1>5. ReaderTypes'
  BY <1>0, ReaderTypesKept DEF ReaderStep
<1>6. TypeOK'
  BY <1>0, <1>1, <1>2, <1>4, <1>5 DEF TypeOK, OwnersOnly, handler, manager, ReaderTypes, WriterTypes
<1>7. WritersInv'
  <2>1. copyDone[a] = "empty"
    BY <1>0, <1>3 DEF Inv, WritersInv
  <2>2. \A b \in Attempts : writer'[b] = IF b = a THEN "write" ELSE writer[b]
    BY <1>0, <1>3 DEF WriterTypes
  <2> QED
    BY <1>1, <1>2, <1>3, <2>1, <2>2 DEF Inv, WritersInv, Live, OwnersOnly, handler
<1>8. BodiesInv' /\ CallsInv'
  BY <1>1 DEF Inv, OwnersOnly, handler, BodiesInv, CallsInv
<1>9. ChunksInv'
  <2>1. Len(read[a]) \in Nat /\ Len(delivered) \in Nat
    BY <1>0 DEF ReaderTypes, WriterTypes
  <2>2. InHand(a) /\ Live(a)
    BY DEF Send, InHand, Live
  <2>3. ~InHand(a)'
    BY <1>0 DEF Send, InHand, ReaderTypes
  <2>4. \A b \in Attempts \ {a} : writer'[b] = writer[b] /\ reader'[b] = reader[b]
    BY <1>0 DEF Send, ReaderTypes, WriterTypes
  <2> QED
    BY <1>2, <2>1, <2>2, <2>3, <2>4 DEF Inv, ChunksInv, InHand, Live
<1> QED
  BY <1>6, <1>7, <1>8, <1>9 DEF Inv

\* A step of the writer alone.
LEMMA WriterAlone ==
    ASSUME Inv, NEW a \in Attempts, ReceiveStops(a) \/ Write(a) \/ WriteFails(a)
    PROVE  Inv'
<1>0. TypeOK /\ ReaderTypes /\ WriterTypes
  BY TypesByGroup DEF Inv
<1>1. OwnersOnly /\ UNCHANGED <<connections, bodyOpen>>
  BY ReaderFrame DEF WriterStep
<1>2. UNCHANGED <<readers, pipe, manager>>
  BY DEF ReceiveStops, Write, WriteFails
<1>3. Live(a) /\ writer[a] # "ended"
  BY DEF ReceiveStops, Write, WriteFails, Live
<1>4. BodiesInv' /\ CallsInv'
  BY <1>1 DEF Inv, OwnersOnly, handler, BodiesInv, CallsInv
<1>5. CASE ReceiveStops(a) \/ WriteFails(a)
  <2>1. writer' = [writer EXCEPT ![a] = "ended"] /\ UNCHANGED delivered
    BY <1>5 DEF ReceiveStops, WriteFails
  <2>2. \/ copyDone' = [copyDone EXCEPT ![a] = "nil"]
        \/ copyDone' = [copyDone EXCEPT ![a] = "error"]
    BY <1>5 DEF ReceiveStops, WriteFails
  <2>3. WriterTypes'
    BY <1>0, <2>1, <2>2 DEF WriterTypes, WriterSteps
  <2>4. TypeOK'
    BY <1>0, <1>1, <1>2, <2>3 DEF TypeOK, OwnersOnly, handler, readers, manager, WriterTypes
  <2>5. \A b \in Attempts \ {a} : writer'[b] = writer[b] /\ copyDone'[b] = copyDone[b]
    BY <1>0, <2>1, <2>2 DEF WriterTypes
  <2>6. writer'[a] = "ended"
    BY <1>0, <2>1 DEF WriterTypes
  <2>7. WritersInv'
    <3>1. a <= attempt
      BY <1>0, <1>3 DEF Inv, WritersInv, TypeOK, Attempts
    <3> QED
      BY <1>1, <2>5, <2>6, <3>1 DEF Inv, WritersInv, Live, OwnersOnly, handler
  <2>8. ChunksInv'
    BY <1>2, <2>1, <2>5, <2>6 DEF Inv, ChunksInv, Live, InHand, readers
  <2> QED
    BY <1>4, <2>4, <2>7, <2>8 DEF Inv
<1>6. CASE Write(a)
  <2>1. /\ writer[a] = "write" /\ writer' = [writer EXCEPT ![a] = "receive"]
        /\ delivered' = Append(delivered, read[a][Len(delivered) + 1])
        /\ UNCHANGED copyDone
    BY <1>6 DEF Write
  <2>2. read[a] \in Seq(Kinds) /\ delivered \in Seq(Kinds)
    BY <1>0 DEF ReaderTypes, WriterTypes
  <2>3. Len(delivered) + 1 <= Len(read[a])
    BY <1>3, <2>1 DEF Inv, ChunksInv
  <2>4. read[a][Len(delivered) + 1] \in Kinds
    BY <2>2, <2>3
  <2>5. delivered' \in Seq(Kinds) /\ Len(delivered') = Len(delivered) + 1
    BY <2>1, <2>2, <2>4
  <2>6. WriterTypes'
    BY <1>0, <2>1, <2>5 DEF WriterTypes, WriterSteps
  <2>7. TypeOK'
    BY <1>0, <1>1, <1>2, <2>6 DEF TypeOK, OwnersOnly, handler, readers, manager, WriterTypes
  <2>8. \A b \in Attempts : writer'[b] = IF b = a THEN "receive" ELSE writer[b]
    BY <1>0, <2>1 DEF WriterTypes
  <2>9. WritersInv'
    BY <1>1, <1>3, <2>1, <2>8 DEF Inv, WritersInv, Live, OwnersOnly, handler
  <2>10. ChunksInv'
    <3>1. \A b \in Attempts \ {a} : ~Live(b)'
      BY <1>3, <2>8 DEF Inv, WritersInv, Live
    <3>2. Len(delivered) \in Nat /\ Len(read[a]) \in Nat
      BY <2>2
    <3>3. InHand(a) => Len(delivered) + 2 <= Len(read[a])
      BY <1>3, <2>1 DEF Inv, ChunksInv
    <3> QED
      BY <1>2, <2>3, <2>5, <2>8, <3>1, <3>2, <3>3 DEF ChunksInv, Live, InHand, readers
  <2> QED
    BY <1>4, <2>7, <2>9, <2>10 DEF Inv
<1> QED
  BY <1>5, <1>6

------------------------------------------------------------------------------
(* The caller *)

\* A move of the caller in which only pc, streamErr and streamResult change.
LEMMA HandlerMoves ==
    ASSUME Inv, UNCHANGED <<attempt, readers, writers, manager>>, HandlerTypes', ContextTypes',
           PipeTypes',
           \A a \in Attempts : Live(a) => pc' \in Waiting,
           \A a \in Attempts : bodyOpen[a] => pc' \in Holding,
           pc' \in Waiting \union Holding \union {"closeReader", "prompt", "completion"} =>
              attempt \in Attempts
    PROVE  Inv'
<1>1. ReaderTypes' /\ WriterTypes' /\ ManagerTypes'
  BY DEF Inv, TypeOK, ReaderTypes, WriterTypes, ManagerTypes, readers, writers, manager
<1>2. TypeOK'
  BY <1>1 DEF TypeOK, HandlerTypes, ContextTypes, PipeTypes, ReaderTypes, WriterTypes, ManagerTypes
<1>3. WritersInv' /\ BodiesInv' /\ CallsInv'
  BY DEF Inv, WritersInv, BodiesInv, CallsInv, Live, writers, manager
<1>4. ChunksInv'
  BY DEF Inv, ChunksInv, Live, InHand, readers, writers
<1> QED
  BY <1>2, <1>3, <1>4 DEF Inv

\* A writer that has reported, or a caller beyond waiting for it, leaves none at work.
LEMMA NoneAtWork ==
    ASSUME Inv, pc \notin Waiting \/ copyDone[attempt] # "empty"
    PROVE  \A a \in Attempts : ~Live(a)
  BY DEF Inv, WritersInv, Live

\* The steps that only move on.
LEMMA MovesKeep ==
    ASSUME Inv,
           \/ ContextDone \/ CancelWriteEnd \/ CancelReadEnd \/ Drain \/ CopyDone \/ CloseReadEnd
           \/ ReturnPrompt \/ ReturnCompletion \/ GiveUp \/ HandlerReturns
    PROVE  Inv'
<1>0. TypeOK /\ HandlerTypes /\ ContextTypes /\ PipeTypes
  BY TypesByGroup DEF Inv
<1>1. UNCHANGED <<attempt, readers, writers, manager>>
  BY DEF ContextDone, CancelWriteEnd, CancelReadEnd, Drain, CopyDone, CloseReadEnd, ReturnPrompt,
        ReturnCompletion, GiveUp, HandlerReturns
<1>2. pc \in Waiting \union Holding \union {"closeReader", "prompt", "completion"} =>
        attempt \in Attempts
  BY DEF Inv, CallsInv
<1>3. ContextTypes'
  BY <1>0 DEF ContextTypes, ContextDone, CancelWriteEnd, CancelReadEnd, Drain, CopyDone, CloseReadEnd,
        ReturnPrompt, ReturnCompletion, GiveUp, HandlerReturns
<1>4. PipeTypes'
  <2>1. CASE CancelWriteEnd
    <3>1. attempt \in Attempts
      BY <1>2, <2>1 DEF CancelWriteEnd, At, Waiting
    <3> QED
      BY <1>0, <2>1, <3>1, CloseWriteEndTyped DEF CancelWriteEnd
  <2>2. CASE CancelReadEnd \/ CloseReadEnd
    <3>1. pipe' = [pipe EXCEPT ![attempt].readEnd = "closed"]
      BY <2>2 DEF CancelReadEnd, CloseReadEnd
    <3> QED
      BY <1>0, <3>1 DEF PipeTypes
  <2>3. CASE UNCHANGED pipe
    BY <1>0, <2>3 DEF PipeTypes
  <2> QED
    BY <2>1, <2>2, <2>3 DEF ContextDone, Drain, CopyDone, ReturnPrompt, ReturnCompletion, GiveUp,
          HandlerReturns
<1>5. HandlerTypes'
  <2>1. CASE CopyDone
    <3>1. attempt \in Attempts
      BY <1>2, <2>1 DEF CopyDone, At, Waiting
    <3>2. copyDone[attempt] \in {"nil", "error"}
      BY <1>0, <2>1, <3>1 DEF CopyDone, TypeOK
    <3> QED
      BY <1>0, <2>1, <3>2 DEF CopyDone, Goto, HandlerTypes, HandlerSteps
  <2>2. CASE ReturnPrompt \/ ReturnCompletion
    <3>1. attempt \in Attempts
      BY <1>2, <2>2 DEF ReturnPrompt, ReturnCompletion, At
    <3>2. result[attempt] \in Counts /\ streamResult \in Counts
      BY <1>0, <3>1 DEF TypeOK
    <3>3. /\ [streamResult EXCEPT !.prompt = result[attempt].prompt] \in Counts
          /\ [streamResult EXCEPT !.completion = result[attempt].completion] \in Counts
      BY <3>2 DEF Counts
    <3> QED
      BY <1>0, <2>2, <3>3 DEF ReturnPrompt, ReturnCompletion, Goto, HandlerTypes, HandlerSteps
  <2>3. CASE /\ UNCHANGED <<attempt, streamResult>>
             /\ streamErr' \in {streamErr, "error"} /\ pc' \in HandlerSteps
    BY <1>0, <2>3 DEF HandlerTypes
  <2> QED
    BY <2>1, <2>2, <2>3 DEF ContextDone, CancelWriteEnd, CancelReadEnd, Drain, CloseReadEnd, GiveUp,
          HandlerReturns, Goto, HandlerSteps
<1>6. ASSUME NEW a \in Attempts, Live(a) PROVE pc' \in Waiting
  <2>1. pc \in Waiting /\ copyDone[attempt] = "empty"
    BY <1>6, NoneAtWork
  <2> QED
    BY <2>1 DEF ContextDone, CancelWriteEnd, CancelReadEnd, Drain, CopyDone, CloseReadEnd, ReturnPrompt,
          ReturnCompletion, GiveUp, HandlerReturns, At, Goto, Waiting
<1>7. ASSUME NEW a \in Attempts, bodyOpen[a] PROVE pc' \in Holding
  <2>1. pc \in Holding
    BY <1>7 DEF Inv, BodiesInv
  <2> QED
    BY <2>1 DEF ContextDone, CancelWriteEnd, CancelReadEnd, Drain, CopyDone, CloseReadEnd, ReturnPrompt,
          ReturnCompletion, GiveUp, HandlerReturns, At, Goto, Holding
<1>8. pc' \in Waiting \union Holding \union {"closeReader", "prompt", "completion"} =>
        attempt \in Attempts
  BY <1>2 DEF ContextDone, CancelWriteEnd, CancelReadEnd, Drain, CopyDone, CloseReadEnd, ReturnPrompt,
        ReturnCompletion, GiveUp, HandlerReturns, At, Goto, Holding, Waiting
<1> QED
  BY <1>1, <1>3, <1>4, <1>5, <1>6, <1>7, <1>8, HandlerMoves

LEMMA CloseTyped == ASSUME TypeOK, NEW s \in Sessions, Close(s) PROVE ManagerTypes'
  BY StreamAssumption DEF TypeOK, Close, ManagerTypes

\* Closing a session closes the body registered under it and keeps every other one.
LEMMA ClosingKeeps ==
    ASSUME Inv, NEW s \in Sessions, Close(s), NEW a \in Attempts, bodyOpen'[a]
    PROVE  bodyOpen[a] /\ Session[a] # s /\ connections'[Session[a]] = connections[Session[a]]
<1>1. bodyOpen[a] /\ connections[s] # a
  BY DEF Close
<1>2. connections[Session[a]] = a
  BY <1>1 DEF Inv, BodiesInv
<1>3. Session[a] # s
  BY <1>1, <1>2
<1> QED
  BY <1>1, <1>3, SessionsTyped DEF Close, Inv, TypeOK

\* CancelBody and CloseBody: of the open bodies there is only the call's own.
LEMMA CloseKeeps == ASSUME Inv, CancelBody \/ CloseBody PROVE Inv'
<1>0. TypeOK /\ HandlerTypes
  BY TypesByGroup DEF Inv
<1>1. /\ UNCHANGED <<broken, cancelled, attempt, streamErr, streamResult, readers, writers, pipe>>
      /\ Close(Session[attempt])
  BY DEF CancelBody, CloseBody
<1>2. attempt \in Attempts
  BY DEF Inv, CallsInv, CancelBody, CloseBody, At, Waiting, Holding
<1>3. \/ pc = "cancelBody" /\ pc' = "drain"
      \/ pc = "closeBody" /\ pc' = "closeReader"
  BY DEF CancelBody, CloseBody, At, Goto
<1>4. ManagerTypes'
  BY <1>0, <1>1, <1>2, CloseTyped, SessionsTyped
<1>5. HandlerTypes'
  BY <1>0, <1>1, <1>3 DEF HandlerTypes, HandlerSteps
<1>6. TypeOK'
  BY <1>0, <1>1, <1>4, <1>5 DEF TypeOK, HandlerTypes, ManagerTypes, readers, writers
<1>7. WritersInv'
  BY <1>1, <1>3 DEF Inv, WritersInv, Live, Waiting, writers
<1>8. \A a \in Attempts : ~bodyOpen'[a]
  BY <1>1, <1>2, SessionsTyped, ClosingKeeps DEF Inv, BodiesInv
<1>9. BodiesInv' /\ CallsInv'
  BY <1>1, <1>2, <1>8 DEF BodiesInv, CallsInv
<1>10. ChunksInv'
  BY <1>1 DEF Inv, ChunksInv, Live, InHand, readers, writers
<1> QED
  BY <1>6, <1>7, <1>9, <1>10 DEF Inv

\* The next call: it begins with no writer at work and no body open.
LEMMA StartKeeps == ASSUME Inv, StartStream PROVE Inv'
<1>0. TypeOK
  BY DEF Inv
<1> DEFINE b == attempt + 1
<1>1. b \in Attempts /\ b \in 0..MaxAttempts
  BY <1>0, StreamAssumption DEF StartStream, TypeOK, Attempts
<1>2. /\ attempt' = b /\ pc = "failover" /\ pc' = "select"
      /\ connections' = [connections EXCEPT ![Session[b]] = b]
      /\ bodyOpen' = [bodyOpen EXCEPT ![b] = TRUE]
      /\ idle' = [idle EXCEPT ![Session[b]] = FALSE]
      /\ reader' = [reader EXCEPT ![b] = "scan"]
      /\ writer' = [writer EXCEPT ![b] = "receive"]
      /\ delivered' = <<>>
      /\ UNCHANGED <<broken, cancelled, streamErr, streamResult, writeErr, result, read, bodyEnded,
                     copyDone, pipe>>
  BY DEF StartStream, At, Goto, Register
<1>3. \A a \in Attempts : ~Live(a) /\ ~bodyOpen[a]
  BY <1>2 DEF Inv, WritersInv, BodiesInv, Waiting, Holding
<1>4. copyDone[b] = "empty"
  BY <1>0, <1>1 DEF Inv, WritersInv, TypeOK
<1> HIDE DEF b
<1>5. TypeOK'
  <2>1. HandlerTypes' /\ ContextTypes' /\ PipeTypes'
    BY <1>0, <1>1, <1>2 DEF TypeOK, HandlerTypes, ContextTypes, PipeTypes, HandlerSteps
  <2>2. ReaderTypes' /\ WriterTypes'
    BY <1>0, <1>1, <1>2 DEF TypeOK, ReaderTypes, WriterTypes, ReaderSteps, WriterSteps
  <2>3. ManagerTypes'
    BY <1>0, <1>1, <1>2, SessionsTyped DEF TypeOK, ManagerTypes
  <2> QED
    BY <2>1, <2>2, <2>3 DEF TypeOK, HandlerTypes, ContextTypes, PipeTypes, ReaderTypes, WriterTypes,
          ManagerTypes
<1>6. \A a \in Attempts : writer'[a] = IF a = b THEN "receive" ELSE writer[a]
  BY <1>0, <1>2 DEF TypeOK
<1>7. WritersInv'
  <2>1. attempt \in Nat /\ b = attempt + 1 /\ Attempts \subseteq Int
    BY <1>0, StreamAssumption DEF b, TypeOK, Attempts
  <2>2. \A a \in Attempts : copyDone[a] # "empty" => a <= b
    BY <2>1 DEF Inv, WritersInv
  <2> QED
    BY <1>2, <1>3, <1>4, <1>6, <2>2 DEF Inv, WritersInv, Live, Waiting
<1>8. BodiesInv'
  BY <1>0, <1>1, <1>2, <1>3, SessionsTyped DEF BodiesInv, TypeOK, Holding
<1>9. CallsInv'
  BY <1>1, <1>2 DEF CallsInv
<1>10. ChunksInv'
  <2>1. \A a \in Attempts : Live(a)' => a = b
    BY <1>3, <1>6 DEF Live
  <2>2. reader'[b] = "scan" /\ writer'[b] = "receive" /\ Len(delivered') = 0 /\ Len(read[b]) \in Nat
    BY <1>0, <1>1, <1>2 DEF TypeOK
  <2> QED
    BY <1>2, <2>1, <2>2 DEF ChunksInv, InHand
<1> QED
  BY <1>5, <1>7, <1>8, <1>9, <1>10 DEF Inv

------------------------------------------------------------------------------
(* Surroundings *)

LEMMA CleanupKeeps ==
    ASSUME Inv, NEW s \in Sessions, GoIdle(s) \/ Cleanup(s)
    PROVE  Inv'
<1>0. TypeOK /\ ManagerTypes
  BY TypesByGroup DEF Inv
<1>1. UNCHANGED <<broken, cancelled, handler, readers, writers, pipe>>
  BY DEF GoIdle, Cleanup
<1>2. ManagerTypes'
  BY <1>0, CloseTyped DEF GoIdle, Cleanup, ManagerTypes
<1>3. TypeOK'
  BY <1>0, <1>1, <1>2 DEF TypeOK, ManagerTypes, handler, readers, writers
<1>4. BodiesInv'
  <2>1. ASSUME NEW a \in Attempts, bodyOpen'[a]
        PROVE bodyOpen[a] /\ connections'[Session[a]] = connections[Session[a]]
    BY <2>1, ClosingKeeps DEF GoIdle, Cleanup
  <2> QED
    BY <1>1, <2>1 DEF Inv, BodiesInv, handler
<1>5. WritersInv' /\ CallsInv' /\ ChunksInv'
  BY <1>1 DEF Inv, WritersInv, CallsInv, ChunksInv, Live, InHand, handler, readers, writers
<1> QED
  BY <1>3, <1>4, <1>5 DEF Inv

LEMMA BreakKeeps == ASSUME Inv, Break \/ Cancel \/ UNCHANGED vars PROVE Inv'
<1>1. UNCHANGED <<handler, readers, writers, pipe, manager>>
  BY DEF Break, Cancel, vars
<1>2. TypeOK'
  BY <1>1 DEF Inv, TypeOK, Break, Cancel, vars, handler, readers, writers, manager
<1>3. WritersInv' /\ BodiesInv' /\ CallsInv' /\ ChunksInv'
  BY <1>1 DEF Inv, WritersInv, BodiesInv, CallsInv, ChunksInv, Live, InHand, handler, readers, writers,
        manager
<1> QED
  BY <1>2, <1>3 DEF Inv

LEMMA InvStep == Inv /\ [Next]_vars => Inv'
<1> SUFFICES ASSUME Inv, [Next]_vars PROVE Inv'
  OBVIOUS
<1>1. CASE HandlerStep
  BY <1>1, StartKeeps, CloseKeeps, MovesKeep DEF HandlerStep
<1>2. ASSUME NEW a \in Attempts, ReaderStep(a) \/ WriterStep(a) \/ BodyEnds(a) PROVE Inv'
  <2>1. CASE Send(a)
    BY <2>1, SendKeeps
  <2>2. CASE (ReaderStep(a) \/ BodyEnds(a)) /\ ~Send(a)
    BY <2>2, ReaderAlone
  <2>3. CASE WriterStep(a) /\ ~Send(a)
    BY <2>3, WriterAlone DEF WriterStep
  <2> QED
    BY <1>2, <2>1, <2>2, <2>3
<1>3. ASSUME NEW s \in Sessions, GoIdle(s) \/ Cleanup(s) PROVE Inv'
  BY <1>3, CleanupKeeps
<1>4. CASE Break \/ Cancel \/ Stop \/ UNCHANGED vars
  BY <1>4, BreakKeeps DEF Stop
<1> QED
  BY <1>1, <1>2, <1>3, <1>4 DEF Next

------------------------------------------------------------------------------
(* What a stream that returned nil has delivered *)

\* The error with which the reader will close the pipe, and what it closed it with.
PipeOf(a) ==
    /\ reader[a] \notin {"close", "ended"} => writeErr[a] = "nil"
    /\ reader[a] \in {"close", "ended"} /\ writeErr[a] = "nil" => Complete(read[a], a)
    /\ pipe[a].writeEnd = "nil" => reader[a] = "ended" /\ writeErr[a] = "nil"

One(condition) == IF condition THEN 1 ELSE 0

\* Unless the reader gave a chunk up, every chunk read is delivered, or in a hand.
StreamOf(a) ==
    /\ Live(a) => \A i \in 1 .. Len(delivered) : delivered[i] = read[a][i]
    /\ Live(a) /\ writeErr[a] = "nil" =>
          Len(read[a]) = Len(delivered) + One(writer[a] = "write") + One(InHand(a))
    /\ copyDone[a] = "nil" => /\ reader[a] = "ended" /\ writeErr[a] = "nil"
                              /\ Complete(read[a], a)
                              /\ a = attempt => delivered = read[a]
    /\ a > attempt => reader[a] = "none" /\ read[a] = <<>>

StreamInv == \A a \in Attempts : PipeOf(a) /\ StreamOf(a)

NilInv ==
    streamErr = "nil" =>
        /\ attempt \in Attempts
        /\ copyDone[attempt] = "nil"
        /\ pc \in {"closeBody", "closeReader", "prompt", "completion", "settle", "over"}

LEMMA InitStream == Init => StreamInv /\ NilInv
  BY DEF Init, StreamInv, PipeOf, StreamOf, NilInv, Live

LEMMA SequencesTyped ==
    ASSUME TypeOK
    PROVE  /\ delivered \in Seq(Kinds) /\ Len(delivered) \in Nat
           /\ \A a \in Attempts : read[a] \in Seq(Kinds) /\ Len(read[a]) \in Nat
  BY DEF TypeOK

\* A chunk in the reader's hand is the last one it read.
LEMMA HandIsFull ==
    ASSUME TypeOK, StreamInv, NEW a \in Attempts, Live(a), InHand(a) PROVE read[a] # <<>>
<1>1. writeErr[a] = "nil"
  BY DEF StreamInv, PipeOf, InHand
<1>2. Len(read[a]) = Len(delivered) + One(writer[a] = "write") + 1
  BY <1>1 DEF StreamInv, StreamOf, One
<1>3. One(writer[a] = "write") \in Nat
  BY DEF One
<1>4. Len(read[a]) >= 1
  BY <1>2, <1>3, SequencesTyped
<1> QED
  BY <1>4

\* Everything a step of another attempt leaves as it was.
Same(b) ==
    /\ reader'[b] = reader[b] /\ writeErr'[b] = writeErr[b] /\ read'[b] = read[b]
    /\ bodyEnded'[b] = bodyEnded[b] /\ pipe'[b] = pipe[b]
    /\ writer'[b] = writer[b] /\ copyDone'[b] = copyDone[b]

LEMMA SameStream ==
    ASSUME StreamInv, NEW b \in Attempts, Same(b), UNCHANGED <<attempt, delivered>>
    PROVE  PipeOf(b)' /\ StreamOf(b)'
  BY DEF StreamInv, PipeOf, StreamOf, Same, Live, InHand, Complete

\* The reader has the stream of a call that was made.
LEMMA ReaderAlonePipe ==
    ASSUME TypeOK, StreamInv, NEW a \in Attempts, ReaderStep(a) \/ BodyEnds(a)
    PROVE  a <= attempt
<1>1. reader[a] # "none"
  BY DEF ReaderStep, BodyEnds, Scan, ScanStops, CheckContext, CountText, CountUsage, Send, SendFails,
        Touch, ReaderEnds
<1> QED
  BY <1>1 DEF StreamInv, StreamOf, TypeOK, Attempts

LEMMA StreamReader ==
    ASSUME Inv, StreamInv, NEW a \in Attempts, ReaderStep(a) \/ BodyEnds(a)
    PROVE  StreamInv'
<1> USE DEF ReaderSteps
<1>0. TypeOK /\ ReaderTypes /\ WriterTypes /\ PipeTypes /\ PipeOf(a) /\ StreamOf(a)
  BY TypesByGroup DEF Inv, StreamInv
<1>1. attempt' = attempt /\ delivered' = delivered /\ copyDone' = copyDone
  <2>1. attempt' = attempt
    BY ReaderFrame DEF OwnersOnly, handler
  <2> QED
    BY <2>1 DEF ReaderStep, BodyEnds, Scan, ScanStops, CheckContext, CountText, CountUsage, Send,
          SendFails, Touch, ReaderEnds, writers
<1>2. ASSUME NEW b \in Attempts, b # a PROVE Same(b)
  BY <1>0, <1>1, <1>2 DEF Same, ReaderTypes, WriterTypes, PipeTypes, ReaderStep, BodyEnds, Scan,
        ScanStops, CheckContext, CountText, CountUsage, Send, SendFails, Touch, ReaderEnds, writers,
        CloseWriteEnd
<1>3. ~(a > attempt)
  BY <1>0, ReaderAlonePipe DEF TypeOK, Attempts
<1>4. copyDone[a] = "nil" => reader[a] = "ended"
  BY <1>0 DEF StreamOf
<1>5. copyDone[a] # "nil"
  BY <1>4 DEF ReaderStep, BodyEnds, Scan, ScanStops, CheckContext, CountText, CountUsage, Send,
        SendFails, Touch, ReaderEnds
<1>6. PipeOf(a)' /\ StreamOf(a)'
  <2>1. CASE Scan(a)
    <3>1. PICK kind \in Kinds : read' = [read EXCEPT ![a] = Append(@, kind)]
      BY <2>1 DEF Scan
    <3>2. read[a] \in Seq(Kinds) /\ read'[a] = Append(read[a], kind)
      BY <1>0, <3>1 DEF ReaderTypes
    <3>3. /\ Len(read'[a]) = Len(read[a]) + 1
          /\ \A i \in 1 .. Len(read[a]) : read'[a][i] = read[a][i]
      BY <3>2
    <3>4. /\ reader[a] = "scan" /\ reader'[a] = "check"
          /\ UNCHANGED <<writeErr, bodyEnded, writer, pipe>>
      BY <1>0, <2>1 DEF Scan, ReaderTypes, writers
    <3>5. Live(a) => Len(delivered) <= Len(read[a])
      BY DEF Inv, ChunksInv
    <3>6. Len(read[a]) \in Nat /\ Len(delivered) \in Nat
      BY <1>0, SequencesTyped
    <3>7. PipeOf(a)'
      BY <1>0, <3>4 DEF PipeOf
    <3>8. Live(a) => \A i \in 1 .. Len(delivered) : delivered[i] = read'[a][i]
      BY <1>0, <3>3, <3>5, <3>6 DEF StreamOf
    <3>9. StreamOf(a)'
      BY <1>0, <1>1, <1>3, <1>5, <3>3, <3>4, <3>6, <3>8 DEF StreamOf, Live, InHand, One
    <3> QED
      BY <3>7, <3>9
  <2>2. CASE Send(a)
    <3>1. /\ writer[a] = "receive" /\ writer'[a] = "write" /\ reader[a] = "send"
          /\ reader'[a] = CASE Chunk(a) = "done" -> "close"
                            [] Chunk(a) = "other" -> "scan"
                            [] OTHER -> "touch"
          /\ UNCHANGED <<writeErr, read, bodyEnded, pipe>>
      BY <1>0, <2>2 DEF Send, ReaderTypes, WriterTypes
    <3>2. read[a] # <<>>
      BY <1>0, <3>1, HandIsFull DEF Live, InHand
    <3>3. writeErr[a] = "nil" /\ pipe[a].writeEnd # "nil"
      BY <1>0, <3>1 DEF PipeOf
    <3>4. reader'[a] = "close" => Complete(read[a], a)
      BY <3>1, <3>2 DEF Complete, Chunk
    <3>5. reader'[a] \in {"close", "scan", "touch"}
      BY <3>1
    <3>6. PipeOf(a)'
      BY <3>1, <3>3, <3>4, <3>5 DEF PipeOf, Complete
    <3>7. StreamOf(a)'
      BY <1>0, <1>1, <1>3, <1>5, <3>1, <3>3, <3>5, SequencesTyped DEF StreamOf, Live, InHand, One
    <3> QED
      BY <3>6, <3>7
  <2>3. CASE ScanStops(a)
    BY <1>0, <1>1, <1>3, <1>5, <2>3
       DEF ScanStops, ReaderTypes, writers, PipeOf, StreamOf, Live, InHand, One, Complete
  <2>4. CASE CheckContext(a)
    BY <1>0, <1>1, <1>3, <1>5, <2>4
       DEF CheckContext, ReaderTypes, writers, PipeOf, StreamOf, Live, InHand, One, Complete
  <2>5. CASE SendFails(a)
    BY <1>0, <1>1, <1>3, <1>5, <2>5
       DEF SendFails, ReaderTypes, writers, PipeOf, StreamOf, Live, InHand, One, Complete
  <2>6. CASE ReaderEnds(a)
    <3>1. /\ reader[a] = "close" /\ reader'[a] = "ended"
          /\ UNCHANGED <<writeErr, read, bodyEnded, writer>>
      BY <1>0, <2>6 DEF ReaderEnds, ReaderTypes, writers
    <3>2. pipe'[a].writeEnd = "nil" => writeErr[a] = "nil"
      BY <1>0, <2>6 DEF ReaderEnds, CloseWriteEnd, PipeTypes, PipeOf
    <3> QED
      BY <1>0, <1>1, <1>3, <1>5, <3>1, <3>2 DEF PipeOf, StreamOf, Live, InHand, One, Complete
  <2>7. CASE CountText(a) \/ CountUsage(a) \/ Touch(a) \/ BodyEnds(a)
    <3>1. /\ reader[a] \notin {"close", "ended"} /\ reader'[a] \notin {"close", "ended"}
          /\ InHand(a)' <=> InHand(a)
          /\ UNCHANGED <<writeErr, read, writer, pipe>>
      BY <1>0, <2>7
         DEF CountText, CountUsage, Touch, BodyEnds, ReaderTypes, writers, InHand
    <3> QED
      BY <1>0, <1>1, <1>3, <1>5, <3>1 DEF PipeOf, StreamOf, Live, One, Complete
  <2> QED
    BY <2>1, <2>2, <2>3, <2>4, <2>5, <2>6, <2>7 DEF ReaderStep
<1> QED
  BY <1>1, <1>2, <1>6, SameStream DEF StreamInv

LEMMA StreamWriter ==
    ASSUME Inv, StreamInv, NEW a \in Attempts, ReceiveStops(a) \/ Write(a) \/ WriteFails(a)
    PROVE  StreamInv'
<1>0. TypeOK /\ WriterTypes /\ PipeTypes /\ PipeOf(a) /\ StreamOf(a)
  BY TypesByGroup DEF Inv, StreamInv
<1>1. attempt' = attempt /\ UNCHANGED <<readers, pipe>>
  BY ReaderFrame DEF WriterStep, OwnersOnly, handler, ReceiveStops, Write, WriteFails
<1>2. Live(a) /\ copyDone[a] = "empty" /\ a = attempt
  BY <1>0 DEF Inv, WritersInv, ReceiveStops, Write, WriteFails, Live, TypeOK
<1>3. \A b \in Attempts : b # a => Same(b) /\ ~Live(b) /\ b # attempt
  BY <1>0, <1>1, <1>2 DEF Same, readers, WriterTypes, ReceiveStops, Write, WriteFails, Inv, WritersInv
<1>4. ASSUME NEW b \in Attempts, b # a PROVE PipeOf(b)' /\ StreamOf(b)'
  BY <1>1, <1>3, <1>4 DEF StreamInv, PipeOf, StreamOf, Same, Live, InHand, Complete
<1>5. PipeOf(a)'
  BY <1>0, <1>1 DEF PipeOf, readers, Complete
<1>6. CASE WriteFails(a)
  <2>1. writer'[a] = "ended" /\ copyDone'[a] = "error"
    BY <1>0, <1>6 DEF WriteFails, WriterTypes
  <2> QED
    BY <1>0, <1>1, <1>4, <1>5, <2>1 DEF StreamInv, StreamOf, Live, readers
<1>7. CASE ReceiveStops(a)
  <2>1. /\ writer[a] = "receive" /\ writer'[a] = "ended" /\ delivered' = delivered
        /\ copyDone'[a] = "nil" => pipe[a].writeEnd = "nil"
    BY <1>0, <1>7 DEF ReceiveStops, WriterTypes
  <2>2. ASSUME copyDone'[a] = "nil"
        PROVE /\ reader[a] = "ended" /\ writeErr[a] = "nil" /\ Complete(read[a], a)
              /\ delivered = read[a]
    <3>1. reader[a] = "ended" /\ writeErr[a] = "nil" /\ Complete(read[a], a)
      BY <1>0, <2>1, <2>2 DEF PipeOf
    <3>2. Len(read[a]) = Len(delivered)
      BY <1>0, <1>2, <2>1, <3>1, SequencesTyped DEF StreamOf, One, InHand
    <3>3. \A i \in 1 .. Len(delivered) : delivered[i] = read[a][i]
      BY <1>0, <1>2 DEF StreamOf
    <3>4. delivered \in Seq(Kinds) /\ read[a] \in Seq(Kinds)
      BY <1>0, SequencesTyped
    <3>5. delivered = read[a]
      BY <3>2, <3>3, <3>4
    <3> QED
      BY <3>1, <3>5
  <2>3. StreamOf(a)'
    BY <1>0, <1>1, <2>1, <2>2 DEF StreamOf, Live, readers, Complete
  <2> QED
    BY <1>4, <1>5, <2>3 DEF StreamInv
<1>8. CASE Write(a)
  <2>1. /\ writer[a] = "write" /\ writer'[a] = "receive" /\ copyDone' = copyDone
        /\ delivered' = Append(delivered, read[a][Len(delivered) + 1])
    BY <1>0, <1>8 DEF Write, WriterTypes
  <2>2. delivered \in Seq(Kinds) /\ Len(delivered) \in Nat
    BY <1>0, SequencesTyped
  <2>3. /\ Len(delivered') = Len(delivered) + 1
        /\ \A i \in 1 .. Len(delivered) : delivered'[i] = delivered[i]
        /\ delivered'[Len(delivered) + 1] = read[a][Len(delivered) + 1]
    BY <2>1, <2>2
  <2>4. \A i \in 1 .. Len(delivered') : delivered'[i] = read[a][i]
    BY <1>0, <1>2, <2>2, <2>3 DEF StreamOf
  <2>5. writeErr[a] = "nil" => Len(read[a]) = Len(delivered') + One(InHand(a))
    BY <1>0, <1>2, <2>1, <2>2, <2>3 DEF StreamOf, One
  <2>6. StreamOf(a)'
    BY <1>0, <1>1, <1>2, <2>1, <2>2, <2>3, <2>4, <2>5 DEF StreamOf, Live, InHand, One, readers
  <2> QED
    BY <1>4, <1>5, <2>6 DEF StreamInv
<1> QED
  BY <1>6, <1>7, <1>8

\* The caller closes the pipe with an error only, or not at all.
LEMMA StreamMoves ==
    ASSUME Inv, StreamInv, HandlerStep, ~StartStream
    PROVE  StreamInv'
<1>0. TypeOK /\ PipeTypes
  BY TypesByGroup DEF Inv
<1>1. UNCHANGED <<attempt, readers, writers>>
  BY DEF HandlerStep, ContextDone, CancelWriteEnd, CancelReadEnd, CancelBody, Drain, CopyDone, CloseBody,
        CloseReadEnd, ReturnPrompt, ReturnCompletion, GiveUp, HandlerReturns
<1>2. \A a \in Attempts : pipe'[a].writeEnd = "nil" => pipe[a].writeEnd = "nil"
  BY <1>0 DEF HandlerStep, ContextDone, CancelWriteEnd, CancelReadEnd, CancelBody, Drain, CopyDone,
        CloseBody, CloseReadEnd, ReturnPrompt, ReturnCompletion, GiveUp, HandlerReturns, CloseWriteEnd,
        PipeTypes
<1> QED
  BY <1>1, <1>2 DEF StreamInv, PipeOf, StreamOf, Live, InHand, Complete, readers, writers

LEMMA StreamStart == ASSUME Inv, StreamInv, StartStream PROVE StreamInv'
<1>0. TypeOK /\ ReaderTypes /\ WriterTypes
  BY TypesByGroup DEF Inv
<1>a. attempt + 1 \in Attempts /\ attempt \in Nat /\ Attempts \subseteq Int
  BY <1>0, StreamAssumption DEF StartStream, TypeOK, Attempts
<1>b. PICK b \in Attempts : b = attempt + 1
  BY <1>a
<1>1. b \in Attempts /\ b > attempt /\ attempt \in Nat /\ Attempts \subseteq Int
  BY <1>a, <1>b
<1>2. /\ attempt' = b /\ pc = "failover"
      /\ reader' = [reader EXCEPT ![b] = "scan"] /\ writer' = [writer EXCEPT ![b] = "receive"]
      /\ delivered' = <<>> /\ Len(delivered') = 0
      /\ UNCHANGED <<writeErr, read, bodyEnded, copyDone, pipe>>
  BY <1>b DEF StartStream, At, Goto
<1>3. reader[b] = "none" /\ read[b] = <<>> /\ copyDone[b] # "nil"
  BY <1>1 DEF StreamInv, StreamOf
<1>4. \A a \in Attempts : ~Live(a)
  BY <1>2 DEF Inv, WritersInv, Waiting
<1>5. ASSUME NEW a \in Attempts, a # b PROVE PipeOf(a)' /\ StreamOf(a)'
  <2>1. reader'[a] = reader[a] /\ writer'[a] = writer[a]
    BY <1>0, <1>2, <1>5 DEF ReaderTypes, WriterTypes
  <2>2. a > b => a > attempt
    BY <1>1, <1>b
  <2>3. ~Live(a)'
    BY <1>4, <2>1 DEF Live
  <2>4. PipeOf(a) /\ StreamOf(a)
    BY DEF StreamInv
  <2> QED
    BY <1>2, <1>5, <2>1, <2>2, <2>3, <2>4 DEF PipeOf, StreamOf, Complete
<1>6. PipeOf(b)' /\ StreamOf(b)'
  <2>1. reader'[b] = "scan" /\ writer'[b] = "receive"
    BY <1>0, <1>1, <1>2 DEF ReaderTypes, WriterTypes
  <2>2. writeErr[b] = "nil" /\ pipe[b].writeEnd # "nil"
    BY <1>1, <1>3 DEF StreamInv, PipeOf
  <2>3. Len(read[b]) = 0 /\ ~(b > b)
    BY <1>1, <1>3
  <2> QED
    BY <1>2, <1>3, <2>1, <2>2, <2>3 DEF PipeOf, StreamOf, Live, InHand, One
<1> QED
  BY <1>5, <1>6 DEF StreamInv

LEMMA StreamStep == Inv /\ StreamInv /\ NilInv /\ [Next]_vars => StreamInv' /\ NilInv'
<1> SUFFICES ASSUME Inv, StreamInv, NilInv, [Next]_vars PROVE StreamInv' /\ NilInv'
  OBVIOUS
<1>0. TypeOK
  BY DEF Inv
<1>1. CASE HandlerStep
  <2>1. StreamInv'
    BY <1>1, StreamMoves, StreamStart
  <2>2. copyDone' = copyDone
    BY <1>1 DEF HandlerStep, StartStream, ContextDone, CancelWriteEnd, CancelReadEnd, CancelBody, Drain,
          CopyDone, CloseBody, CloseReadEnd, ReturnPrompt, ReturnCompletion, GiveUp, HandlerReturns,
          writers
  <2>3. CASE CopyDone
    BY <2>1, <2>2, <2>3 DEF Inv, CallsInv, NilInv, CopyDone, At, Goto, Waiting
  <2>4. CASE ~CopyDone
    BY <1>1, <2>1, <2>2, <2>4 DEF NilInv, HandlerStep, StartStream, ContextDone, CancelWriteEnd, CancelReadEnd,
          CancelBody, Drain, CloseBody, CloseReadEnd, ReturnPrompt, ReturnCompletion, GiveUp,
          HandlerReturns, At, Goto
  <2> QED
    BY <2>1, <2>3, <2>4
<1>2. ASSUME NEW a \in Attempts, ReaderStep(a) \/ WriterStep(a) \/ BodyEnds(a)
      PROVE StreamInv' /\ NilInv'
  <2>1. StreamInv'
    BY <1>2, StreamReader, StreamWriter DEF WriterStep, ReaderStep
  <2>2. UNCHANGED handler
    BY <1>2, ReaderFrame DEF OwnersOnly
  <2>3. ASSUME NEW b \in Attempts, copyDone[b] = "nil" PROVE copyDone'[b] = "nil"
    <3>1. CASE UNCHANGED copyDone
      BY <2>3, <3>1
    <3>2. CASE ReceiveStops(a) \/ WriteFails(a)
      <4>1. copyDone[a] = "empty"
        BY <1>0, <3>2 DEF ReceiveStops, WriteFails, Inv, WritersInv, TypeOK
      <4> QED
        BY <1>0, <2>3, <3>2, <4>1 DEF ReceiveStops, WriteFails, TypeOK
    <3> QED
      BY <1>2, <3>1, <3>2 DEF WriterStep, ReaderStep, BodyEnds, Scan, ScanStops, CheckContext, CountText,
            CountUsage, Send, SendFails, Touch, ReaderEnds, Write, writers
  <2> QED
    BY <2>1, <2>2, <2>3 DEF NilInv, handler
<1>3. CASE UNCHANGED <<handler, readers, writers, pipe>>
  BY <1>3 DEF StreamInv, PipeOf, StreamOf, NilInv, Live, InHand, Complete, handler, readers, writers
<1> QED
  BY <1>1, <1>2, <1>3 DEF Next, GoIdle, Cleanup, Break, Cancel, Stop, vars

------------------------------------------------------------------------------
(***************************************************************************)
(* What a reader counts.  CountedIn is a fold over the positions of a      *)
(* sequence from the last to the first: it is what Counting makes of each  *)
(* chunk in turn.                                                          *)
(***************************************************************************)
\* The order of the natural numbers, as the library's induction knows it.
LEMMA LessIsWellFounded ==
    IsWellFoundedOn({ss \in Nat \X Nat : ss[1] < ss[2]}, Nat)
  BY NatLessThanWellFounded DEF OpToRel

\* Induction over Nat, with a set for the property.
LEMMA Induction ==
    ASSUME NEW P, 0 \in P, \A n \in Nat : n \in P => n + 1 \in P
    PROVE  Nat \subseteq P
<1> DEFINE Outside == Nat \ P
           Less == {ss \in Nat \X Nat : ss[1] < ss[2]}
<1>1. SUFFICES ASSUME Outside # {} PROVE FALSE
  OBVIOUS
<1>2. Outside \subseteq Nat
  OBVIOUS
<1>3. \E n \in Outside : \A m \in Outside : <<m, n>> \notin Less
  <2>1. IsWellFoundedOn(Less, Nat)
    BY LessIsWellFounded
  <2> HIDE DEF Outside, Less
  <2> QED
    BY <1>1, <1>2, <2>1, WFMin
<1>4. PICK n \in Outside : \A m \in Outside : <<m, n>> \notin Less
  BY <1>3
<1>5. n \in Nat /\ n # 0
  OBVIOUS
<1>6. n - 1 \in Nat /\ n - 1 < n /\ (n - 1) + 1 = n
  BY <1>5
<1>7. n - 1 \in Outside
  BY <1>4, <1>6
<1> QED
  BY <1>4, <1>6, <1>7

\* What the reader does to its counts for one chunk.
Counting(counts, chunk) ==
    CASE chunk = "text" -> [counts EXCEPT !.completion = @ + 1]
      [] chunk = "usage" -> Usage
      [] OTHER -> counts

\* The function FoldLeft chooses: the counts of the chunks at the positions in s.
Tally(p, S, g) ==
    g = [s \in SUBSET S |-> IF s = {} THEN NoTokens
                            ELSE Counting(g[s \ {Max(s)}], p[Max(s)])]

LEMMA CountedInDef ==
    ASSUME NEW p
    PROVE  CountedIn(p) = (CHOOSE g : Tally(p, DOMAIN p, g))[DOMAIN p]
  BY DEF CountedIn, FoldLeft, MapThenFoldSet, Tally, Counting

LEMMA TallyAt ==
    ASSUME NEW p, NEW S, NEW g, Tally(p, S, g), NEW s \in SUBSET S
    PROVE  g[s] = IF s = {} THEN NoTokens ELSE Counting(g[s \ {Max(s)}], p[Max(s)])
  BY DEF Tally

LEMMA TallyTop ==
    ASSUME NEW p, NEW S, NEW g, Tally(p, S, g), S # {}
    PROVE  g[S] = Counting(g[S \ {Max(S)}], p[Max(S)])
<1>1. S \in SUBSET S
  OBVIOUS
<1> QED
  BY <1>1 DEF Tally

LEMMA MaxIs ==
    ASSUME NEW n \in Nat, NEW s \in SUBSET (1 .. n + 1), n + 1 \in s
    PROVE  Max(s) = n + 1 /\ s \ {Max(s)} \in SUBSET (1 .. n)
<1>1. \A y \in s : y \in Int /\ n + 1 >= y
  OBVIOUS
<1>2. Max(s) \in s /\ \A y \in s : Max(s) >= y
  BY <1>1 DEF Max
<1>3. Max(s) \in Int /\ n + 1 >= Max(s) /\ Max(s) >= n + 1
  BY <1>1, <1>2
<1>4. Max(s) = n + 1
  BY <1>3
<1> QED
  BY <1>4

\* A tally of the first n positions, and one more.
LEMMA TallyExists ==
    ASSUME NEW p, NEW n \in Nat
    PROVE  \E g : Tally(p, 1 .. n, g)
<1> DEFINE P == {m \in Nat : \E g : Tally(p, 1 .. m, g)}
<1>1. 0 \in P
  <2> DEFINE g == [s \in SUBSET (1 .. 0) |-> NoTokens]
  <2>1. \A s \in SUBSET (1 .. 0) : s = {}
    OBVIOUS
  <2>2. Tally(p, 1 .. 0, g)
    BY <2>1 DEF Tally
  <2> HIDE DEF g
  <2> QED
    BY <2>2
<1>2. ASSUME NEW m \in Nat, m \in P PROVE m + 1 \in P
  <2>1. PICK g : Tally(p, 1 .. m, g)
    BY <1>2
  <2> DEFINE S == SUBSET (1 .. m + 1)
             Q == SUBSET (1 .. m)
             h == [s \in S |-> IF s \in Q THEN g[s] ELSE Counting(g[s \ {m + 1}], p[m + 1])]
             k == [s \in S |-> IF s = {} THEN NoTokens ELSE Counting(h[s \ {Max(s)}], p[Max(s)])]
  <2>2. ASSUME NEW s \in S PROVE h[s] = k[s]
    <3>1. CASE s \in Q
      <4>1. h[s] = g[s]
        BY <3>1
      <4>2. s \ {Max(s)} \in Q /\ s \ {Max(s)} \in S
        BY <3>1
      <4>3. h[s \ {Max(s)}] = g[s \ {Max(s)}]
        BY <4>2
      <4>4. g[s] = IF s = {} THEN NoTokens ELSE Counting(g[s \ {Max(s)}], p[Max(s)])
        <5> DEFINE D == 1 .. m
        <5>1. s \in SUBSET D /\ Tally(p, D, g)
          BY <2>1, <3>1
        <5> HIDE DEF D, S, Q, h, k
        <5> QED
          BY <5>1, TallyAt
      <4> QED
        BY <4>1, <4>3, <4>4
    <3>2. CASE s \notin Q
      <4>1. m + 1 \in s
        BY <3>2
      <4>2. Max(s) = m + 1 /\ s \ {Max(s)} \in Q
        BY <4>1, MaxIs
      <4>3. s \ {m + 1} \in Q /\ s \ {m + 1} \in S /\ s # {}
        BY <4>1, <4>2
      <4>4. h[s \ {m + 1}] = g[s \ {m + 1}]
        BY <4>3
      <4> QED
        BY <3>2, <4>2, <4>3, <4>4
    <3> QED
      BY <3>1, <3>2
  <2>3. h = k
    BY <2>2
  <2>4. Tally(p, 1 .. m + 1, h)
    BY <2>3 DEF Tally
  <2> HIDE DEF h
  <2> QED
    BY <2>4
<1>3. Nat \subseteq P
  <2> HIDE DEF P
  <2> QED
    BY <1>1, <1>2, Induction
<1> QED
  BY <1>3

\* Two sequences with the same first n chunks have the same tally of them.
LEMMA TallyUnique ==
    ASSUME NEW p, NEW q, NEW n \in Nat, NEW S, NEW T, NEW g, NEW h,
           Tally(p, S, g), Tally(q, T, h), 1 .. n \subseteq S, 1 .. n \subseteq T,
           \A i \in 1 .. n : p[i] = q[i]
    PROVE  g[1 .. n] = h[1 .. n]
<1> DEFINE P == {m \in Nat : m <= n => g[1 .. m] = h[1 .. m]}
<1>1. 0 \in P
  <2>1. 1 .. 0 = {}
    OBVIOUS
  <2>2. g[{}] = NoTokens /\ h[{}] = NoTokens
    BY TallyAt
  <2> QED
    BY <2>1, <2>2
<1>2. ASSUME NEW m \in Nat, m \in P PROVE m + 1 \in P
  <2>1. SUFFICES ASSUME m + 1 <= n PROVE g[1 .. m + 1] = h[1 .. m + 1]
    OBVIOUS
  <2> DEFINE s == 1 .. m + 1
  <2>2. m + 1 \in s /\ s \in SUBSET (1 .. m + 1) /\ s \ {m + 1} = 1 .. m /\ m + 1 \in 1 .. n
    BY <2>1
  <2>a. Max(s) = m + 1
    BY <2>2, MaxIs
  <2>3. s \in SUBSET S /\ s \in SUBSET T
    BY <2>1
  <2>4. g[s] = Counting(g[1 .. m], p[m + 1])
    <3>1. g[s] = Counting(g[s \ {Max(s)}], p[Max(s)])
      <4> HIDE DEF s
      <4> QED
        BY <2>2, <2>3, TallyAt
    <3> QED
      BY <2>2, <2>a, <3>1
  <2>5. h[s] = Counting(h[1 .. m], q[m + 1])
    <3>1. h[s] = Counting(h[s \ {Max(s)}], q[Max(s)])
      <4> HIDE DEF s
      <4> QED
        BY <2>2, <2>3, TallyAt
    <3> QED
      BY <2>2, <2>a, <3>1
  <2>6. g[1 .. m] = h[1 .. m] /\ p[m + 1] = q[m + 1]
    BY <1>2, <2>1, <2>2
  <2> QED
    BY <2>4, <2>5, <2>6
<1>3. Nat \subseteq P
  <2> HIDE DEF P
  <2> QED
    BY <1>1, <1>2, Induction
<1> QED
  BY <1>3

LEMMA CountedIs ==
    ASSUME NEW p \in Seq(Kinds), NEW g, Tally(p, 1 .. Len(p), g)
    PROVE  CountedIn(p) = g[1 .. Len(p)]
<1> DEFINE c == CHOOSE h : Tally(p, DOMAIN p, h)
<1>1. DOMAIN p = 1 .. Len(p) /\ Len(p) \in Nat
  OBVIOUS
<1>2. Tally(p, 1 .. Len(p), c)
  BY <1>1
<1> HIDE DEF c
<1>3. c[1 .. Len(p)] = g[1 .. Len(p)]
  <2> DEFINE n == Len(p)
  <2>1. n \in Nat /\ Tally(p, 1 .. n, c) /\ Tally(p, 1 .. n, g)
    BY <1>1, <1>2
  <2> HIDE DEF n
  <2>2. c[1 .. n] = g[1 .. n]
    BY <2>1, TallyUnique
  <2> QED
    BY <2>2 DEF n
<1> QED
  BY <1>1, <1>3, CountedInDef DEF c

\* The reader begins with no tokens.
LEMMA CountedNone == CountedIn(<<>>) = NoTokens
<1>1. <<>> \in Seq(Kinds) /\ Len(<<>>) = 0 /\ 1 .. 0 = {}
  OBVIOUS
<1>2. PICK g : Tally(<<>>, 1 .. 0, g)
  BY TallyExists
<1>3. CountedIn(<<>>) = g[{}]
  BY <1>1, <1>2, CountedIs
<1>4. g[{}] = NoTokens
  BY <1>2, TallyAt
<1> QED
  BY <1>3, <1>4

\* It counts one chunk after the other.
LEMMA CountedAppend ==
    ASSUME NEW p \in Seq(Kinds), NEW chunk \in Kinds
    PROVE  CountedIn(Append(p, chunk)) = Counting(CountedIn(p), chunk)
<1> DEFINE n == Len(p)
           q == Append(p, chunk)
<1>1. /\ n \in Nat /\ q \in Seq(Kinds) /\ Len(q) = n + 1 /\ q[n + 1] = chunk
      /\ \A i \in 1 .. n : p[i] = q[i]
  OBVIOUS
<1> HIDE DEF n, q
<1>2. PICK g : Tally(p, 1 .. n, g)
  BY <1>1, TallyExists
<1>3. PICK h : Tally(q, 1 .. n + 1, h)
  <2>1. n + 1 \in Nat
    BY <1>1
  <2> QED
    BY <2>1, TallyExists
<1>4. CountedIn(p) = g[1 .. n]
  BY <1>2, CountedIs DEF n
<1>5. CountedIn(q) = h[1 .. n + 1]
  BY <1>1, <1>3, CountedIs
<1>6. g[1 .. n] = h[1 .. n]
  <2>1. 1 .. n \subseteq 1 .. n /\ 1 .. n \subseteq 1 .. n + 1
    BY <1>1
  <2> QED
    BY <1>1, <1>2, <1>3, <2>1, TallyUnique
<1>7. h[1 .. n + 1] = Counting(h[1 .. n], chunk)
  <2> DEFINE s == 1 .. n + 1
  <2>1. n + 1 \in s /\ s \in SUBSET (1 .. n + 1) /\ s \ {n + 1} = 1 .. n
    BY <1>1
  <2>a. Max(s) = n + 1
    BY <1>1, <2>1, MaxIs
  <2>2. h[s] = Counting(h[1 .. n], q[n + 1])
    <3>1. h[s] = Counting(h[s \ {Max(s)}], q[Max(s)])
      <4>1. Tally(q, s, h) /\ s # {}
        BY <1>3, <2>1
      <4> HIDE DEF s
      <4> QED
        BY <4>1, TallyTop
    <3> QED
      BY <2>1, <2>a, <3>1
  <2> QED
    BY <1>1, <2>2
<1> QED
  BY <1>4, <1>5, <1>6, <1>7 DEF q

------------------------------------------------------------------------------
(* The counts a call returns *)

Upto(p, m) == CountedIn(SubSeq(p, 1, m))

\* The reader has a chunk that is not counted yet, or not entirely.
Uncounted(a) == reader[a] \in {"check", "count", "countRest"}

\* Reader a has counted the first m of the chunks it has read, and at least those
\* that the client has, or is being written.
HasCounted(a, m) ==
    /\ Uncounted(a) => m + 1 = Len(read[a])
    /\ ~ Uncounted(a) /\ writeErr[a] = "nil" => m = Len(read[a])
    /\ a = attempt => Len(delivered) + One(writer[a] = "write") <= m
    /\ result[a].completion = Upto(read[a], m).completion
    /\ reader[a] # "countRest" => result[a].prompt = Upto(read[a], m).prompt
    /\ reader[a] = "countRest" => result[a].prompt = Usage.prompt /\ Chunk(a) = "usage"

CountsInv == \A a \in Attempts : \E m \in 0 .. Len(read[a]) : HasCounted(a, m)

\* What the caller has copied of the counts, and what it copied of a whole stream.
PromptCopied(m) == streamResult.prompt = Upto(read[attempt], m).prompt
CompletionCopied(m) == streamResult.completion = Upto(read[attempt], m).completion

Covering == Len(delivered) .. Len(read[attempt])

CopiedInv ==
    /\ attempt # 0 /\ pc \in {"completion", "failover", "settle", "over"} =>
          \E m \in Covering : PromptCopied(m)
    /\ attempt # 0 /\ pc \in {"failover", "settle", "over"} =>
          \E m \in Covering : CompletionCopied(m)
    /\ streamErr = "nil" /\ pc \in {"completion", "settle", "over"} => PromptCopied(Len(read[attempt]))
    /\ streamErr = "nil" /\ pc \in {"settle", "over"} => CompletionCopied(Len(read[attempt]))

LEMMA UptoStays ==
    ASSUME NEW p \in Seq(Kinds), NEW chunk \in Kinds, NEW m \in 0 .. Len(p)
    PROVE  Upto(Append(p, chunk), m) = Upto(p, m)
<1>1. SubSeq(Append(p, chunk), 1, m) = SubSeq(p, 1, m)
  OBVIOUS
<1> QED
  BY <1>1 DEF Upto

LEMMA UptoAll ==
    ASSUME NEW p \in Seq(Kinds)
    PROVE  Upto(p, Len(p)) = CountedIn(p)
<1>1. SubSeq(p, 1, Len(p)) = p
  OBVIOUS
<1> QED
  BY <1>1 DEF Upto

LEMMA LastApart ==
    ASSUME NEW p \in Seq(Kinds), NEW m \in Nat, Len(p) = m + 1
    PROVE  /\ SubSeq(p, 1, m) \in Seq(Kinds) /\ Len(SubSeq(p, 1, m)) = m
           /\ p[m + 1] \in Kinds /\ Last(p) = p[m + 1]
           /\ p = Append(SubSeq(p, 1, m), p[m + 1])
<1>1. m + 1 \in 1 .. Len(p)
  OBVIOUS
<1>2. p[m + 1] \in Kinds
  BY <1>1
<1>3. SubSeq(p, 1, m) \in Seq(Kinds) /\ Len(SubSeq(p, 1, m)) = m
  OBVIOUS
<1>4. p = Append(SubSeq(p, 1, m), p[m + 1])
  BY <1>2, <1>3
<1> QED
  BY <1>2, <1>3, <1>4 DEF Last

\* One more chunk counted, the last one read.
LEMMA UptoNext ==
    ASSUME NEW p \in Seq(Kinds), NEW m \in Nat, Len(p) = m + 1
    PROVE  Upto(p, m + 1) = Counting(Upto(p, m), Last(p))
<1>1. CountedIn(p) = Counting(Upto(p, m), Last(p))
  <2> DEFINE f == SubSeq(p, 1, m)
  <2>1. f \in Seq(Kinds) /\ Last(p) \in Kinds /\ p = Append(f, Last(p))
    BY LastApart
  <2> HIDE DEF f
  <2>2. CountedIn(p) = Counting(CountedIn(f), Last(p))
    BY <2>1, CountedAppend
  <2> QED
    BY <2>2 DEF f, Upto
<1> QED
  BY <1>1, UptoAll

LEMMA CountingIs ==
    ASSUME NEW c \in Counts, NEW chunk \in Kinds
    PROVE  /\ Counting(c, chunk) \in Counts
           /\ chunk = "text" => /\ Counting(c, chunk).completion = c.completion + 1
                                /\ Counting(c, chunk).prompt = c.prompt
           /\ chunk = "usage" => Counting(c, chunk) = Usage
           /\ chunk \in {"done", "other"} => Counting(c, chunk) = c
  BY StreamAssumption DEF Counting, Counts, Kinds

\* Whatever is counted are counts.
LEMMA CountedTyped ==
    ASSUME NEW p \in Seq(Kinds)
    PROVE  CountedIn(p) \in Counts
<1> DEFINE P == {n \in Nat : \A q \in Seq(Kinds) : Len(q) = n => CountedIn(q) \in Counts}
<1>1. 0 \in P
  <2>1. \A q \in Seq(Kinds) : Len(q) = 0 => q = <<>>
    OBVIOUS
  <2> QED
    BY <2>1, CountedNone, CountsTyped
<1>2. ASSUME NEW n \in Nat, n \in P PROVE n + 1 \in P
  <2>1. SUFFICES ASSUME NEW q \in Seq(Kinds), Len(q) = n + 1 PROVE CountedIn(q) \in Counts
    OBVIOUS
  <2> DEFINE f == SubSeq(q, 1, n)
  <2>2. f \in Seq(Kinds) /\ Len(f) = n /\ Last(q) \in Kinds /\ q = Append(f, Last(q))
    BY <2>1, LastApart
  <2> HIDE DEF f
  <2>3. CountedIn(f) \in Counts
    BY <1>2, <2>2
  <2>4. CountedIn(q) = Counting(CountedIn(f), Last(q))
    BY <2>2, CountedAppend
  <2> QED
    BY <2>2, <2>3, <2>4, CountingIs
<1>3. Nat \subseteq P
  <2> HIDE DEF P
  <2> QED
    BY <1>1, <1>2, Induction
<1>4. Len(p) \in Nat
  OBVIOUS
<1> QED
  BY <1>3, <1>4

LEMMA UptoTyped ==
    ASSUME NEW p \in Seq(Kinds), NEW m \in 0 .. Len(p)
    PROVE  Upto(p, m) \in Counts
<1>1. SubSeq(p, 1, m) \in Seq(Kinds)
  OBVIOUS
<1> QED
  BY <1>1, CountedTyped DEF Upto

LEMMA InitCounts == Init => CountsInv /\ CopiedInv
<1> SUFFICES ASSUME Init PROVE CountsInv /\ CopiedInv
  OBVIOUS
<1>1. ASSUME NEW a \in Attempts PROVE HasCounted(a, 0) /\ 0 \in 0 .. Len(read[a])
  <2>1. read[a] = <<>> /\ result[a] = NoTokens /\ reader[a] = "none" /\ writer[a] = "none"
    BY DEF Init
  <2>2. Len(read[a]) = 0 /\ Len(delivered) = 0
    BY <2>1 DEF Init
  <2>3. Upto(read[a], 0) = NoTokens
    <3>1. <<>> \in Seq(Kinds) /\ Len(<<>>) = 0
      OBVIOUS
    <3> QED
      BY <2>1, <3>1, UptoAll, CountedNone
  <2> QED
    BY <2>1, <2>2, <2>3 DEF HasCounted, Uncounted, One
<1>2. CountsInv
  BY <1>1 DEF CountsInv
<1>3. CopiedInv
  BY DEF Init, CopiedInv
<1> QED
  BY <1>2, <1>3

\* What the other calls' counts are made of.
SameCounts(b) ==
    /\ reader'[b] = reader[b] /\ writeErr'[b] = writeErr[b] /\ read'[b] = read[b]
    /\ result'[b] = result[b]

LEMMA SameCounted ==
    ASSUME NEW b \in Attempts, SameCounts(b),
           \/ UNCHANGED <<attempt, delivered>> /\ writer'[b] = writer[b]
           \/ b # attempt',
           \E m \in 0 .. Len(read[b]) : HasCounted(b, m)
    PROVE  (\E m \in 0 .. Len(read[b]) : HasCounted(b, m))'
<1>1. PICK m \in 0 .. Len(read[b]) : HasCounted(b, m)
  OBVIOUS
<1>2. HasCounted(b, m)' /\ m \in 0 .. Len(read'[b])
  BY <1>1 DEF HasCounted, Uncounted, SameCounts, Chunk
<1> QED
  BY <1>2

LEMMA CountsReader ==
    ASSUME Inv, StreamInv, CountsInv, NEW a \in Attempts, ReaderStep(a) \/ BodyEnds(a)
    PROVE  CountsInv'
<1>0. TypeOK /\ ReaderTypes /\ WriterTypes /\ PipeOf(a)
  BY TypesByGroup DEF Inv, StreamInv
<1>1. attempt' = attempt /\ delivered' = delivered
  <2>1. attempt' = attempt
    BY ReaderFrame DEF OwnersOnly, handler
  <2> QED
    BY <2>1 DEF ReaderStep, BodyEnds, Scan, ScanStops, CheckContext, CountText, CountUsage, Send,
          SendFails, Touch, ReaderEnds, writers
<1>2. ASSUME NEW b \in Attempts, b # a PROVE SameCounts(b) /\ writer'[b] = writer[b]
  BY <1>0, <1>2 DEF SameCounts, ReaderTypes, WriterTypes, ReaderStep, BodyEnds, Scan, ScanStops,
        CheckContext, CountText, CountUsage, Send, SendFails, Touch, ReaderEnds, writers
<1>3. PICK m \in 0 .. Len(read[a]) : HasCounted(a, m)
  BY DEF CountsInv
<1> DEFINE p == read[a]
<1>4. p \in Seq(Kinds) /\ Len(p) \in Nat /\ m \in Nat /\ Len(delivered) \in Nat
  BY <1>0, SequencesTyped
<1>5. \E n \in 0 .. Len(read'[a]) : HasCounted(a, n)'
  <2>1. CASE Scan(a)
    <3>1. PICK kind \in Kinds : read' = [read EXCEPT ![a] = Append(@, kind)]
      BY <2>1 DEF Scan
    <3>2. read'[a] = Append(p, kind) /\ Len(read'[a]) = Len(p) + 1
      BY <1>0, <1>4, <3>1 DEF ReaderTypes
    <3>3. /\ reader[a] = "scan" /\ reader'[a] = "check"
          /\ UNCHANGED <<writeErr, result, writer>>
      BY <1>0, <2>1 DEF Scan, ReaderTypes, writers
    <3>4. m = Len(p)
      BY <1>0, <1>3, <3>3 DEF HasCounted, Uncounted, PipeOf
    <3>5. Upto(read'[a], m) = Upto(p, m)
      BY <1>4, <3>2, UptoStays
    <3>6. HasCounted(a, m)'
      BY <1>1, <1>3, <3>2, <3>3, <3>4, <3>5 DEF HasCounted, Uncounted
    <3> QED
      BY <1>4, <3>2, <3>6
  <2>2. CASE Send(a)
    <3>1. /\ writer[a] = "receive" /\ writer'[a] = "write" /\ reader[a] = "send"
          /\ reader'[a] \in {"close", "scan", "touch"}
          /\ UNCHANGED <<writeErr, read, result>>
      BY <1>0, <2>2 DEF Send, ReaderTypes, WriterTypes
    <3>2. m = Len(p)
      BY <1>0, <1>3, <3>1 DEF HasCounted, Uncounted, PipeOf
    <3>3. Len(delivered) + 1 <= Len(p)
      BY <3>1 DEF Inv, ChunksInv, Live, InHand
    <3>4. HasCounted(a, m)'
      BY <1>1, <1>3, <3>1, <3>2, <3>3 DEF HasCounted, Uncounted, One
    <3> QED
      BY <1>3, <3>1, <3>4
  <2>3. CASE CheckContext(a)
    <3>1. reader[a] = "check" /\ UNCHANGED <<read, result, writer>> /\ m + 1 = Len(p)
      BY <1>3, <2>3 DEF CheckContext, writers, HasCounted, Uncounted
    <3>2. CASE reader'[a] \in {"close", "count"}
      <4>1. reader'[a] = "close" => writeErr'[a] = "error"
        BY <1>0, <2>3 DEF CheckContext, ReaderTypes
      <4>2. HasCounted(a, m)'
        BY <1>1, <1>3, <3>1, <3>2, <4>1 DEF HasCounted, Uncounted
      <4> QED
        BY <1>3, <3>1, <4>2
    <3>3. CASE reader'[a] = "send" /\ Chunk(a) \in {"done", "other"}
      <4>1. Upto(p, m + 1) = Upto(p, m)
        BY <1>3, <1>4, <3>1, <3>3, UptoNext, UptoTyped, CountingIs, LastApart DEF Chunk
      <4>2. HasCounted(a, m + 1)'
        BY <1>1, <1>3, <1>4, <3>1, <3>3, <4>1 DEF HasCounted, Uncounted, One
      <4> QED
        BY <1>4, <3>1, <4>2
    <3>4. Chunk(a) \in Kinds
      BY <1>4, <3>1, LastApart DEF Chunk
    <3> QED
      BY <1>0, <2>3, <3>2, <3>3, <3>4 DEF CheckContext, ReaderTypes, Kinds
  <2>4. CASE CountText(a)
    <3>1. /\ reader[a] = "count" /\ Chunk(a) = "text" /\ reader'[a] = "send"
          /\ UNCHANGED <<read, writeErr, writer>> /\ m + 1 = Len(p)
      BY <1>0, <1>3, <2>4 DEF CountText, writers, HasCounted, Uncounted, ReaderTypes
    <3>2. /\ result'[a].completion = result[a].completion + 1
          /\ result'[a].prompt = result[a].prompt
      BY <1>0, <2>4 DEF CountText, ReaderTypes, Counts
    <3>3. /\ Upto(p, m + 1).completion = Upto(p, m).completion + 1
          /\ Upto(p, m + 1).prompt = Upto(p, m).prompt
      <4>1. Upto(p, m + 1) = Counting(Upto(p, m), "text")
        BY <1>4, <3>1, UptoNext DEF Chunk
      <4>2. Upto(p, m) \in Counts /\ "text" \in Kinds
        BY <1>4, UptoTyped DEF Kinds
      <4> QED
        BY <4>1, <4>2, CountingIs
    <3>4. HasCounted(a, m + 1)'
      BY <1>1, <1>3, <1>4, <3>1, <3>2, <3>3 DEF HasCounted, Uncounted, One
    <3> QED
      BY <1>4, <3>1, <3>4
  <2>5. CASE CountUsage(a) /\ reader[a] = "count"
    <3>1. /\ reader[a] = "count" /\ Chunk(a) = "usage" /\ reader'[a] = "countRest"
          /\ UNCHANGED <<read, writeErr, writer>>
          /\ result'[a].completion = result[a].completion /\ result'[a].prompt = Usage.prompt
      BY <1>0, <2>5 DEF CountUsage, writers, ReaderTypes, Counts
    <3>2. HasCounted(a, m)'
      BY <1>1, <1>3, <3>1 DEF HasCounted, Uncounted, Chunk
    <3> QED
      BY <1>3, <3>1, <3>2
  <2>6. CASE CountUsage(a) /\ reader[a] = "countRest"
    <3>1. /\ Chunk(a) = "usage" /\ reader'[a] = "send"
          /\ UNCHANGED <<read, writeErr, writer>> /\ m + 1 = Len(p)
          /\ result'[a].completion = Usage.completion /\ result'[a].prompt = result[a].prompt
          /\ result[a].prompt = Usage.prompt
      BY <1>0, <1>3, <2>6 DEF CountUsage, writers, HasCounted, Uncounted, ReaderTypes, Counts
    <3>2. Upto(p, m + 1) = Usage
      BY <1>3, <1>4, <3>1, UptoNext, UptoTyped, CountingIs, LastApart DEF Chunk
    <3>3. HasCounted(a, m + 1)'
      BY <1>1, <1>3, <1>4, <3>1, <3>2 DEF HasCounted, Uncounted, One
    <3> QED
      BY <1>4, <3>1, <3>3
  <2>7. CASE ScanStops(a) \/ SendFails(a) \/ Touch(a) \/ ReaderEnds(a) \/ BodyEnds(a)
    <3>1. /\ ~ Uncounted(a) /\ ~ Uncounted(a)'
          /\ UNCHANGED <<read, result, writer>>
      BY <1>0, <2>7 DEF ScanStops, SendFails, Touch, ReaderEnds, BodyEnds, Uncounted, ReaderTypes, writers
    <3>2. writeErr'[a] = "nil" => writeErr[a] = "nil"
      BY <1>0, <2>7 DEF ScanStops, SendFails, Touch, ReaderEnds, BodyEnds, ReaderTypes, PipeOf
    <3>3. HasCounted(a, m)'
      BY <1>1, <1>3, <3>1, <3>2 DEF HasCounted, Uncounted
    <3> QED
      BY <1>3, <3>1, <3>3
  <2> QED
    BY <2>1, <2>2, <2>3, <2>4, <2>5, <2>6, <2>7 DEF ReaderStep, CountUsage
<1>6. ASSUME NEW b \in Attempts, b # a
      PROVE (\E n \in 0 .. Len(read[b]) : HasCounted(b, n))'
  BY <1>1, <1>2, <1>6, SameCounted DEF CountsInv
<1> QED
  BY <1>5, <1>6 DEF CountsInv

LEMMA CountsWriter ==
    ASSUME Inv, CountsInv, NEW a \in Attempts, ReceiveStops(a) \/ Write(a) \/ WriteFails(a)
    PROVE  CountsInv'
<1>0. TypeOK /\ WriterTypes
  BY TypesByGroup DEF Inv
<1>1. attempt' = attempt /\ UNCHANGED readers
  BY ReaderFrame DEF WriterStep, OwnersOnly, handler, ReceiveStops, Write, WriteFails
<1>2. Live(a) /\ a = attempt
  BY DEF Inv, WritersInv, ReceiveStops, Write, WriteFails, Live
<1>3. \A b \in Attempts : SameCounts(b)
  BY <1>1 DEF SameCounts, readers
<1>4. ASSUME NEW b \in Attempts, b # a
      PROVE (\E n \in 0 .. Len(read[b]) : HasCounted(b, n))'
  BY <1>1, <1>2, <1>3, <1>4, SameCounted DEF CountsInv
<1>5. PICK m \in 0 .. Len(read[a]) : HasCounted(a, m)
  BY DEF CountsInv
<1>6. Len(delivered') + One(writer'[a] = "write") <= m
  <2>1. Len(delivered) \in Nat /\ m \in Nat /\ Len(delivered) + One(writer[a] = "write") <= m
    BY <1>0, <1>2, <1>5, SequencesTyped DEF HasCounted
  <2>2. CASE Write(a)
    <3>1. writer[a] = "write" /\ writer'[a] = "receive" /\ Len(delivered') = Len(delivered) + 1
      BY <1>0, <2>2 DEF Write, WriterTypes
    <3> QED
      BY <2>1, <3>1 DEF One
  <2>3. CASE ReceiveStops(a) \/ WriteFails(a)
    <3>1. writer'[a] = "ended" /\ delivered' = delivered
      BY <1>0, <2>3 DEF ReceiveStops, WriteFails, WriterTypes
    <3> QED
      BY <2>1, <3>1 DEF One
  <2> QED
    BY <2>2, <2>3
<1>7. HasCounted(a, m)' /\ m \in 0 .. Len(read'[a])
  BY <1>1, <1>5, <1>6 DEF HasCounted, Uncounted, Chunk, readers
<1> QED
  BY <1>4, <1>7 DEF CountsInv

LEMMA CountsStart == ASSUME Inv, StreamInv, CountsInv, StartStream PROVE CountsInv'
<1>0. TypeOK /\ ReaderTypes /\ WriterTypes
  BY TypesByGroup DEF Inv
<1>a. attempt + 1 \in Attempts /\ attempt \in Nat /\ Attempts \subseteq Int
  BY <1>0, StreamAssumption DEF StartStream, TypeOK, Attempts
<1>b. PICK b \in Attempts : b = attempt + 1
  BY <1>a
<1>1. b > attempt
  BY <1>a, <1>b
<1>2. /\ attempt' = b
      /\ reader' = [reader EXCEPT ![b] = "scan"] /\ writer' = [writer EXCEPT ![b] = "receive"]
      /\ delivered' = <<>> /\ Len(delivered') = 0
      /\ UNCHANGED <<writeErr, read, result>>
  BY <1>b DEF StartStream, At, Goto
<1>3. reader[b] = "none" /\ read[b] = <<>>
  BY <1>1 DEF StreamInv, StreamOf
<1>4. ASSUME NEW a \in Attempts, a # b
      PROVE (\E n \in 0 .. Len(read[a]) : HasCounted(a, n))'
  <2>1. SameCounts(a) /\ a # attempt'
    BY <1>0, <1>2, <1>4 DEF SameCounts, ReaderTypes
  <2> QED
    BY <2>1, SameCounted DEF CountsInv
<1>5. PICK m \in 0 .. Len(read[b]) : HasCounted(b, m)
  BY DEF CountsInv
<1>6. HasCounted(b, m)'
  <2>1. reader'[b] = "scan" /\ writer'[b] = "receive"
    BY <1>0, <1>2 DEF ReaderTypes, WriterTypes
  <2>2. Len(read[b]) = 0 /\ m = 0
    BY <1>3
  <2> QED
    BY <1>2, <1>3, <1>5, <2>1, <2>2 DEF HasCounted, Uncounted, One
<1> QED
  BY <1>2, <1>4, <1>5, <1>6 DEF CountsInv

LEMMA CountsMoves ==
    ASSUME CountsInv, UNCHANGED <<attempt, readers, writers>>
    PROVE  CountsInv'
<1>1. ASSUME NEW b \in Attempts PROVE (\E n \in 0 .. Len(read[b]) : HasCounted(b, n))'
  <2>1. SameCounts(b) /\ UNCHANGED <<attempt, delivered>> /\ writer'[b] = writer[b]
    BY DEF SameCounts, readers, writers
  <2> QED
    BY <2>1, SameCounted DEF CountsInv
<1> QED
  BY <1>1 DEF CountsInv

\* No stream that returned nil is still being read.
LEMMA NilIsRead ==
    ASSUME StreamInv, NilInv, streamErr = "nil"
    PROVE  attempt \in Attempts /\ reader[attempt] = "ended" /\ writeErr[attempt] = "nil"
  BY DEF StreamInv, StreamOf, NilInv

LEMMA PositionsTyped ==
    ASSUME TypeOK
    PROVE  \A a \in Attempts : \A m \in 0 .. Len(read[a]) : m \in Nat /\ Len(read[a]) \in Nat
  BY DEF TypeOK

LEMMA CopyPrompt ==
    ASSUME Inv, StreamInv, NilInv, CountsInv, ReturnPrompt
    PROVE  CopiedInv'
<1>0. TypeOK /\ attempt \in Attempts /\ pc = "prompt"
  BY DEF Inv, CallsInv, ReturnPrompt, At
<1>1. /\ pc' = "completion" /\ streamResult'.prompt = result[attempt].prompt
      /\ UNCHANGED <<attempt, streamErr, read, delivered>>
  BY <1>0 DEF ReturnPrompt, At, Goto, TypeOK, Counts, readers, writers
<1> DEFINE p == read[attempt]
<1>2. p \in Seq(Kinds) /\ Len(p) \in Nat /\ Len(delivered) \in Nat
  BY <1>0, SequencesTyped
<1>3. PICK m \in 0 .. Len(p) : HasCounted(attempt, m)
  BY <1>0 DEF CountsInv
<1>4. Len(delivered) <= m
  BY <1>2, <1>3 DEF HasCounted, One
<1>5. \E n \in Len(delivered) .. Len(p) : result[attempt].prompt = Upto(p, n).prompt
  <2>1. CASE reader[attempt] # "countRest"
    BY <1>2, <1>3, <1>4, <2>1 DEF HasCounted
  <2>2. CASE reader[attempt] = "countRest"
    <3>1. /\ m + 1 = Len(p) /\ result[attempt].prompt = Usage.prompt /\ Last(p) = "usage"
      BY <1>3, <2>2 DEF HasCounted, Uncounted, Chunk
    <3>2. Upto(p, m + 1) = Counting(Upto(p, m), "usage")
      BY <1>2, <3>1, UptoNext
    <3>3. Upto(p, m) \in Counts /\ "usage" \in Kinds
      BY <1>2, UptoTyped DEF Kinds
    <3>4. Upto(p, m + 1) = Usage
      BY <3>2, <3>3, CountingIs
    <3> QED
      BY <1>2, <1>4, <3>1, <3>4
  <2> QED
    BY <2>1, <2>2
<1>6. (\E n \in Covering : PromptCopied(n))'
  BY <1>1, <1>5 DEF Covering, PromptCopied
<1>7. streamErr = "nil" => PromptCopied(Len(read[attempt]))'
  <2>1. SUFFICES ASSUME streamErr = "nil" PROVE PromptCopied(Len(read[attempt]))'
    OBVIOUS
  <2>2. reader[attempt] = "ended" /\ writeErr[attempt] = "nil"
    BY <2>1, NilIsRead
  <2>3. m = Len(p) /\ result[attempt].prompt = Upto(p, m).prompt
    BY <1>3, <2>2 DEF HasCounted, Uncounted
  <2> QED
    BY <1>1, <2>3 DEF PromptCopied
<1> QED
  BY <1>1, <1>6, <1>7 DEF CopiedInv

LEMMA CopyCompletion ==
    ASSUME Inv, StreamInv, NilInv, CountsInv, CopiedInv, ReturnCompletion
    PROVE  CopiedInv'
<1>0. TypeOK /\ attempt \in Attempts /\ pc = "completion"
  BY DEF Inv, CallsInv, ReturnCompletion, At
<1>1. /\ pc' = IF streamErr = "nil" THEN "settle" ELSE "failover"
      /\ streamResult'.prompt = streamResult.prompt
      /\ streamResult'.completion = result[attempt].completion
      /\ UNCHANGED <<attempt, streamErr, read, delivered>>
  BY <1>0 DEF ReturnCompletion, At, Goto, TypeOK, Counts, readers, writers
<1> DEFINE p == read[attempt]
<1>2. p \in Seq(Kinds) /\ Len(p) \in Nat /\ Len(delivered) \in Nat
  BY <1>0, SequencesTyped
<1>3. PICK m \in 0 .. Len(p) : HasCounted(attempt, m)
  BY <1>0 DEF CountsInv
<1>4. Len(delivered) <= m
  BY <1>2, <1>3 DEF HasCounted, One
<1>5. result[attempt].completion = Upto(p, m).completion
  BY <1>3 DEF HasCounted
<1>6. (\E n \in Covering : CompletionCopied(n))'
  BY <1>1, <1>2, <1>3, <1>4, <1>5 DEF Covering, CompletionCopied
<1>7. attempt # 0
  BY <1>0 DEF Attempts
<1>8. (\E n \in Covering : PromptCopied(n))'
  <2>1. \E n \in Covering : PromptCopied(n)
    BY <1>0, <1>7 DEF CopiedInv
  <2> QED
    BY <1>1, <2>1 DEF Covering, PromptCopied
<1>9. ASSUME streamErr = "nil"
      PROVE PromptCopied(Len(read[attempt]))' /\ CompletionCopied(Len(read[attempt]))'
  <2>1. reader[attempt] = "ended" /\ writeErr[attempt] = "nil"
    BY <1>9, NilIsRead
  <2>2. m = Len(p)
    BY <1>3, <2>1 DEF HasCounted, Uncounted
  <2>3. PromptCopied(Len(read[attempt]))
    BY <1>0, <1>9 DEF CopiedInv
  <2> QED
    BY <1>1, <1>5, <2>2, <2>3 DEF PromptCopied, CompletionCopied
<1> QED
  BY <1>1, <1>6, <1>8, <1>9 DEF CopiedInv

\* What was copied stays what it was, also of a stream that is read further.
LEMMA CopiedHandler ==
    ASSUME Inv, StreamInv, NilInv, CountsInv, CopiedInv, HandlerStep
    PROVE  CopiedInv'
<1>1. CASE ReturnPrompt
  BY <1>1, CopyPrompt
<1>2. CASE ReturnCompletion
  BY <1>2, CopyCompletion
<1>3. CASE GiveUp \/ HandlerReturns
  <2>1. /\ UNCHANGED <<attempt, streamErr, streamResult, read, delivered>>
        /\ \/ pc = "failover" /\ pc' = "settle"
           \/ pc = "settle" /\ pc' = "over"
    BY <1>3 DEF GiveUp, HandlerReturns, At, Goto, readers, writers
  <2>2. pc = "failover" => streamErr # "nil"
    BY DEF NilInv
  <2>3. UNCHANGED <<Covering, read[attempt]>>
    BY <2>1 DEF Covering
  <2> QED
    BY <2>1, <2>2, <2>3 DEF CopiedInv, PromptCopied, CompletionCopied
<1>4. CASE ~ (ReturnPrompt \/ ReturnCompletion \/ GiveUp \/ HandlerReturns)
  <2>1. pc' \notin {"completion", "failover", "settle", "over"}
    BY <1>4 DEF HandlerStep, StartStream, ContextDone, CancelWriteEnd, CancelReadEnd, CancelBody, Drain,
          CopyDone, CloseBody, CloseReadEnd, Goto
  <2> QED
    BY <2>1 DEF CopiedInv
<1> QED
  BY <1>1, <1>2, <1>3, <1>4

LEMMA CopiedReader ==
    ASSUME Inv, StreamInv, NilInv, CopiedInv, NEW a \in Attempts, ReaderStep(a) \/ BodyEnds(a)
    PROVE  CopiedInv'
<1>0. TypeOK /\ ReaderTypes
  BY TypesByGroup DEF Inv
<1>1. UNCHANGED <<handler, delivered>>
  <2>1. UNCHANGED handler
    BY ReaderFrame DEF OwnersOnly
  <2> QED
    BY <2>1 DEF ReaderStep, BodyEnds, Scan, ScanStops, CheckContext, CountText, CountUsage, Send,
          SendFails, Touch, ReaderEnds, writers
<1>2. CASE UNCHANGED read
  BY <1>1, <1>2 DEF CopiedInv, Covering, PromptCopied, CompletionCopied, handler
<1>3. CASE Scan(a)
  <2>1. SUFFICES ASSUME attempt # 0, pc \in {"completion", "failover", "settle", "over"}
                 PROVE CopiedInv'
    <3>1. streamErr = "nil" => attempt # 0
      BY DEF NilInv, Attempts
    <3> QED
      BY <1>1, <3>1 DEF CopiedInv, handler
  <2>2. attempt \in Attempts
    BY <1>0, <2>1, StreamAssumption DEF TypeOK, Attempts
  <2> DEFINE p == read[attempt]
  <2>3. p \in Seq(Kinds) /\ Len(p) \in Nat /\ Len(delivered) \in Nat
    BY <1>0, <2>2, SequencesTyped
  <2>4. PICK kind \in Kinds : read' = [read EXCEPT ![a] = Append(@, kind)]
    BY <1>3 DEF Scan
  <2>5. /\ read'[attempt] \in {p, Append(p, kind)}
        /\ attempt # a => read'[attempt] = p
    BY <1>0, <2>2, <2>4 DEF ReaderTypes
  <2>6. /\ Len(read'[attempt]) \in Nat /\ Len(read'[attempt]) >= Len(p)
        /\ \A m \in 0 .. Len(p) : Upto(read'[attempt], m) = Upto(p, m)
    <3>1. Len(Append(p, kind)) = Len(p) + 1
      BY <2>3
    <3>2. \A m \in 0 .. Len(p) : Upto(Append(p, kind), m) = Upto(p, m)
      BY <2>3, UptoStays
    <3>3. CASE read'[attempt] = p
      BY <2>3, <3>3
    <3>4. CASE read'[attempt] = Append(p, kind)
      BY <2>3, <3>1, <3>2, <3>4
    <3> QED
      BY <2>5, <3>3, <3>4
  <2>7. \A m \in Covering : m \in 0 .. Len(p) /\ m \in Len(delivered) .. Len(read'[attempt])
    BY <2>3, <2>6 DEF Covering
  <2>8. streamErr = "nil" => read'[attempt] = p
    <3>1. streamErr = "nil" => reader[attempt] = "ended"
      BY NilIsRead
    <3>2. reader[a] = "scan"
      BY <1>3 DEF Scan
    <3> QED
      BY <2>5, <3>1, <3>2
  <2>9. Covering' = Len(delivered) .. Len(read'[attempt])
    BY <1>1 DEF Covering, handler
  <2>10. \A m \in Covering :
           /\ m \in Covering'
           /\ PromptCopied(m) => PromptCopied(m)'
           /\ CompletionCopied(m) => CompletionCopied(m)'
    BY <1>1, <2>6, <2>7, <2>9 DEF PromptCopied, CompletionCopied, handler
  <2>11. streamErr = "nil" =>
           /\ PromptCopied(Len(read[attempt])) => PromptCopied(Len(read[attempt]))'
           /\ CompletionCopied(Len(read[attempt])) => CompletionCopied(Len(read[attempt]))'
    BY <1>1, <2>8 DEF PromptCopied, CompletionCopied, handler
  <2>12. UNCHANGED <<pc, attempt, streamErr>>
    BY <1>1 DEF handler
  <2> QED
    BY <2>10, <2>11, <2>12 DEF CopiedInv
<1> QED
  BY <1>2, <1>3 DEF ReaderStep, BodyEnds, ScanStops, CheckContext, CountText, CountUsage, Send,
        SendFails, Touch, ReaderEnds

\* While there is a writer at work the call has not returned.
LEMMA CopiedWriter ==
    ASSUME Inv, CopiedInv, NEW a \in Attempts, ReceiveStops(a) \/ Write(a) \/ WriteFails(a)
    PROVE  CopiedInv'
<1>1. UNCHANGED handler
  BY ReaderFrame DEF WriterStep, OwnersOnly
<1>2. pc \in Waiting
  BY DEF Inv, WritersInv, ReceiveStops, Write, WriteFails, Live
<1>3. pc' \notin {"completion", "failover", "settle", "over"}
  BY <1>1, <1>2 DEF handler, Waiting
<1> QED
  BY <1>3 DEF CopiedInv

LEMMA CountsStep ==
    Inv /\ StreamInv /\ NilInv /\ CountsInv /\ CopiedInv /\ [Next]_vars => CountsInv' /\ CopiedInv'
<1> SUFFICES ASSUME Inv, StreamInv, NilInv, CountsInv, CopiedInv, [Next]_vars
             PROVE  CountsInv' /\ CopiedInv'
  OBVIOUS
<1>1. CASE HandlerStep
  <2>1. ~StartStream => UNCHANGED <<attempt, readers, writers>>
    BY <1>1 DEF HandlerStep, ContextDone, CancelWriteEnd, CancelReadEnd, CancelBody, Drain, CopyDone,
          CloseBody, CloseReadEnd, ReturnPrompt, ReturnCompletion, GiveUp, HandlerReturns
  <2> QED
    BY <1>1, <2>1, CountsStart, CountsMoves, CopiedHandler
<1>2. ASSUME NEW a \in Attempts, ReaderStep(a) \/ WriterStep(a) \/ BodyEnds(a)
      PROVE CountsInv' /\ CopiedInv'
  BY <1>2, CountsReader, CountsWriter, CopiedReader, CopiedWriter DEF WriterStep, ReaderStep
<1>3. CASE UNCHANGED <<handler, readers, writers, pipe>>
  <2>1. CountsInv'
    BY <1>3, CountsMoves DEF handler
  <2>2. CopiedInv'
    BY <1>3 DEF CopiedInv, Covering, PromptCopied, CompletionCopied, handler, readers, writers
  <2> QED
    BY <2>1, <2>2
<1> QED
  BY <1>1, <1>2, <1>3 DEF Next, GoIdle, Cleanup, Break, Cancel, Stop, vars

------------------------------------------------------------------------------
(* Who waits for whom *)

\* Where the call has closed no end of the pipe yet, and will.
BeforeClose == {"select", "closeBody", "closeReader", "cancelWriter"}

\* A goroutine has gone only after it has left what those that wait for it need:
\* the writer its report, the reader and the call a closed pipe.
WaitsOf(a) ==
    /\ reader[a] = "none" <=> attempt < a
    /\ writer[a] = "none" <=> attempt < a
    /\ writer[a] = "ended" => copyDone[a] # "empty"
    /\ reader[a] = "ended" => Closed(a)
    /\ attempt < a \/ Closed(a) \/ (a = attempt /\ pc \in BeforeClose)

WaitsInv == \A a \in Attempts : WaitsOf(a)

LEMMA InitWaits == Init => WaitsInv
  BY StreamAssumption DEF Init, WaitsInv, WaitsOf, Attempts

\* A pipe that is closed stays closed.
LEMMA ClosesWriteEnd ==
    ASSUME TypeOK, NEW a \in Attempts, NEW err \in {"nil", "error"}, CloseWriteEnd(a, err)
    PROVE  /\ Closed(a)'
           /\ \A b \in Attempts \ {a} : pipe'[b] = pipe[b]
           /\ \A b \in Attempts : Closed(b) => Closed(b)'
<1>1. pipe \in [Attempts -> [writeEnd : {"open", "nil", "error"}, readEnd : {"open", "closed"}]]
  BY DEF TypeOK
<1>2. CASE pipe[a].writeEnd = "open"
  <2>1. pipe' = [pipe EXCEPT ![a].writeEnd = err]
    BY <1>2 DEF CloseWriteEnd
  <2>2. pipe'[a].writeEnd = err /\ \A b \in Attempts \ {a} : pipe'[b] = pipe[b]
    BY <1>1, <2>1
  <2>3. Closed(a)'
    BY <2>2 DEF Closed
  <2> QED
    BY <2>2, <2>3 DEF Closed
<1>3. CASE pipe[a].writeEnd # "open"
  BY <1>3 DEF CloseWriteEnd, Closed
<1> QED
  BY <1>2, <1>3

LEMMA ClosesReadEnd ==
    ASSUME TypeOK, NEW a \in Attempts, pipe' = [pipe EXCEPT ![a].readEnd = "closed"]
    PROVE  /\ Closed(a)'
           /\ \A b \in Attempts \ {a} : pipe'[b] = pipe[b]
           /\ \A b \in Attempts : Closed(b) => Closed(b)'
<1>1. pipe \in [Attempts -> [writeEnd : {"open", "nil", "error"}, readEnd : {"open", "closed"}]]
  BY DEF TypeOK
<1>2. pipe'[a].readEnd = "closed" /\ \A b \in Attempts \ {a} : pipe'[b] = pipe[b]
  BY <1>1
<1>3. Closed(a)'
  BY <1>2 DEF Closed
<1> QED
  BY <1>2, <1>3 DEF Closed

LEMMA WaitsReader ==
    ASSUME Inv, WaitsInv, NEW a \in Attempts, ReaderStep(a) \/ BodyEnds(a)
    PROVE  WaitsInv'
<1>0. TypeOK
  BY DEF Inv
<1>1. UNCHANGED handler
  BY ReaderFrame DEF OwnersOnly
<1>2. /\ reader \in [Attempts -> ReaderSteps] /\ writer \in [Attempts -> WriterSteps]
      /\ writeErr[a] \in {"nil", "error"}
  BY <1>0 DEF TypeOK
<1>3. WaitsOf(a) /\ \A b \in Attempts : WaitsOf(b)
  BY DEF WaitsInv
<1>4. CASE ReaderEnds(a)
  <2>1. CloseWriteEnd(a, writeErr[a]) /\ reader' = [reader EXCEPT ![a] = "ended"] /\ reader[a] = "close"
        /\ UNCHANGED writers
    BY <1>4 DEF ReaderEnds
  <2>2. Closed(a)' /\ \A b \in Attempts : Closed(b) => Closed(b)'
    BY <1>0, <1>2, <2>1, ClosesWriteEnd
  <2>3. ASSUME NEW b \in Attempts PROVE WaitsOf(b)'
    <3>1. WaitsOf(b)
      BY <1>3
    <3>2. CASE b = a
      BY <1>1, <1>2, <2>1, <2>2, <3>1, <3>2 DEF WaitsOf, handler, writers
    <3>3. CASE b # a
      <4>1. reader'[b] = reader[b]
        BY <1>2, <2>1, <3>3
      <4> QED
        BY <1>1, <2>1, <2>2, <3>1, <4>1 DEF WaitsOf, handler, writers
    <3> QED
      BY <3>2, <3>3
  <2> QED
    BY <2>3 DEF WaitsInv
<1>5. CASE ~ReaderEnds(a)
  <2>1. UNCHANGED <<pipe, copyDone>>
    BY <1>5 DEF ReaderStep, BodyEnds, Scan, ScanStops, CheckContext, CountText, CountUsage, Send,
          SendFails, Touch, writers
  <2>2. reader[a] \notin {"none", "ended"} /\ reader'[a] \notin {"none", "ended"}
    BY <1>2, <1>5 DEF ReaderStep, BodyEnds, Scan, ScanStops, CheckContext, CountText, CountUsage, Send,
          SendFails, Touch, readers
  <2>3. \A b \in Attempts \ {a} : reader'[b] = reader[b]
    BY <1>2, <1>5 DEF ReaderStep, BodyEnds, Scan, ScanStops, CheckContext, CountText, CountUsage, Send,
          SendFails, Touch, readers
  <2>4. /\ writer' = writer \/ (writer[a] = "receive" /\ writer' = [writer EXCEPT ![a] = "write"])
    BY <1>5 DEF ReaderStep, BodyEnds, Scan, ScanStops, CheckContext, CountText, CountUsage, Send,
          SendFails, Touch, writers
  <2>5. \A b \in Attempts : /\ writer'[b] = "none" <=> writer[b] = "none"
                            /\ writer'[b] = "ended" <=> writer[b] = "ended"
    BY <1>2, <2>4
  <2>6. ASSUME NEW b \in Attempts PROVE WaitsOf(b)'
    <3>1. WaitsOf(b) /\ Closed(b)' = Closed(b)
      BY <1>3, <2>1 DEF Closed
    <3>2. /\ reader'[b] = "none" <=> reader[b] = "none"
          /\ reader'[b] = "ended" <=> reader[b] = "ended"
      BY <2>2, <2>3
    <3> QED
      BY <1>1, <2>1, <2>5, <3>1, <3>2 DEF WaitsOf, handler
  <2> QED
    BY <2>6 DEF WaitsInv
<1> QED
  BY <1>4, <1>5

LEMMA WaitsWriter ==
    ASSUME Inv, WaitsInv, NEW a \in Attempts, ReceiveStops(a) \/ Write(a) \/ WriteFails(a)
    PROVE  WaitsInv'
<1>1. UNCHANGED <<handler, reader, pipe>>
  <2>1. UNCHANGED handler
    BY ReaderFrame DEF WriterStep, OwnersOnly
  <2> QED
    BY <2>1 DEF ReceiveStops, Write, WriteFails, readers
<1>2. writer \in [Attempts -> WriterSteps] /\ copyDone \in [Attempts -> {"empty", "nil", "error"}]
  BY DEF Inv, TypeOK
<1>3. writer[a] \in {"receive", "write"}
  BY DEF ReceiveStops, Write, WriteFails
<1>4. \/ writer'[a] = "receive" /\ copyDone' = copyDone
      \/ writer'[a] = "ended" /\ copyDone'[a] # "empty"
  BY <1>2 DEF ReceiveStops, Write, WriteFails
<1>5. \A b \in Attempts \ {a} : writer'[b] = writer[b] /\ copyDone'[b] = copyDone[b]
  BY <1>2 DEF ReceiveStops, Write, WriteFails
<1>6. ASSUME NEW b \in Attempts PROVE WaitsOf(b)'
  <2>1. WaitsOf(b) /\ Closed(b)' = Closed(b)
    BY <1>1 DEF WaitsInv, Closed
  <2>2. CASE b = a
    BY <1>1, <1>3, <1>4, <2>1, <2>2 DEF WaitsOf, handler
  <2>3. CASE b # a
    BY <1>1, <1>5, <2>1, <2>3 DEF WaitsOf, handler
  <2> QED
    BY <2>2, <2>3
<1> QED
  BY <1>6 DEF WaitsInv

LEMMA WaitsStart == ASSUME Inv, WaitsInv, StartStream PROVE WaitsInv'
<1>1. /\ pc = "failover" /\ pc' = "select" /\ attempt < MaxAttempts /\ attempt' = attempt + 1
      /\ reader' = [reader EXCEPT ![attempt'] = "scan"]
      /\ writer' = [writer EXCEPT ![attempt'] = "receive"]
      /\ UNCHANGED <<copyDone, pipe>>
  BY DEF StartStream, At, Goto
<1>2. /\ attempt \in Nat /\ Attempts \subseteq Nat
      /\ reader \in [Attempts -> ReaderSteps] /\ writer \in [Attempts -> WriterSteps]
  BY StreamAssumption DEF Inv, TypeOK, Attempts
<1>3. ASSUME NEW b \in Attempts PROVE WaitsOf(b)'
  <2>1. WaitsOf(b) /\ Closed(b)' = Closed(b) /\ b \in Nat
    BY <1>1, <1>2 DEF WaitsInv, Closed
  <2>2. CASE b = attempt'
    <3>1. reader'[b] = "scan" /\ writer'[b] = "receive" /\ ~(attempt' < b)
      BY <1>1, <1>2, <2>2
    <3> QED
      BY <1>1, <2>2, <3>1 DEF WaitsOf, BeforeClose
  <2>3. CASE b # attempt'
    <3>1. reader'[b] = reader[b] /\ writer'[b] = writer[b] /\ (attempt' < b <=> attempt < b)
      BY <1>1, <1>2, <2>1, <2>3
    <3> QED
      BY <1>1, <2>1, <3>1 DEF WaitsOf, BeforeClose
  <2> QED
    BY <2>2, <2>3
<1> QED
  BY <1>3 DEF WaitsInv

\* Every other step of the handler goes on within a call, past its close or before.
LEMMA WaitsHandler == ASSUME Inv, WaitsInv, HandlerStep, ~StartStream PROVE WaitsInv'
<1>0. TypeOK /\ CallsInv
  BY DEF Inv
<1>1. UNCHANGED <<attempt, reader, writer, copyDone>>
  BY DEF HandlerStep, ContextDone, CancelWriteEnd, CancelReadEnd, CancelBody, Drain, CopyDone,
        CloseBody, CloseReadEnd, ReturnPrompt, ReturnCompletion, GiveUp, HandlerReturns, readers,
        writers
<1>2. /\ \A b \in Attempts : Closed(b) => Closed(b)'
      /\ pc \in BeforeClose /\ pc' \notin BeforeClose => Closed(attempt)'
  <2>1. CASE CancelWriteEnd
    <3>1. attempt \in Attempts
      BY <1>0, <2>1 DEF CallsInv, Waiting, CancelWriteEnd, At
    <3> QED
      BY <1>0, <2>1, <3>1, ClosesWriteEnd DEF CancelWriteEnd
  <2>2. CASE CancelReadEnd \/ CloseReadEnd
    <3>1. attempt \in Attempts
      BY <1>0, <2>2 DEF CallsInv, Waiting, CancelReadEnd, CloseReadEnd, At
    <3> QED
      BY <1>0, <2>2, <3>1, ClosesReadEnd DEF CancelReadEnd, CloseReadEnd
  <2>3. CASE ~(CancelWriteEnd \/ CancelReadEnd \/ CloseReadEnd)
    <3>1. UNCHANGED pipe
      BY <2>3 DEF HandlerStep, ContextDone, CancelBody, Drain, CopyDone, CloseBody, ReturnPrompt,
            ReturnCompletion, GiveUp, HandlerReturns
    <3>2. pc \in BeforeClose => pc' \in BeforeClose
      BY <2>3 DEF HandlerStep, ContextDone, CancelBody, Drain, CopyDone, CloseBody, ReturnPrompt,
            ReturnCompletion, GiveUp, HandlerReturns, At, Goto, BeforeClose
    <3> QED
      BY <3>1, <3>2 DEF Closed
  <2> QED
    BY <2>1, <2>2, <2>3
<1>3. ASSUME NEW b \in Attempts PROVE WaitsOf(b)'
  <2>1. WaitsOf(b)
    BY DEF WaitsInv
  <2>2. b = attempt /\ pc \in BeforeClose => Closed(b)' \/ pc' \in BeforeClose
    BY <1>1, <1>2 DEF Closed
  <2> QED
    BY <1>1, <1>2, <2>1, <2>2 DEF WaitsOf
<1> QED
  BY <1>3 DEF WaitsInv

LEMMA WaitsStep == Inv /\ WaitsInv /\ [Next]_vars => WaitsInv'
<1> SUFFICES ASSUME Inv, WaitsInv, [Next]_vars PROVE WaitsInv'
  OBVIOUS
<1>1. CASE HandlerStep
  BY <1>1, WaitsStart, WaitsHandler
<1>2. ASSUME NEW a \in Attempts, ReaderStep(a) \/ WriterStep(a) \/ BodyEnds(a)
      PROVE  WaitsInv'
  BY <1>2, WaitsReader, WaitsWriter DEF WriterStep, ReaderStep
<1>3. CASE UNCHANGED <<handler, readers, writers, pipe>>
  BY <1>3 DEF WaitsInv, WaitsOf, Closed, handler, readers, writers
<1> QED
  BY <1>1, <1>2, <1>3 DEF Next, GoIdle, Cleanup, Break, Cancel, Stop, vars

LEMMA Invariant == Spec => [](Inv /\ StreamInv /\ NilInv /\ CountsInv /\ CopiedInv /\ WaitsInv)
  BY InitInv, InvStep, InitStream, StreamStep, InitCounts, CountsStep, InitWaits, WaitsStep, PTL
     DEF Spec

------------------------------------------------------------------------------
(* Theorems *)

\* Every variable keeps its type; so the writer never writes a chunk that the
\* reader has not read.
THEOREM TypeCorrect == Spec => []TypeOK
<1>1. Inv => TypeOK
  BY DEF Inv
<1> QED
  BY <1>1, Invariant, PTL

\* No goroutine writes to the http.ResponseWriter after the call it was lent to
\* has returned, and no two write to it together.
THEOREM WriterOnlyLent == Spec => []WriterIsLent
<1>1. Inv => WriterIsLent
  BY DEF Inv, WritersInv, WriterIsLent, Live, Waiting, Running
<1> QED
  BY <1>1, Invariant, PTL

\* No upstream body is left open when its call returns, and while it is open the
\* cleanup loop can reach it, whatever keys share a session id.
THEOREM BodiesAreClosed == Spec => []NoBodyLeaks
<1>1. Inv => NoBodyLeaks
  BY DEF Inv, BodiesInv, NoBodyLeaks, Holding, Running
<1> QED
  BY <1>1, Invariant, PTL

\* If a call returns nil, the client has been written all that the upstream sent, in
\* its order and to its end, and the counts are those of all of it: a stream that
\* breaks off is never taken for a whole one, nor are its tokens.
THEOREM NilIsComplete == Spec => []NilMeansComplete
<1>1. Inv /\ StreamInv /\ NilInv /\ CopiedInv => NilMeansComplete
  <2> SUFFICES ASSUME Inv, StreamInv, NilInv, CopiedInv, streamErr = "nil", pc \in {"settle", "over"}
               PROVE  /\ delivered = read[attempt] /\ Complete(read[attempt], attempt)
                      /\ streamResult = CountedIn(read[attempt])
    BY DEF NilMeansComplete
  <2> DEFINE p == read[attempt]
  <2>1. delivered = p /\ Complete(p, attempt) /\ attempt \in Attempts
    BY DEF StreamInv, StreamOf, NilInv
  <2>2. p \in Seq(Kinds) /\ streamResult \in Counts
    BY <2>1 DEF Inv, TypeOK
  <2>3. Upto(p, Len(p)) = CountedIn(p) /\ CountedIn(p) \in Counts
    BY <2>2, UptoAll, CountedTyped
  <2>4. /\ streamResult.prompt = CountedIn(p).prompt
        /\ streamResult.completion = CountedIn(p).completion
    BY <2>3 DEF CopiedInv, PromptCopied, CompletionCopied
  <2>5. streamResult = CountedIn(p)
    BY <2>2, <2>3, <2>4 DEF Counts
  <2> QED
    BY <2>1, <2>5
<1> QED
  BY <1>1, Invariant, PTL

\* Whatever interrupts a call, and although its reader may be counting when it
\* returns, each count it returns covers all the client was written by this call, and
\* nothing that was not read.
THEOREM CountsAreDelivered == Spec => []CountsDelivered
<1>1. Inv /\ CopiedInv => CountsDelivered
  <2> SUFFICES ASSUME TypeOK, CopiedInv, pc \in {"failover", "settle", "over"}, attempt > 0
               PROVE  /\ \E n \in Covering : PromptCopied(n)
                      /\ \E n \in Covering : CompletionCopied(n)
    <3>1. \A n \in Covering : SubSeq(read[attempt], 1, n) \in
              {SubSeq(read[attempt], 1, i) : i \in Len(delivered)..Len(read[attempt])}
      BY DEF Covering
    <3> QED
      BY <3>1 DEF CountsDelivered, PromptCopied, CompletionCopied, Upto, Inv
  <2>1. attempt # 0
    BY DEF TypeOK
  <2> QED
    BY <2>1 DEF CopiedInv
<1> QED
  BY <1>1, Invariant, PTL

\* Whoever waits has someone to wait for: whichever of a call's three goroutines
\* stops first, and in whatever way, it has left the others what they wait for or
\* the call is yet to close the pipe.  With fair scheduling this is why every call
\* ends; that it does is checked, this holds for any number of calls and chunks.
THEOREM NoGoroutineStranded == Spec => []NoneWaitsInVain
<1>1. Inv /\ WaitsInv => NoneWaitsInVain
  <2> SUFFICES ASSUME Inv, WaitsInv, NEW a \in Attempts
               PROVE  /\ writer[a] = "receive" => Closed(a) \/ reader[a] \notin {"none", "ended"}
                      /\ reader[a] = "send" => Closed(a) \/ Running(a)
                      /\ Running(a) /\ pc \in {"select", "drain"} =>
                            copyDone[a] # "empty" \/ writer[a] \in {"receive", "write"}
    BY DEF NoneWaitsInVain
  <2>1. WaitsOf(a) /\ writer[a] \in WriterSteps
    BY DEF WaitsInv, Inv, TypeOK
  <2>2. Running(a) => ~(attempt < a)
    <3>1. a \in Nat
      BY StreamAssumption DEF Attempts
    <3> QED
      BY <3>1 DEF Running
  <2>3. a = attempt /\ pc \in BeforeClose => Running(a)
    BY DEF Running, BeforeClose
  <2> QED
    BY <2>1, <2>2, <2>3 DEF WaitsOf, WriterSteps
<1> QED
  BY <1>1, Invariant, PTL
==============================================================================

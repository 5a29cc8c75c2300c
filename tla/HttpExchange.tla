----------------------------- MODULE HttpExchange -----------------------------
(***************************************************************************)
(* One connection of http/LocalWebServer from its acceptance to its        *)
(* closing: readRequest(), the routing of serveClient(), the hand-over to  *)
(* the streaming worker, LocalHttpBodyStreamImpl::read() under the         *)
(* handlers of POST /api/ota and POST /api/ota/apply, sendResponse().      *)
(*                                                                         *)
(* A byte is its position on the connection.  Times are ages, the values   *)
(* of the code's unsigned differences of millis(), which are right as long *)
(* as an exchange takes less than 2^32 ms.  The client sends and leaves    *)
(* when it likes, the network cuts the stream anywhere, and the generation *)
(* (of the address, or a cancellation of the job) may change at any point. *)
(***************************************************************************)
EXTENDS Integers, Sequences

CONSTANTS
  Routes,        \* the requests to look at, of AllRoutes
  HeaderLength,  \* bytes up to and with the blank line
  MaxContent,    \* streamingLimits_.maxContentLength
  MaxOffered,    \* bound: body bytes a client sends
  Block,         \* size of readRequest()'s buffer
  Chunk,         \* size of the upload's buffer
  AnswerLength,  \* bytes of an answer, header and body
  IoTimeout, IdleTimeout, TotalTimeout,
  MaxLag         \* bound: ticks between two steps of a thread

AllRoutes == {"PLAIN", "UPLOAD", "APPLY"}

ASSUME RoutesAssumption == Routes # {} /\ Routes \subseteq AllRoutes
ASSUME LengthsAssumption ==
  /\ {HeaderLength, Block, Chunk, AnswerLength} \subseteq Nat \ {0}
  /\ {MaxContent, MaxOffered} \subseteq Nat
ASSUME TimesAssumption ==
  /\ {IoTimeout, IdleTimeout, TotalTimeout} \subseteq Nat \ {0}
  /\ MaxLag \in Nat

VARIABLES
  route, length, offered,  \* the request: its Content-Length, what the client
                           \* will have sent after the header
  sent, left,              \* bytes it has sent, and whether it has closed
  current,                 \* isCurrent(), isStreamingCurrent()
  place,                   \* of the thread that has the connection
  taken,                   \* bytes received from the socket
  held,                    \* prefetched bytes not read yet
  body, remaining,         \* bytes read by the handler, and left to read
  idle,                    \* since idleWaitStarted_, or NotIdle
  calling,                 \* since receiveStarted
  status, out,             \* the answer, and how much of it is sent
  age,                     \* ticks in readRequest(), in the body, in the answer
  lag,
  spent, quiet             \* history: ticks in the stage that age is of, and
                           \* since the handler got a byte

clientVars == <<route, length, offered, sent, left>>
bodyVars == <<taken, held, body, remaining>>
answerVars == <<status, out>>
vars == <<clientVars, bodyVars, answerVars, current, place, idle, calling, age,
          lag, spent, quiet>>

NotIdle == -1
LowerOf(a, b) == IF a <= b THEN a ELSE b
Positions(first, last) == [i \in 1 .. last - first + 1 |-> first + i - 1]

\* Bytes at the socket.
Available == sent - taken

Init ==
  /\ route \in Routes
  /\ length \in 0 .. MaxContent + 1
  /\ offered \in 0 .. MaxOffered
  /\ sent = 0 /\ left = FALSE /\ current = TRUE
  /\ place = "HEADER"
  /\ taken = 0 /\ held = <<>> /\ body = <<>> /\ remaining = length
  /\ idle = NotIdle /\ calling = 0
  /\ status = "NONE" /\ out = 0
  /\ age = 0 /\ lag = 0 /\ spent = 0 /\ quiet = 0

-----------------------------------------------------------------------------
(* The client, the network, the clock and the main loop.                   *)

ClientSends ==
  /\ ~left
  /\ sent' \in sent + 1 .. HeaderLength + offered
  /\ UNCHANGED <<route, length, offered, left, bodyVars, answerVars, current,
                 place, idle, calling, age, lag, spent, quiet>>

ClientLeaves ==
  /\ ~left
  /\ left' = TRUE
  /\ UNCHANGED <<route, length, offered, sent, bodyVars, answerVars, current,
                 place, idle, calling, age, lag, spent, quiet>>

SessionChanges ==
  /\ current
  /\ current' = FALSE
  /\ UNCHANGED <<clientVars, bodyVars, answerVars, place, idle, calling, age,
                 lag, spent, quiet>>

Tick ==
  /\ place \notin {"QUEUED", "CLOSED"}
  /\ lag < MaxLag
  /\ lag' = lag + 1
  /\ age' = age + 1
  /\ spent' = spent + 1
  /\ quiet' = quiet + 1
  /\ calling' = IF place = "RECEIVE" THEN calling + 1 ELSE 0
  /\ idle' = IF idle = NotIdle THEN NotIdle ELSE idle + 1
  /\ UNCHANGED <<clientVars, bodyVars, answerVars, current, place>>

-----------------------------------------------------------------------------
(* readRequest() and serveClient() on the listener.                        *)

Answers(answer) ==
  /\ place' = "ANSWER"
  /\ status' = answer
  /\ age' = 0
  /\ spent' = 0
  /\ idle' = NotIdle
  /\ calling' = 0

\* The rest of the block after the blank line is the prefetched part.  Only a
\* free streaming worker takes a request over.
Dispatch(prefetched) ==
  IF route = "PLAIN"
    THEN Answers("OK")
    ELSE \/ /\ length > MaxContent \/ prefetched > length
            /\ Answers("INVALID")
         \/ /\ length <= MaxContent /\ prefetched <= length
            /\ \/ Answers("BUSY")
               \/ /\ current
                  /\ place' = "QUEUED"
                  /\ UNCHANGED <<status, age, spent, idle, calling>>

\* Mutated: what comes with the header is dropped.
PrefetchedDropped(received) == <<>>

Prefetched(received) == Positions(HeaderLength + 1, received)

ReadRequestInTime == current /\ age < IoTimeout

\* One round of the loop.
ReadRequest ==
  /\ place = "HEADER"
  /\ ReadRequestInTime
  /\ LET received == taken + LowerOf(Block, Available) IN
     /\ taken' = received
     /\ \/ /\ received >= HeaderLength
           /\ held' = IF route = "PLAIN" THEN <<>> ELSE Prefetched(received)
           /\ Dispatch(received - HeaderLength)
        \/ /\ received < HeaderLength
           /\ ~(left /\ Available = 0)
           /\ UNCHANGED <<held, place, status, age, spent, idle, calling>>
        \/ /\ left /\ Available = 0
           /\ held' = held
           /\ Answers("INVALID")
  /\ lag' = 0
  /\ UNCHANGED <<clientVars, current, body, remaining, out, quiet>>

ReadRequestFails ==
  /\ place = "HEADER"
  /\ ~ReadRequestInTime
  /\ Answers("INVALID")
  /\ lag' = 0
  /\ UNCHANGED <<clientVars, current, bodyVars, out, quiet>>

-----------------------------------------------------------------------------
(* The streaming worker.                                                   *)

StreamingStarts ==
  /\ place = "QUEUED"
  /\ place' = IF current THEN "READ" ELSE "CLOSED"
  /\ age' = 0 /\ spent' = 0 /\ quiet' = 0 /\ lag' = 0
  /\ UNCHANGED <<clientVars, bodyVars, answerVars, current, idle, calling>>

\* The handler has stopped reading; an answer with the body unread is replaced
\* unless the handler allows that.
HandlerEnds(answer) ==
  Answers(IF remaining # 0 THEN "INCOMPLETE" ELSE answer)

TotalElapsed == age >= TotalTimeout

\* The apply's buffer is longer than its body.
Capacity == IF route = "APPLY" THEN MaxContent + 1 ELSE Chunk

\* Mutated: the buffer is filled from the socket, too long for the body.
ReadSizeUnbounded == LowerOf(Capacity, Available)

ReadSize == LowerOf(LowerOf(Capacity, remaining), Available)

Delivered(bytes) ==
  /\ body' = body \o bytes
  /\ remaining' = remaining - Len(bytes)
  /\ quiet' = 0

\* read() up to its receiveBytes(), and the end of both handlers' loops.
ReadCalled ==
  /\ place = "READ"
  /\ \/ /\ ~current \/ remaining = 0 \/ TotalElapsed
        /\ HandlerEnds("OK")
        /\ UNCHANGED <<bodyVars, quiet>>
     \/ /\ current /\ remaining # 0 /\ ~TotalElapsed
        /\ held # <<>>
        /\ LET n == LowerOf(Len(held), Capacity) IN
           /\ Delivered(SubSeq(held, 1, n))
           /\ held' = SubSeq(held, n + 1, Len(held))
        /\ UNCHANGED <<taken, place, status, age, spent, idle, calling>>
     \/ /\ current /\ remaining # 0 /\ ~TotalElapsed
        /\ held = <<>>
        /\ place' = "RECEIVE"
        /\ calling' = 0
        /\ UNCHANGED <<bodyVars, status, age, spent, idle, quiet>>
  /\ lag' = 0
  /\ UNCHANGED <<clientVars, current, out>>

\* Mutated: the idle wait goes on from its first start.
IdleAfterDataKept == idle

IdleAfterData == NotIdle

\* receiveBytes() has returned data.
ReceivedData ==
  /\ place = "RECEIVE"
  /\ Available > 0
  /\ LET late == IF idle = NotIdle THEN calling ELSE idle IN
     \/ /\ TotalElapsed \/ late >= IdleTimeout
        /\ taken' = taken + ReadSize
        /\ HandlerEnds("OK")
        /\ UNCHANGED <<held, body, remaining, quiet>>
     \/ /\ ~TotalElapsed /\ late < IdleTimeout
        /\ taken' = taken + ReadSize
        /\ Delivered(Positions(taken + 1, taken + ReadSize))
        /\ idle' = IdleAfterData
        /\ place' = "READ"
        /\ calling' = 0
        /\ UNCHANGED <<held, status, age, spent>>
  /\ lag' = 0
  /\ UNCHANGED <<clientVars, current, out>>

\* ... nothing, or the end of the connection.
ReceivedNothing ==
  /\ place = "RECEIVE"
  /\ Available = 0
  /\ LET waited == IF idle = NotIdle THEN calling ELSE idle IN
     \/ /\ left \/ TotalElapsed \/ waited >= IdleTimeout
        /\ HandlerEnds("OK")
     \/ /\ ~left /\ ~TotalElapsed /\ waited < IdleTimeout
        /\ place' = "WAIT"
        /\ idle' = waited
        /\ calling' = 0
        /\ UNCHANGED <<status, age, spent>>
  /\ lag' = 0
  /\ UNCHANGED <<clientVars, current, bodyVars, out, quiet>>

\* Mutated: only the idle wait is looked at.
WaitedTooLongIdle == idle >= IdleTimeout

WaitedTooLong == TotalElapsed \/ idle >= IdleTimeout

\* wait(1) is over.  The upload calls read() again, readSmallBody() takes the
\* empty read for a failure.
WaitEnds ==
  /\ place = "WAIT"
  /\ \/ /\ ~current \/ WaitedTooLong \/ route = "APPLY"
        /\ HandlerEnds("OK")
     \/ /\ current /\ ~WaitedTooLong /\ route # "APPLY"
        /\ place' = "READ"
        /\ UNCHANGED <<status, age, spent, idle, calling>>
  /\ lag' = 0
  /\ UNCHANGED <<clientVars, current, bodyVars, out, quiet>>

\* The headers are refused before the body is read, which is allowed; or the
\* controller or its Core refuse the upload.
HandlerRefuses ==
  /\ place = "READ"
  /\ \/ body = <<>> /\ idle = NotIdle /\ Answers("INVALID")
     \/ route = "UPLOAD" /\ HandlerEnds("REFUSED")
  /\ lag' = 0
  /\ UNCHANGED <<clientVars, current, bodyVars, out, quiet>>

-----------------------------------------------------------------------------
(* sendResponse(), on either thread.                                       *)

\* Mutated: every part that is sent gets its own time.
AgeAfterSendAnew == 0

AgeAfterSend == age

SendInTime == current /\ age < IoTimeout

\* The client takes a part of what is left, or nothing.
SendBytes ==
  /\ place = "ANSWER"
  /\ SendInTime
  /\ out < AnswerLength
  /\ out' \in out .. AnswerLength
  /\ age' = AgeAfterSend
  /\ lag' = 0
  /\ UNCHANGED <<clientVars, bodyVars, status, current, place, idle, calling,
                 spent, quiet>>

\* All is sent, the time is up, or the socket fails: it is closed.
AnswerEnds ==
  /\ place = "ANSWER"
  /\ out = AnswerLength \/ ~SendInTime \/ left
  /\ place' = "CLOSED"
  /\ UNCHANGED <<clientVars, bodyVars, answerVars, current, idle, calling, age,
                 lag, spent, quiet>>

\* The exchange is over.
Closed ==
  /\ place = "CLOSED"
  /\ UNCHANGED vars

-----------------------------------------------------------------------------
ServerStep ==
  \/ ReadRequest
  \/ ReadRequestFails
  \/ StreamingStarts
  \/ ReadCalled
  \/ ReceivedData
  \/ ReceivedNothing
  \/ WaitEnds
  \/ HandlerRefuses
  \/ SendBytes
  \/ AnswerEnds

Next ==
  \/ ServerStep
  \/ ClientSends
  \/ ClientLeaves
  \/ SessionChanges
  \/ Tick
  \/ Closed

Spec == Init /\ [][Next]_vars

-----------------------------------------------------------------------------
(* Properties.                                                             *)

\* Every variable keeps its type.
TypeOK ==
  /\ route \in Routes
  /\ length \in 0 .. MaxContent + 1
  /\ offered \in 0 .. MaxOffered
  /\ sent \in 0 .. HeaderLength + offered
  /\ taken \in 0 .. sent
  /\ {left, current} \subseteq BOOLEAN
  /\ place \in {"HEADER", "QUEUED", "READ", "RECEIVE", "WAIT", "ANSWER", "CLOSED"}
  /\ {held, body} \subseteq Seq(1 .. sent)
  /\ remaining \in 0 .. length
  /\ idle \in Nat \cup {NotIdle}
  /\ {calling, age, spent, quiet} \subseteq Nat
  /\ lag \in 0 .. MaxLag
  /\ status \in {"NONE", "OK", "INVALID", "BUSY", "INCOMPLETE", "REFUSED"}
  /\ out \in 0 .. AnswerLength

\* However the network cuts the stream, what the handler gets is the body from
\* its first byte on, with none lost or repeated between the block of the
\* header, the hand-over to the other thread and the socket, and nothing past
\* the Content-Length; a request is answered as complete only when all of it
\* was read (readRequest(), read(), runStreaming()).
BodyIntact ==
  /\ body = Positions(HeaderLength + 1, HeaderLength + Len(body))
  /\ Len(body) + remaining = length
  /\ status = "OK" /\ route # "PLAIN" => remaining = 0

\* A client that sends or reads byte by byte, or not at all, holds the listener
\* and the streaming slot no longer than their timeouts and a step, the slot
\* no longer than the idle timeout and three steps without a byte: the wait is
\* counted from a receiveBytes() on, and not looked at before the next one
\* (readRequest(), read(), sendAll()).
ExchangeBounded ==
  /\ place = "HEADER" => spent < IoTimeout + MaxLag
  /\ place \in {"READ", "RECEIVE", "WAIT"} =>
       /\ spent < TotalTimeout + MaxLag
       /\ quiet < IdleTimeout + 3 * MaxLag
  /\ place = "ANSWER" => spent < IoTimeout + MaxLag

\* A body is given up only by its handler's own decision, when the session is
\* over, when the client has left, or when one of the two timeouts is.
AwaitedUnlessLate(r) ==
  route = r /\ place \in {"RECEIVE", "WAIT"} /\ status' = "INCOMPLETE" =>
    \/ ~current
    \/ left /\ Available = 0
    \/ age >= TotalTimeout
    \/ quiet >= IdleTimeout

\* An upload's body is awaited so (read(), the upload loop of runWorker()).
UploadBodyAwaited == [][AwaitedUnlessLate("UPLOAD")]_vars

\* The guide of the HTTP server promises the same of every streaming route:
\* bytes are read "under both idle and total deadlines".
ApplyBodyAwaited == [][AwaitedUnlessLate("APPLY")]_vars
=============================================================================

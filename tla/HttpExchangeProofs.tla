-------------------------- MODULE HttpExchangeProofs --------------------------
(***************************************************************************)
(* One exchange, for every length of header, body, block, buffer and       *)
(* answer, and for all timeouts: the body arrives whole and in order, no   *)
(* stage outlives its timeout by more than its steps, and an upload is     *)
(* given up for one of the stated reasons only.                            *)
(*                                                                         *)
(* The argument.  The prefetched bytes follow the body without a gap       *)
(* (BytesInv), and end where the socket goes on as long as a handler       *)
(* reads; so each read appends the next bytes, from either source.  The    *)
(* code's ages are at most a step behind the history's, and the idle wait  *)
(* starts within a step of the last byte (StageInv, IdleInv).              *)
(***************************************************************************)
EXTENDS HttpExchange, SequenceTheorems, TLAPS

\* Places of the streaming worker with a job's body.
Reading == {"READ", "RECEIVE", "WAIT"}

\* The last position that is read or prefetched.
LastTaken == HeaderLength + Len(body) + Len(held)

-----------------------------------------------------------------------------
(* The inductive invariant.                                                *)

BytesInv ==
  /\ body = Positions(HeaderLength + 1, HeaderLength + Len(body))
  /\ held = Positions(HeaderLength + Len(body) + 1, LastTaken)
  /\ Len(body) + remaining = length
  /\ body # <<>> \/ held # <<>> => LastTaken <= taken
  /\ place = "HEADER" => body = <<>> /\ held = <<>>
  /\ place \in Reading \cup {"QUEUED"} =>
       /\ LastTaken = taken
       /\ Len(held) <= remaining
       /\ route # "PLAIN"
  /\ place \in {"RECEIVE", "WAIT"} => held = <<>> /\ remaining # 0

AnswerInv ==
  /\ place \notin {"ANSWER", "CLOSED"} => status = "NONE"
  /\ status = "OK" /\ route # "PLAIN" => remaining = 0

\* At the last step of the thread the stage was within its time.
StageInv ==
  /\ place \in Reading \cup {"HEADER", "ANSWER"} => age = spent
  /\ place \in {"HEADER", "ANSWER"} => age < IoTimeout + lag
  /\ place \in Reading => age < TotalTimeout + lag

\* A wait that goes on began within a step of the last byte, and was looked at
\* one step ago, or two with receiveBytes().
IdleInv ==
  /\ place # "RECEIVE" => calling = 0
  /\ place \in {"HEADER", "QUEUED", "ANSWER"} \/ held # <<>> => idle = NotIdle
  /\ place = "WAIT" => idle # NotIdle
  /\ calling <= quiet
  /\ place \in Reading => idle <= quiet
  /\ place \in Reading /\ idle # NotIdle =>
       /\ quiet <= idle + MaxLag
       /\ idle < IdleTimeout + lag + (IF place = "RECEIVE" THEN MaxLag ELSE 0)
  /\ place = "READ" /\ idle = NotIdle => quiet <= lag
  /\ place = "RECEIVE" /\ idle = NotIdle =>
       calling = lag /\ quiet <= lag + MaxLag

ExchangeInv == TypeOK /\ BytesInv /\ AnswerInv /\ StageInv /\ IdleInv

-----------------------------------------------------------------------------
(* Lemmas about Positions: runs of consecutive bytes.                      *)

\* A run of n bytes after position a is a sequence of length n.
LEMMA PositionsSeq ==
  ASSUME NEW a \in Nat, NEW n \in Nat
  PROVE  /\ Positions(a + 1, a + n) \in Seq(1 .. a + n)
         /\ Len(Positions(a + 1, a + n)) = n
         /\ \A i \in 1 .. n : Positions(a + 1, a + n)[i] = a + i
<1>1. (a + n) - (a + 1) + 1 = n
  OBVIOUS
<1>2. Positions(a + 1, a + n) = [i \in 1 .. n |-> (a + 1) + i - 1]
  BY <1>1 DEF Positions
<1>3. Positions(a + 1, a + n) \in [1 .. n -> 1 .. a + n]
  BY <1>2
<1>4. Positions(a + 1, a + n) \in Seq(1 .. a + n)
  BY <1>3, SeqDef
<1>5. Len(Positions(a + 1, a + n)) = n
  BY <1>3, <1>4, LenProperties
<1> QED
  BY <1>2, <1>4, <1>5

\* An empty run, after any position.
LEMMA PositionsEmpty ==
  ASSUME NEW a \in Nat
  PROVE  Positions(a + 1, a) = <<>>
<1>1. Positions(a + 1, a + 0) \in Seq(1 .. a + 0)
      /\ Len(Positions(a + 1, a + 0)) = 0
  BY PositionsSeq
<1> QED
  BY <1>1, EmptySeq

\* A run that begins where another ends continues it.
LEMMA PositionsConcat ==
  ASSUME NEW a \in Nat, NEW m \in Nat, NEW n \in Nat
  PROVE  Positions(a + 1, a + m) \o Positions(a + m + 1, a + m + n)
           = Positions(a + 1, a + m + n)
<1> DEFINE S == 1 .. a + m + n
           p == Positions(a + 1, a + m)
           q == Positions((a + m) + 1, (a + m) + n)
           r == Positions(a + 1, a + (m + n))
<1>1. p \in Seq(1 .. a + m) /\ Len(p) = m /\ \A i \in 1 .. m : p[i] = a + i
  BY PositionsSeq
<1>2. q \in Seq(S) /\ Len(q) = n /\ \A i \in 1 .. n : q[i] = a + m + i
  BY PositionsSeq, a + m \in Nat
<1>3. r \in Seq(S) /\ Len(r) = m + n /\ \A i \in 1 .. m + n : r[i] = a + i
  BY PositionsSeq, m + n \in Nat, a + (m + n) = a + m + n
<1>4. p \in Seq(S)
  BY <1>1, SeqMonotonic, 1 .. a + m \subseteq S
<1> HIDE DEF p, q, r
<1>5. /\ p \o q \in Seq(S)
      /\ Len(p \o q) = m + n
      /\ \A i \in 1 .. m + n :
           (p \o q)[i] = IF i <= m THEN p[i] ELSE q[i - m]
  BY <1>1, <1>2, <1>4, ConcatProperties
<1>6. ASSUME NEW i \in 1 .. m + n
      PROVE  (p \o q)[i] = r[i]
  <2>1. (p \o q)[i] = IF i <= m THEN p[i] ELSE q[i - m]
    BY <1>5
  <2>2. r[i] = a + i
    BY <1>3
  <2>3. CASE i <= m
    BY <1>1, <2>1, <2>2, <2>3
  <2>4. CASE i > m
    <3>1. i - m \in 1 .. n
      BY <2>4
    <3>2. q[i - m] = a + m + (i - m)
      BY <1>2, <3>1
    <3> QED
      BY <2>1, <2>2, <2>4, <3>2
  <2>5. i <= m \/ i > m
    OBVIOUS
  <2> QED
    BY <2>3, <2>4, <2>5
<1>7. p \o q = r
  BY <1>3, <1>5, <1>6, SeqEqual
<1> QED
  BY <1>7, a + (m + n) = a + m + n DEF p, q, r

\* The first n bytes of a run, and the rest of it.
LEMMA PositionsSplit ==
  ASSUME NEW a \in Nat, NEW m \in Nat, NEW n \in 0 .. m
  PROVE  /\ SubSeq(Positions(a + 1, a + m), 1, n) = Positions(a + 1, a + n)
         /\ SubSeq(Positions(a + 1, a + m), n + 1, m)
              = Positions(a + n + 1, a + m)
<1> DEFINE S == 1 .. a + m
           p == Positions(a + 1, a + m)
           q == Positions(a + 1, a + n)
           k == m - n
           r == Positions((a + n) + 1, (a + n) + k)
<1>1. p \in Seq(S) /\ Len(p) = m /\ \A i \in 1 .. m : p[i] = a + i
  BY PositionsSeq
<1>2. q \in Seq(1 .. a + n) /\ Len(q) = n /\ \A i \in 1 .. n : q[i] = a + i
  BY PositionsSeq, n \in Nat
<1>3. r \in Seq(1 .. (a + n) + k) /\ Len(r) = k
      /\ \A i \in 1 .. k : r[i] = (a + n) + i
  BY PositionsSeq, a + n \in Nat, k \in Nat
<1>4. q \in Seq(S)
  BY <1>2, SeqMonotonic, 1 .. a + n \subseteq S
<1>5. (a + n) + k = a + m
  OBVIOUS
<1>6. \A i \in 1 .. m : p[i] \in S
  BY <1>1, ElementOfSeq
<1> HIDE DEF p, q, r
<1>7. /\ SubSeq(p, 1, n) \in Seq(S)
      /\ Len(SubSeq(p, 1, n)) = n
      /\ \A i \in 1 .. n : SubSeq(p, 1, n)[i] = p[i]
  <2>1. \A i \in 1 .. n : p[i] \in S
    BY <1>6
  <2>2. /\ SubSeq(p, 1, n) \in Seq(S)
        /\ Len(SubSeq(p, 1, n)) = IF 1 <= n THEN n - 1 + 1 ELSE 0
        /\ \A i \in 1 .. n - 1 + 1 : SubSeq(p, 1, n)[i] = p[1 + i - 1]
    BY <2>1, SubSeqProperties
  <2> QED
    BY <2>2
<1>8. /\ SubSeq(p, n + 1, m) \in Seq(S)
      /\ Len(SubSeq(p, n + 1, m)) = k
      /\ \A i \in 1 .. k : SubSeq(p, n + 1, m)[i] = p[n + i]
  <2>1. \A i \in n + 1 .. m : p[i] \in S
    BY <1>6
  <2>2. /\ SubSeq(p, n + 1, m) \in Seq(S)
        /\ Len(SubSeq(p, n + 1, m)) = IF n + 1 <= m THEN m - (n + 1) + 1 ELSE 0
        /\ \A i \in 1 .. m - (n + 1) + 1 :
             SubSeq(p, n + 1, m)[i] = p[(n + 1) + i - 1]
    BY <2>1, n + 1 \in Int, SubSeqProperties
  <2> QED
    BY <2>2
<1>9. SubSeq(p, 1, n) = q
  <2>1. \A i \in 1 .. n : SubSeq(p, 1, n)[i] = q[i]
    BY <1>1, <1>2, <1>7
  <2> QED
    BY <1>2, <1>4, <1>7, <2>1, SeqEqual
<1>10. SubSeq(p, n + 1, m) = r
  <2>1. \A i \in 1 .. k : SubSeq(p, n + 1, m)[i] = r[i]
    BY <1>1, <1>3, <1>8
  <2>2. r \in Seq(S)
    BY <1>3, <1>5
  <2> QED
    BY <1>3, <1>8, <2>1, <2>2, SeqEqual
<1> QED
  BY <1>5, <1>9, <1>10 DEF p, q, r

-----------------------------------------------------------------------------
(* What the invariant says of the bytes.                                   *)

\* The lengths are natural numbers, and the bytes are consecutive.
LEMMA BytesTyped ==
  ASSUME TypeOK
  PROVE  /\ Len(body) \in Nat /\ Len(held) \in Nat
         /\ HeaderLength \in Nat \ {0}
         /\ LastTaken \in Nat
         /\ {sent, taken, length, remaining, offered} \subseteq Nat
<1>1. body \in Seq(1 .. sent) /\ held \in Seq(1 .. sent)
  BY DEF TypeOK
<1>2. Len(body) \in Nat /\ Len(held) \in Nat
  BY <1>1, LenProperties
<1>3. HeaderLength \in Nat \ {0}
  BY LengthsAssumption
<1>4. {sent, taken, length, remaining, offered} \subseteq Nat
  BY <1>3, LengthsAssumption DEF TypeOK
<1> QED
  BY <1>2, <1>3, <1>4 DEF LastTaken

\* A run of received bytes has the type of body and held.
LEMMA RunTyped ==
  ASSUME NEW a \in Nat, NEW n \in Nat, NEW s \in Nat, n = 0 \/ a + n <= s
  PROVE  Positions(a + 1, a + n) \in Seq(1 .. s)
<1>1. CASE n = 0
  <2>1. a + n = a /\ Positions(a + 1, a) = <<>>
    BY <1>1, PositionsEmpty
  <2> QED
    BY <2>1, EmptySeq
<1>2. CASE a + n <= s
  BY <1>2, PositionsSeq, SeqMonotonic, 1 .. a + n \subseteq 1 .. s
<1> QED
  BY <1>1, <1>2

\* Reading n bytes from the prefetched ones, or receiving n, appends the next
\* n bytes to the body.
LEMMA BodyGrows ==
  ASSUME TypeOK, BytesInv, NEW n \in Nat
  PROVE  body \o Positions(HeaderLength + Len(body) + 1,
                           HeaderLength + Len(body) + n)
           = Positions(HeaderLength + 1, HeaderLength + (Len(body) + n))
<1>1. Len(body) \in Nat /\ HeaderLength \in Nat
  BY BytesTyped
<1>2. body = Positions(HeaderLength + 1, HeaderLength + Len(body))
  BY DEF BytesInv
<1> DEFINE m == Len(body)
<1>3. Positions(HeaderLength + 1, HeaderLength + m)
        \o Positions(HeaderLength + m + 1, HeaderLength + m + n)
        = Positions(HeaderLength + 1, HeaderLength + m + n)
  BY <1>1, PositionsConcat
<1>4. HeaderLength + m + n = HeaderLength + (m + n)
  BY <1>1
<1> QED
  BY <1>2, <1>3, <1>4

\* What a read from the prefetched bytes takes and leaves.
LEMMA PrefetchedRead ==
  ASSUME TypeOK, BytesInv, NEW n \in 0 .. Len(held)
  PROVE  LET end == HeaderLength + Len(body) IN
         /\ SubSeq(held, 1, n) = Positions(end + 1, end + n)
         /\ Len(SubSeq(held, 1, n)) = n
         /\ SubSeq(held, n + 1, Len(held)) = Positions(end + n + 1, LastTaken)
         /\ Len(SubSeq(held, n + 1, Len(held))) = Len(held) - n
<1> DEFINE end == HeaderLength + Len(body)
           m == Len(held)
<1>1. end \in Nat /\ m \in Nat /\ n \in Nat /\ LastTaken = end + m
  BY BytesTyped DEF LastTaken
<1>2. held = Positions(end + 1, end + m)
  BY <1>1 DEF BytesInv
<1> HIDE DEF end, m
<1>3. /\ SubSeq(held, 1, n) = Positions(end + 1, end + n)
      /\ SubSeq(held, n + 1, m) = Positions(end + n + 1, end + m)
  BY <1>1, <1>2, PositionsSplit DEF m
<1>4. Len(Positions(end + 1, end + n)) = n
  BY <1>1, PositionsSeq
<1>5. Len(Positions((end + n) + 1, (end + n) + (m - n))) = m - n
  BY <1>1, m - n \in Nat, end + n \in Nat, PositionsSeq DEF m
<1>6. (end + n) + (m - n) = end + m
  BY <1>1
<1> QED
  BY <1>1, <1>3, <1>4, <1>5, <1>6 DEF end, m

-----------------------------------------------------------------------------
(* The inductive invariant is inductive.                                   *)

ScalarTypes ==
  /\ route \in Routes
  /\ length \in 0 .. MaxContent + 1
  /\ offered \in 0 .. MaxOffered
  /\ sent \in 0 .. HeaderLength + offered
  /\ taken \in 0 .. sent
  /\ {left, current} \subseteq BOOLEAN
  /\ place \in {"HEADER", "QUEUED", "READ", "RECEIVE", "WAIT", "ANSWER", "CLOSED"}
  /\ remaining \in 0 .. length
  /\ idle \in Nat \cup {NotIdle}
  /\ {calling, age, spent, quiet} \subseteq Nat
  /\ lag \in 0 .. MaxLag
  /\ status \in {"NONE", "OK", "INVALID", "BUSY", "INCOMPLETE", "REFUSED"}
  /\ out \in 0 .. AnswerLength

SequenceTypes == {held, body} \subseteq Seq(1 .. sent)

\* TypeOK in two parts.
LEMMA TypesSplit == TypeOK <=> ScalarTypes /\ SequenceTypes
BY DEF TypeOK, ScalarTypes, SequenceTypes

\* The sizes of a read are within what is there and what is to come.
LEMMA SizesBounded ==
  ASSUME ScalarTypes
  PROVE  /\ Capacity \in Nat \ {0}
         /\ Available \in Nat
         /\ ReadSize \in Nat
         /\ ReadSize <= remaining /\ ReadSize <= Available
         /\ LowerOf(Block, Available) \in 0 .. Available
<1>1. Capacity \in Nat \ {0}
  BY LengthsAssumption DEF Capacity
<1>2. {Available, remaining} \subseteq Nat /\ Block \in Nat
  BY LengthsAssumption DEF ScalarTypes, Available
<1> QED
  BY <1>1, <1>2 DEF ReadSize, LowerOf

\* What is left of a body after n bytes.
LEMMA LeftToRead ==
  ASSUME NEW whole \in Nat, NEW rest \in 0 .. whole, NEW n \in Nat, n <= rest
  PROVE  rest - n \in 0 .. whole
OBVIOUS

\* Every step keeps the types of the scalars.
LEMMA ScalarStep ==
  ASSUME TypeOK, BytesInv, [Next]_vars
  PROVE  ScalarTypes'
<1>0. ScalarTypes
  BY TypesSplit
<1> USE <1>0, LengthsAssumption, TimesAssumption
        DEF ScalarTypes, clientVars, bodyVars, answerVars, NotIdle
<1>1. CASE ReadRequest
  <2> DEFINE received == taken + LowerOf(Block, Available)
  <2>1. received \in taken .. sent
    BY SizesBounded DEF Available
  <2>2. /\ taken' = received /\ lag' = 0
        /\ UNCHANGED <<clientVars, current, remaining, out, quiet>>
    BY <1>1 DEF ReadRequest
  <2>3. \/ UNCHANGED <<place, status, age, spent, idle, calling>>
        \/ Dispatch(received - HeaderLength)
        \/ Answers("INVALID")
    BY <1>1 DEF ReadRequest
  <2>4. /\ place' \in {"QUEUED", "ANSWER", place}
        /\ status' \in {"NONE", "OK", "INVALID", "BUSY", status}
        /\ {age', spent', calling'} \subseteq Nat
        /\ idle' \in {idle, NotIdle}
    BY <2>3 DEF Dispatch, Answers
  <2> QED
    BY <2>1, <2>2, <2>4
<1>2. CASE ReadRequestFails
  BY <1>2 DEF ReadRequestFails, Answers
<1>3. CASE StreamingStarts
  BY <1>3 DEF StreamingStarts
<1>4. CASE ReadCalled
  <2>1. CASE HandlerEnds("OK") /\ UNCHANGED <<bodyVars, quiet>>
    BY <1>4, <2>1 DEF ReadCalled, HandlerEnds, Answers
  <2>2. CASE /\ Delivered(SubSeq(held, 1, LowerOf(Len(held), Capacity)))
             /\ remaining # 0 /\ held # <<>>
             /\ UNCHANGED <<taken, place, status, age, spent, idle, calling>>
    <3> DEFINE n == LowerOf(Len(held), Capacity)
    <3>1. Len(held) \in Nat
      BY BytesTyped
    <3>2. n \in 0 .. Len(held)
      BY <3>1, SizesBounded DEF LowerOf
    <3>3. Len(SubSeq(held, 1, n)) = n
      BY <3>2, PrefetchedRead
    <3>4. Len(held) <= remaining
      BY <1>4 DEF ReadCalled, BytesInv, Reading
    <3>5. remaining' = remaining - n /\ quiet' = 0
      BY <2>2, <3>3 DEF Delivered
    <3>6. remaining \in 0 .. length /\ length \in Nat
      OBVIOUS
    <3>7. n \in Nat /\ n <= remaining
      BY <3>1, <3>2, <3>4, <3>6
    <3>8. remaining' \in 0 .. length
      BY <3>5, <3>6, <3>7, LeftToRead
    <3> QED
      BY <1>4, <2>2, <3>5, <3>8 DEF ReadCalled
  <2>3. CASE /\ place' = "RECEIVE" /\ calling' = 0
             /\ UNCHANGED <<bodyVars, status, age, spent, idle, quiet>>
    BY <1>4, <2>3 DEF ReadCalled
  <2> QED
    BY <1>4, <2>1, <2>2, <2>3 DEF ReadCalled
<1>5. CASE ReceivedData
  <2>1. ReadSize \in Nat /\ ReadSize <= remaining /\ ReadSize <= Available
    BY SizesBounded
  <2>2. taken' = taken + ReadSize /\ lag' = 0
        /\ UNCHANGED <<clientVars, current, out>>
    BY <1>5 DEF ReceivedData
  <2>3. taken' \in 0 .. sent
    BY <2>1, <2>2 DEF Available
  <2>4. CASE HandlerEnds("OK") /\ UNCHANGED <<held, body, remaining, quiet>>
    BY <2>2, <2>3, <2>4 DEF HandlerEnds, Answers
  <2>5. CASE /\ Delivered(Positions(taken + 1, taken + ReadSize))
             /\ idle' = IdleAfterData /\ place' = "READ" /\ calling' = 0
             /\ UNCHANGED <<held, status, age, spent>>
    <3>1. Len(Positions(taken + 1, taken + ReadSize)) = ReadSize
      BY <2>1, PositionsSeq, taken \in Nat
    <3>2. remaining' = remaining - ReadSize /\ quiet' = 0
      BY <2>5, <3>1 DEF Delivered
    <3>3. remaining' \in 0 .. length
      BY <2>1, <3>2, LeftToRead, length \in Nat
    <3> QED
      BY <2>2, <2>3, <2>5, <3>2, <3>3 DEF IdleAfterData
  <2> QED
    BY <1>5, <2>4, <2>5 DEF ReceivedData
<1>6. CASE ReceivedNothing
  BY <1>6 DEF ReceivedNothing, HandlerEnds, Answers
<1>7. CASE WaitEnds
  BY <1>7 DEF WaitEnds, HandlerEnds, Answers
<1>8. CASE HandlerRefuses
  BY <1>8 DEF HandlerRefuses, HandlerEnds, Answers
<1>9. CASE SendBytes
  BY <1>9 DEF SendBytes, AgeAfterSend
<1>10. CASE AnswerEnds
  BY <1>10 DEF AnswerEnds
<1>11. CASE ClientSends
  BY <1>11 DEF ClientSends
<1>12. CASE ClientLeaves
  BY <1>12 DEF ClientLeaves
<1>13. CASE SessionChanges
  BY <1>13 DEF SessionChanges
<1>14. CASE Tick
  BY <1>14 DEF Tick
<1>15. CASE UNCHANGED vars
  BY <1>15 DEF vars
<1> QED
  BY <1>1, <1>2, <1>3, <1>4, <1>5, <1>6, <1>7, <1>8, <1>9, <1>10, <1>11,
     <1>12, <1>13, <1>14, <1>15 DEF Next, ServerStep, Closed

\* A step that reads nothing, or of which no handler gets the bytes, keeps the
\* bytes in order.
LEMMA BytesStay ==
  ASSUME TypeOK, BytesInv,
         UNCHANGED <<route, length, held, body, remaining>>,
         \/ /\ taken' = taken
            /\ \/ place' \in {place, "ANSWER", "CLOSED"}
               \/ place \in Reading \cup {"QUEUED"} /\ place' = "READ"
               \/ place = "RECEIVE" /\ place' = "WAIT"
               \/ place = "READ" /\ place' = "RECEIVE" /\ held = <<>> /\ remaining # 0
         \/ taken' >= taken /\ taken' \in Nat /\ place' = "ANSWER"
  PROVE  BytesInv'
<1>1. LastTaken \in Nat /\ taken \in Nat
  BY BytesTyped
<1>2. LastTaken' = LastTaken
  BY DEF LastTaken
<1> QED
  BY <1>1, <1>2 DEF BytesInv, Reading

\* Every step keeps the bytes in order.
LEMMA BytesStep ==
  ASSUME TypeOK, BytesInv, [Next]_vars
  PROVE  BytesInv' /\ Len(body') \in Nat /\ Len(held') \in Nat
<1>0. /\ {Len(body), Len(held), HeaderLength, LastTaken, taken, remaining}
           \subseteq Nat
      /\ ScalarTypes
  BY BytesTyped, TypesSplit
<1> USE DEF clientVars, bodyVars, answerVars
<1>1. CASE ReadRequest
  <2> DEFINE received == taken + LowerOf(Block, Available)
  <2>1. received \in Nat /\ received >= taken
    BY <1>0, SizesBounded
  <2>2. /\ taken' = received
        /\ UNCHANGED <<route, length, body, remaining>>
        /\ place = "HEADER"
    BY <1>1 DEF ReadRequest
  <2>3. body = <<>> /\ held = <<>> /\ Len(body) = 0 /\ Len(held) = 0
    BY <2>2, EmptySeq DEF BytesInv
  <2>4. HeaderLength \in Nat /\ HeaderLength + 0 = HeaderLength
    BY <1>0
  <2>4a. Positions(HeaderLength + 1, HeaderLength) = <<>>
    BY <2>4, PositionsEmpty
  <2> HIDE DEF received
  <2>5. CASE held' = <<>> /\ place' \in {"HEADER", "ANSWER"}
    BY <1>0, <2>2, <2>3, <2>4, <2>4a, <2>5 DEF BytesInv, LastTaken, Reading
  <2>6. CASE /\ received >= HeaderLength
             /\ held' = Positions(HeaderLength + 1, received)
             /\ \/ place' = "ANSWER"
                \/ /\ place' = "QUEUED"
                   /\ received - HeaderLength <= length
                   /\ route # "PLAIN"
    <3> DEFINE h == received - HeaderLength
    <3>1. h \in Nat /\ HeaderLength + h = received
      BY <1>0, <2>1, <2>6
    <3>2. Len(held') = h
      BY <1>0, <2>6, <3>1, PositionsSeq
    <3>3. remaining = length
      BY <1>0, <2>3 DEF BytesInv, ScalarTypes
    <3>4. LastTaken' = received
      BY <1>0, <2>2, <2>3, <3>1, <3>2 DEF LastTaken
    <3> QED
      BY <1>0, <2>2, <2>3, <2>4, <2>4a, <2>6, <3>1, <3>2, <3>3, <3>4
         DEF BytesInv, Reading
  <2>7. \/ held' = <<>> /\ place' \in {"HEADER", "ANSWER"}
        \/ /\ received >= HeaderLength
           /\ held' = Positions(HeaderLength + 1, received)
           /\ \/ place' = "ANSWER"
              \/ /\ place' = "QUEUED"
                 /\ received - HeaderLength <= length
                 /\ route # "PLAIN"
    BY <1>1, <2>2, <2>3
       DEF ReadRequest, Dispatch, Answers, Prefetched, received
  <2> QED
    BY <2>5, <2>6, <2>7
<1>2. CASE ReadCalled
  <2>1. CASE UNCHANGED <<bodyVars>> /\ place' \in {"ANSWER", "RECEIVE"}
    <3>1. place' = "RECEIVE" => held = <<>> /\ remaining # 0
      BY <1>2 DEF ReadCalled, HandlerEnds, Answers
    <3> QED
      BY <1>0, <1>2, <2>1, <3>1, BytesStay DEF ReadCalled
  <2> DEFINE n == LowerOf(Len(held), Capacity)
  <2>2. CASE /\ Delivered(SubSeq(held, 1, n))
             /\ held' = SubSeq(held, n + 1, Len(held))
             /\ UNCHANGED <<taken, place>>
    <3>1. n \in 0 .. Len(held) /\ n \in Nat
      BY <1>0, SizesBounded DEF LowerOf
    <3>2. place = "READ" /\ UNCHANGED <<route, length>>
      BY <1>2 DEF ReadCalled
    <3> HIDE DEF n
    <3>3. body' = Positions(HeaderLength + 1, HeaderLength + (Len(body) + n))
      BY <2>2, <3>1, PrefetchedRead, BodyGrows DEF Delivered
    <3>4. Len(body') = Len(body) + n
      BY <1>0, <3>1, <3>3, Len(body) + n \in Nat, PositionsSeq
    <3>5. Len(held') = Len(held) - n /\ remaining' = remaining - n
      BY <2>2, <3>1, PrefetchedRead DEF Delivered
    <3>6. LastTaken' = LastTaken
      BY <1>0, <3>1, <3>4, <3>5 DEF LastTaken
    <3>7. held' = Positions(HeaderLength + Len(body) + n + 1, LastTaken)
      BY <2>2, <3>1, PrefetchedRead
    <3>8. HeaderLength + Len(body) + n = HeaderLength + Len(body')
      BY <1>0, <3>1, <3>4
    <3>9. body' = Positions(HeaderLength + 1, HeaderLength + Len(body'))
          /\ held' = Positions(HeaderLength + Len(body') + 1, LastTaken')
      BY <3>3, <3>4, <3>6, <3>7, <3>8
    <3>10. /\ LastTaken = taken /\ Len(held) <= remaining
           /\ route # "PLAIN" /\ Len(body) + remaining = length
      BY <3>2 DEF BytesInv, Reading
    <3>11. Len(body') + remaining' = length' /\ Len(held') <= remaining'
           /\ Len(body') \in Nat /\ Len(held') \in Nat
      BY <1>0, <3>1, <3>2, <3>4, <3>5, <3>10
    <3>12. LastTaken' = taken' /\ taken' \in Nat /\ route' # "PLAIN"
           /\ place' = "READ"
      BY <1>0, <2>2, <3>2, <3>6, <3>10
    <3> QED
      BY <3>9, <3>11, <3>12 DEF BytesInv
  <2> QED
    BY <1>2, <2>1, <2>2 DEF ReadCalled, HandlerEnds, Answers
<1>3. CASE ReceivedData
  <2>1. ReadSize \in Nat /\ ReadSize <= remaining
    BY <1>0, SizesBounded
  <2>2. /\ taken' = taken + ReadSize /\ UNCHANGED <<route, length, held>>
        /\ place = "RECEIVE"
    BY <1>3 DEF ReceivedData
  <2>3. CASE place' = "ANSWER" /\ UNCHANGED <<body, remaining>>
    BY <1>0, <2>1, <2>2, <2>3, BytesStay
  <2>4. CASE /\ Delivered(Positions(taken + 1, taken + ReadSize))
             /\ place' = "READ"
    <3>1. /\ held = <<>> /\ Len(held) = 0
          /\ LastTaken = taken /\ route # "PLAIN"
          /\ Len(body) + remaining = length
      BY <2>2, EmptySeq DEF BytesInv, Reading
    <3>2. taken = HeaderLength + Len(body)
      BY <1>0, <3>1 DEF LastTaken
    <3>3. body' = Positions(HeaderLength + 1, HeaderLength + (Len(body) + ReadSize))
      BY <2>1, <2>4, <3>2, BodyGrows DEF Delivered
    <3>4. Len(body') = Len(body) + ReadSize
      BY <1>0, <2>1, <3>3, Len(body) + ReadSize \in Nat, PositionsSeq
    <3>5. remaining' = remaining - ReadSize
      BY <1>0, <2>1, <2>4, PositionsSeq DEF Delivered
    <3>6. HeaderLength + Len(body') = taken' /\ LastTaken' = taken'
          /\ taken' \in Nat
      BY <1>0, <2>1, <2>2, <3>1, <3>2, <3>4 DEF LastTaken
    <3>7. held' = Positions(HeaderLength + Len(body') + 1, LastTaken')
      BY <2>2, <3>1, <3>6, PositionsEmpty
    <3>8. Len(body') + remaining' = length' /\ Len(held') <= remaining'
          /\ Len(body') \in Nat /\ Len(held') \in Nat
      BY <1>0, <2>1, <2>2, <3>1, <3>4, <3>5
    <3> QED
      BY <1>0, <2>2, <2>4, <3>1, <3>3, <3>4, <3>6, <3>7, <3>8
         DEF BytesInv, Reading
  <2> QED
    BY <1>3, <2>2, <2>3, <2>4 DEF ReceivedData, HandlerEnds, Answers
<1>4. CASE \/ ReadRequestFails \/ StreamingStarts \/ ReceivedNothing
           \/ WaitEnds \/ HandlerRefuses
  <2>1. /\ UNCHANGED <<route, length, bodyVars>>
        /\ \/ place' \in {"ANSWER", "CLOSED"}
           \/ place \in Reading \cup {"QUEUED"} /\ place' = "READ"
           \/ place = "RECEIVE" /\ place' = "WAIT"
    BY <1>4 DEF ReadRequestFails, StreamingStarts, ReceivedNothing, WaitEnds,
         HandlerRefuses, HandlerEnds, Answers, Reading
  <2> QED
    BY <1>0, <2>1, BytesStay
<1>5. CASE \/ SendBytes \/ AnswerEnds \/ ClientSends \/ ClientLeaves
           \/ SessionChanges \/ Tick \/ UNCHANGED vars
  <2>1. /\ UNCHANGED <<route, length, bodyVars>>
        /\ place' \in {place, "CLOSED"}
    BY <1>5 DEF SendBytes, AnswerEnds, ClientSends, ClientLeaves,
         SessionChanges, Tick, vars
  <2> QED
    BY <1>0, <2>1, BytesStay
<1> QED
  BY <1>1, <1>2, <1>3, <1>4, <1>5 DEF Next, ServerStep, Closed

ClockTypes ==
  /\ lag \in Nat /\ lag <= MaxLag
  /\ idle = NotIdle \/ idle \in Nat
  /\ calling \in Nat /\ age \in Nat /\ spent \in Nat /\ quiet \in Nat
  /\ place \in {"HEADER", "QUEUED", "READ", "RECEIVE", "WAIT", "ANSWER", "CLOSED"}

LimitTypes ==
  /\ MaxLag \in Nat
  /\ NotIdle \in Int /\ NotIdle < 0
  /\ IoTimeout \in Nat /\ IdleTimeout \in Nat /\ TotalTimeout \in Nat
  /\ IoTimeout > 0 /\ IdleTimeout > 0 /\ TotalTimeout > 0

\* The clocks in a state of the invariant, and after a step from it.
LEMMA ClocksTyped ==
  ASSUME ExchangeInv
  PROVE  /\ ClockTypes /\ LimitTypes
         /\ [Next]_vars => ClockTypes'
<1>1. LimitTypes
  BY TimesAssumption DEF LimitTypes, NotIdle
<1>2. ScalarTypes
  BY TypesSplit DEF ExchangeInv
<1>3. ClockTypes
  BY <1>1, <1>2 DEF ScalarTypes, ClockTypes, LimitTypes
<1>4. ASSUME [Next]_vars
      PROVE  ClockTypes'
  <2>1. ScalarTypes'
    BY <1>4, ScalarStep DEF ExchangeInv
  <2> QED
    BY <1>1, <2>1 DEF ScalarTypes, ClockTypes, LimitTypes
<1> QED
  BY <1>1, <1>3, <1>4

\* The code's ages are those of the history, and within a step of their limit.
LEMMA StageStep ==
  ASSUME ExchangeInv, [Next]_vars
  PROVE  StageInv'
<1>0. ClockTypes /\ ClockTypes' /\ LimitTypes /\ StageInv
  BY ClocksTyped DEF ExchangeInv
<1> USE <1>0 DEF StageInv, Reading, ClockTypes, LimitTypes
<1>1. CASE \/ ReadRequest \/ ReadRequestFails
  <2>1. /\ lag' = 0
        /\ \/ place' = "ANSWER" /\ age' = 0 /\ spent' = 0
           \/ /\ place = "HEADER" /\ place' \in {"HEADER", "QUEUED"}
              /\ UNCHANGED <<age, spent>> /\ age < IoTimeout
    BY <1>1 DEF ReadRequest, ReadRequestFails, ReadRequestInTime, Dispatch,
                Answers
  <2> QED
    BY <2>1
<1>2. CASE StreamingStarts
  BY <1>2 DEF StreamingStarts
<1>3. CASE ReadCalled
  BY <1>3 DEF ReadCalled, HandlerEnds, Answers, TotalElapsed
<1>4. CASE ReceivedData
  BY <1>4 DEF ReceivedData, HandlerEnds, Answers, TotalElapsed
<1>5. CASE ReceivedNothing
  BY <1>5 DEF ReceivedNothing, HandlerEnds, Answers, TotalElapsed
<1>6. CASE WaitEnds
  BY <1>6 DEF WaitEnds, WaitedTooLong, HandlerEnds, Answers, TotalElapsed
<1>7. CASE HandlerRefuses
  BY <1>7 DEF HandlerRefuses, HandlerEnds, Answers
<1>8. CASE SendBytes
  BY <1>8 DEF SendBytes, SendInTime, AgeAfterSend
<1>9. CASE AnswerEnds
  BY <1>9 DEF AnswerEnds
<1>10. CASE ClientSends \/ ClientLeaves \/ SessionChanges \/ UNCHANGED vars
  BY <1>10 DEF ClientSends, ClientLeaves, SessionChanges, vars
<1>11. CASE Tick
  BY <1>11 DEF Tick
<1> QED
  BY <1>1, <1>2, <1>3, <1>4, <1>5, <1>6, <1>7, <1>8, <1>9, <1>10, <1>11
     DEF Next, ServerStep, Closed

\* The idle wait is counted from within a step of the last byte.
LEMMA IdleStep ==
  ASSUME ExchangeInv, [Next]_vars
  PROVE  IdleInv'
<1>0. /\ ClockTypes /\ ClockTypes' /\ LimitTypes /\ IdleInv
      /\ place \in {"HEADER", "RECEIVE", "WAIT"} => held = <<>>
  BY ClocksTyped DEF ExchangeInv, BytesInv
<1> USE <1>0 DEF IdleInv, Reading, ClockTypes, LimitTypes, bodyVars
<1>1. CASE ReadRequest \/ ReadRequestFails
  BY <1>1 DEF ReadRequest, ReadRequestFails, Dispatch, Answers
<1>2. CASE StreamingStarts
  BY <1>2 DEF StreamingStarts
<1>3. CASE ReadCalled
  BY <1>3 DEF ReadCalled, HandlerEnds, Answers, Delivered
<1>4. CASE ReceivedData
  BY <1>4 DEF ReceivedData, HandlerEnds, Answers, Delivered, IdleAfterData
<1>5. CASE ReceivedNothing
  BY <1>5 DEF ReceivedNothing, HandlerEnds, Answers
<1>6. CASE WaitEnds
  BY <1>6 DEF WaitEnds, WaitedTooLong, HandlerEnds, Answers
<1>7. CASE HandlerRefuses
  BY <1>7 DEF HandlerRefuses, HandlerEnds, Answers
<1>8. CASE SendBytes
  BY <1>8 DEF SendBytes
<1>9. CASE AnswerEnds
  BY <1>9 DEF AnswerEnds
<1>10. CASE ClientSends \/ ClientLeaves \/ SessionChanges \/ UNCHANGED vars
  BY <1>10 DEF ClientSends, ClientLeaves, SessionChanges, vars
<1>11. CASE Tick
  BY <1>11 DEF Tick
<1> QED
  BY <1>1, <1>2, <1>3, <1>4, <1>5, <1>6, <1>7, <1>8, <1>9, <1>10, <1>11
     DEF Next, ServerStep, Closed

\* An answer OK to a streaming request is given with nothing left to read.
LEMMA AnswerStep ==
  ASSUME ExchangeInv, [Next]_vars
  PROVE  AnswerInv'
<1>0. ScalarTypes /\ AnswerInv
  BY TypesSplit DEF ExchangeInv
<1> USE <1>0 DEF AnswerInv, ScalarTypes, clientVars, bodyVars, answerVars
<1>1. CASE ReadRequest
  BY <1>1 DEF ReadRequest, Dispatch, Answers
<1>2. CASE ReadRequestFails
  BY <1>2 DEF ReadRequestFails, Answers
<1>3. CASE StreamingStarts
  BY <1>3 DEF StreamingStarts
<1>4. CASE ReadCalled
  BY <1>4 DEF ReadCalled, HandlerEnds, Answers
<1>5. CASE ReceivedData
  BY <1>5 DEF ReceivedData, HandlerEnds, Answers
<1>6. CASE ReceivedNothing
  BY <1>6 DEF ReceivedNothing, HandlerEnds, Answers
<1>7. CASE WaitEnds
  BY <1>7 DEF WaitEnds, HandlerEnds, Answers
<1>8. CASE HandlerRefuses
  BY <1>8 DEF HandlerRefuses, HandlerEnds, Answers
<1>9. CASE SendBytes \/ AnswerEnds
  BY <1>9 DEF SendBytes, AnswerEnds
<1>10. CASE \/ ClientSends \/ ClientLeaves \/ SessionChanges \/ Tick
            \/ UNCHANGED vars
  BY <1>10 DEF ClientSends, ClientLeaves, SessionChanges, Tick, vars
<1> QED
  BY <1>1, <1>2, <1>3, <1>4, <1>5, <1>6, <1>7, <1>8, <1>9, <1>10
     DEF Next, ServerStep, Closed

\* The invariant is inductive: consecutive bytes up to what was received have
\* the type of a sequence of positions.
LEMMA ExchangeStep ==
  ASSUME ExchangeInv, [Next]_vars
  PROVE  ExchangeInv'
<1>1. ScalarTypes' /\ BytesInv' /\ Len(body') \in Nat /\ Len(held') \in Nat
  BY ScalarStep, BytesStep DEF ExchangeInv
<1>2. /\ HeaderLength \in Nat /\ sent' \in Nat /\ taken' \in Nat
      /\ taken' <= sent'
  BY <1>1, BytesTyped, LengthsAssumption DEF ExchangeInv, ScalarTypes
<1>3. Len(<<>>) = 0
  BY EmptySeq
<1>4. Len(body') = 0 \/ HeaderLength + Len(body') <= sent'
  BY <1>1, <1>2, <1>3 DEF BytesInv, LastTaken
<1>5. Len(held') = 0 \/ HeaderLength + Len(body') + Len(held') <= sent'
  BY <1>1, <1>2, <1>3 DEF BytesInv, LastTaken
<1>6. body' \in Seq(1 .. sent')
  BY <1>1, <1>2, <1>4, RunTyped DEF BytesInv
<1>7. held' \in Seq(1 .. sent')
  <2>1. HeaderLength + Len(body') \in Nat
    BY <1>1, <1>2
  <2>2. held' = Positions((HeaderLength + Len(body')) + 1,
                          (HeaderLength + Len(body')) + Len(held'))
    BY <1>1 DEF BytesInv, LastTaken
  <2> QED
    BY <1>1, <1>2, <1>5, <2>1, <2>2, RunTyped
<1>8. TypeOK'
  BY <1>1, <1>6, <1>7 DEF TypeOK, ScalarTypes
<1> QED
  BY <1>1, <1>8, AnswerStep, StageStep, IdleStep DEF ExchangeInv

\* At the start no byte has come, and no time has passed.
LEMMA ExchangeInitially == Init => ExchangeInv
<1> SUFFICES ASSUME Init
             PROVE  ExchangeInv
  OBVIOUS
<1> USE LengthsAssumption, TimesAssumption DEF Init
<1>1. HeaderLength \in Nat /\ Len(<<>>) = 0 /\ <<>> \in Seq(1 .. 0)
  BY EmptySeq
<1>2. HeaderLength + 0 = HeaderLength /\ HeaderLength + 0 + 0 = HeaderLength
  BY <1>1
<1>3. Positions(HeaderLength + 1, HeaderLength) = <<>>
  BY <1>1, PositionsEmpty
<1>4. BytesInv
  BY <1>1, <1>2, <1>3 DEF BytesInv, LastTaken, Reading
<1>5. TypeOK
  <2>1. sent \in 0 .. HeaderLength + offered /\ remaining \in 0 .. length
    BY <1>1
  <2>2. {held, body} \subseteq Seq(1 .. sent)
    BY <1>1
  <2>3. taken \in 0 .. sent /\ lag \in 0 .. MaxLag /\ out \in 0 .. AnswerLength
    OBVIOUS
  <2>4. {calling, age, spent, quiet} \subseteq Nat
    OBVIOUS
  <2>5. {left, current} \subseteq BOOLEAN
    BY Zenon
  <2>6. /\ length \in 0 .. MaxContent + 1
        /\ offered \in 0 .. MaxOffered
        /\ route \in Routes
        /\ idle \in Nat \cup {NotIdle}
        /\ place = "HEADER" /\ status = "NONE"
    OBVIOUS
  <2> QED
    BY ONLY <2>1, <2>2, <2>3, <2>4, <2>5, <2>6 DEF TypeOK
<1>6. AnswerInv /\ StageInv /\ IdleInv
  BY DEF AnswerInv, StageInv, IdleInv, NotIdle, Reading
<1> QED
  BY <1>4, <1>5, <1>6 DEF ExchangeInv

-----------------------------------------------------------------------------
(* The results.                                                            *)

\* Every variable keeps its type.
THEOREM ExchangeTypes == Spec => []TypeOK
<1>1. ExchangeInv => TypeOK
  BY DEF ExchangeInv
<1> QED
  BY <1>1, ExchangeInitially, ExchangeStep, PTL DEF Spec

\* The handler gets the body whole and in order, wherever the network cuts the
\* stream and whatever the lengths of blocks and buffers are; complete is
\* answered only to a complete body.
THEOREM BodyArrivesIntact == Spec => []BodyIntact
<1>1. ExchangeInv => BodyIntact
  BY DEF ExchangeInv, BytesInv, AnswerInv, BodyIntact
<1> QED
  BY <1>1, ExchangeInitially, ExchangeStep, PTL DEF Spec

\* No stage of an exchange outlives its timeout by more than its steps.
THEOREM ExchangesEnd == Spec => []ExchangeBounded
<1>1. ExchangeInv => ExchangeBounded
  <2> SUFFICES ASSUME ExchangeInv
               PROVE  ExchangeBounded
    OBVIOUS
  <2>1. ClockTypes /\ LimitTypes /\ StageInv /\ IdleInv
    BY ClocksTyped DEF ExchangeInv
  <2> QED
    BY <2>1
       DEF ClockTypes, LimitTypes, StageInv, IdleInv, Reading, ExchangeBounded
<1> QED
  BY <1>1, ExchangeInitially, ExchangeStep, PTL DEF Spec

\* An upload's body is given up only for a stated reason.
THEOREM UploadsAreAwaited == Spec => UploadBodyAwaited
<1>1. ASSUME ExchangeInv, [Next]_vars
      PROVE  AwaitedUnlessLate("UPLOAD")
  <2> USE <1>1
  <2> SUFFICES ASSUME route = "UPLOAD", place \in {"RECEIVE", "WAIT"},
                      status' = "INCOMPLETE"
               PROVE  \/ ~current
                      \/ left /\ Available = 0
                      \/ age >= TotalTimeout
                      \/ quiet >= IdleTimeout
    BY DEF AwaitedUnlessLate
  <2>1. ClockTypes /\ LimitTypes /\ IdleInv /\ status = "NONE"
    BY ClocksTyped DEF ExchangeInv, AnswerInv
  <2>2. calling <= quiet /\ idle <= quiet
    BY <2>1 DEF IdleInv, Reading
  <2>3. ReceivedData \/ ReceivedNothing \/ WaitEnds
    BY <2>1 DEF Next, ServerStep, ReadRequest, ReadRequestFails,
         StreamingStarts, ReadCalled, HandlerRefuses, SendBytes, AnswerEnds,
         ClientSends, ClientLeaves, SessionChanges, Tick, Closed, vars,
         answerVars
  <2>4. CASE ReceivedData
    BY <2>1, <2>2, <2>4, TimesAssumption
       DEF ReceivedData, TotalElapsed, ClockTypes, LimitTypes
  <2>5. CASE ReceivedNothing
    BY <2>1, <2>2, <2>5, TimesAssumption
       DEF ReceivedNothing, TotalElapsed, ClockTypes, LimitTypes
  <2>6. CASE WaitEnds
    BY <2>1, <2>2, <2>6, TimesAssumption
       DEF WaitEnds, WaitedTooLong, TotalElapsed, ClockTypes, LimitTypes
  <2> QED
    BY <2>3, <2>4, <2>5, <2>6
<1>2. ExchangeInv /\ [Next]_vars => AwaitedUnlessLate("UPLOAD")
  BY <1>1
<1> QED
  BY <1>2, ExchangeInitially, ExchangeStep, PTL DEF Spec, UploadBodyAwaited
=============================================================================

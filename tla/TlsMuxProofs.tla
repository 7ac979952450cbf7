------------------------------ MODULE TlsMuxProofs ------------------------------
(***************************************************************************)
(* Theorem about TlsMux: a stream carries what was written on it.          *)
(*                                                                         *)
(* The frames of all streams share a pipe, streams come into an end's      *)
(* table with their open frame and leave it with their Close, and data of  *)
(* a stream that is not in the table is dropped.  Nothing is missing in    *)
(* between because the open frame comes once and before all data, and      *)
(* nobody returns to the table; so as long as an end expects a stream, the *)
(* pipe holds, in order, exactly the data it has not received.  Once it    *)
(* has closed the stream, any frame may be dropped or, if readLoop found   *)
(* the stream before, queued; what is left in the pipe is still later than *)
(* all that was received.                                                  *)
(***************************************************************************)
EXTENDS TlsMux, TLAPS

Frames == [type : Kinds, id : Streams, number : Nat]

TypeInv ==
  /\ limit \in Nat
  /\ table \in [Ends -> SUBSET Streams] /\ acceptCh \in [Ends -> Seq(Streams)]
  /\ jobs \in [Ends -> SUBSET Jobs] /\ token \in [Ends -> Jobs \cup {Free}]
  /\ pipe \in [Ends -> Seq(Frames)] /\ found \in [Ends -> BOOLEAN]
  /\ used \in [Ends -> SUBSET Streams] /\ local \in [Ends -> SUBSET Streams]
  /\ incoming \in [Ends -> [Streams -> Seq(Frames)]] /\ read \in [Ends -> [Streams -> Seq(Frames)]]
  /\ wrote \in [Ends -> [Streams -> Nat]]

-----------------------------------------------------------------------------
(* Types.                                                                  *)

LEMMA JobIsPair ==
  /\ \A j \in Jobs : j[1] \in Kinds /\ j[2] \in Streams /\ j = <<j[1], j[2]>>
  /\ \A k, i : Free # <<k, i>>
<1>1. \A j \in Jobs : j[1] \in Kinds /\ j[2] \in Streams /\ j = <<j[1], j[2]>>
  BY DEF Jobs
<1>2. \A k, i : Len(<<k, i>>) = 2
  OBVIOUS
<1>3. Len(Free) = 0
  BY DEF Free
<1> QED
  BY <1>1, <1>2, <1>3

LEMMA InitTypes == ASSUME MuxAssumption, MuxInit PROVE TypeInv
BY DEF MuxAssumption, MuxInit, TypeInv, Free

LEMMA UserTypes ==
  ASSUME TypeInv,
         \/ \E i \in Streams : OpenStream(i)
         \/ \E e \in Ends, i \in Streams : Write(e, i) \/ Close(e, i) \/ RemoveStream(e, i)
         \/ \E e \in Ends : AcceptStream(e) \/ CloseSession(e)
  PROVE  TypeInv'
<1>1. ASSUME NEW i \in Streams, OpenStream(i) PROVE TypeInv'
  <2>1. <<"open", i>> \in Jobs
    BY DEF Jobs, Kinds
  <2> QED
    BY <1>1, <2>1 DEF OpenStream, TypeInv, reading, Ends
<1>2. ASSUME NEW e \in Ends, NEW i \in Streams, Write(e, i) PROVE TypeInv'
  <2>1. <<"data", i>> \in Jobs
    BY DEF Jobs, Kinds
  <2> QED
    BY <1>2, <2>1 DEF Write, TypeInv, session, stream, reading
<1>3. ASSUME NEW e \in Ends, NEW i \in Streams, Close(e, i) PROVE TypeInv'
  BY <1>3 DEF Close, TypeInv, session, writing, reading
<1>6. ASSUME NEW e \in Ends, NEW i \in Streams, RemoveStream(e, i) PROVE TypeInv'
  <2>1. <<"close", i>> \in Jobs
    BY DEF Jobs, Kinds
  <2> QED
    BY <1>6, <2>1 DEF RemoveStream, TypeInv, stream, reading
<1>4. ASSUME NEW e \in Ends, AcceptStream(e) PROVE TypeInv'
  <2>1. acceptCh[e] \in Seq(Streams) /\ acceptCh[e] # <<>>
    BY <1>4 DEF AcceptStream, TypeInv
  <2>2. Head(acceptCh[e]) \in Streams /\ Tail(acceptCh[e]) \in Seq(Streams)
    BY <2>1
  <2> QED
    BY <1>4, <2>2 DEF AcceptStream, TypeInv, writing, reading
<1>5. ASSUME NEW e \in Ends, CloseSession(e) PROVE TypeInv'
  BY <1>5 DEF CloseSession, TypeInv, writing, stream, reading
<1> QED
  BY <1>1, <1>2, <1>3, <1>4, <1>5, <1>6

LEMMA ReadTypes ==
  ASSUME TypeInv, NEW e \in Ends, NEW i \in Streams, ReadLook(e, i) \/ ReadSelect(e, i)
  PROVE  TypeInv'
<1>1. UNCHANGED <<limit, table, acceptCh, jobs, token, pipe, found, used, local, wrote>>
  BY DEF ReadLook, ReadSelect, session, writing
<1>2. \/ UNCHANGED <<read, incoming>>
      \/ /\ incoming[e][i] # <<>>
         /\ read' = Put(read, e, i, Append(read[e][i], Head(incoming[e][i])))
         /\ incoming' = Put(incoming, e, i, Tail(incoming[e][i]))
  BY DEF ReadLook, ReadSelect
<1>3. CASE UNCHANGED <<read, incoming>>
  BY <1>1, <1>3 DEF TypeInv
<1>4. CASE /\ incoming[e][i] # <<>>
           /\ read' = Put(read, e, i, Append(read[e][i], Head(incoming[e][i])))
           /\ incoming' = Put(incoming, e, i, Tail(incoming[e][i]))
  <2>1. incoming[e][i] \in Seq(Frames) /\ read[e][i] \in Seq(Frames)
    BY DEF TypeInv
  <2>2. Append(read[e][i], Head(incoming[e][i])) \in Seq(Frames) /\ Tail(incoming[e][i]) \in Seq(Frames)
    BY <1>4, <2>1
  <2>3. /\ read' \in [Ends -> [Streams -> Seq(Frames)]]
        /\ incoming' \in [Ends -> [Streams -> Seq(Frames)]]
    BY <1>4, <2>2 DEF Put, TypeInv
  <2> QED
    BY <1>1, <2>3 DEF TypeInv
<1> QED
  BY <1>2, <1>3, <1>4

LEMMA WriterTypes ==
  ASSUME TypeInv, NEW e \in Ends,
         TakeToken(e) \/ GiveUp(e) \/ WriteFrame(e) \/ SendTimesOut(e)
  PROVE  TypeInv'
<1>1. CASE TakeToken(e)
  BY <1>1 DEF TakeToken, TypeInv, session, stream, reading
<1>2. CASE GiveUp(e)
  <2>1. PICK j \in Jobs : jobs' = [jobs EXCEPT ![e] = @ \ {j}] /\ Failed(e, j)
    BY <1>2 DEF GiveUp, TypeInv
  <2>2. j[2] \in Streams
    BY JobIsPair
  <2> QED
    BY <1>2, <2>1, <2>2 DEF GiveUp, Failed, TypeInv, reading
<1>3. CASE SendFails(e)
  <2>1. token[e] \in Jobs
    BY <1>3 DEF SendFails, TypeInv
  <2>2. token[e][2] \in Streams
    BY <2>1, JobIsPair
  <2> QED
    BY <1>3, <2>2 DEF SendFails, Failed, TypeInv, reading
<1>4. CASE SendTimesOut(e)
  BY <1>4 DEF SendTimesOut, TypeInv, stream, reading
<1>5. CASE SendFrame(e)
  <2>1. token[e] \in Jobs /\ Peer(e) \in Ends
    BY <1>5 DEF SendFrame, TypeInv, Peer, Ends
  <2>2. token[e][1] \in Kinds /\ token[e][2] \in Streams
    BY <2>1, JobIsPair
  <2>3. Frame(e, token[e]) \in Frames
    BY <2>2 DEF Frame, Frames, TypeInv
  <2>4. pipe' \in [Ends -> Seq(Frames)]
    BY <1>5, <2>1, <2>3 DEF SendFrame, TypeInv
  <2>5. wrote' \in [Ends -> [Streams -> Nat]]
    BY <1>5, <2>2 DEF SendFrame, TypeInv
  <2> QED
    BY <1>5, <2>4, <2>5 DEF SendFrame, TypeInv, session, stream, reading
<1> QED
  BY <1>1, <1>2, <1>3, <1>4, <1>5 DEF WriteFrame

LEMMA ReaderTypes == ASSUME TypeInv, NEW e \in Ends, ReadLoop(e) PROVE TypeInv'
<1>1. pipe[e] \in Seq(Frames) /\ acceptCh[e] \in Seq(Streams)
  BY DEF TypeInv
<1>2. pipe[e] # <<>> => First(e).id \in Streams /\ First(e) \in Frames /\ Tail(pipe[e]) \in Seq(Frames)
  <2>1. pipe[e] # <<>> => First(e) \in Frames /\ Tail(pipe[e]) \in Seq(Frames)
    BY <1>1 DEF First
  <2> QED
    BY <2>1 DEF Frames
<1>3. CASE ReceiveOpen(e)
  BY <1>1, <1>2, <1>3 DEF ReceiveOpen, Reads, Consumed, TypeInv, writing, stream, reading
<1>4. CASE ReceiveTooMany(e) \/ ReadFails(e)
  BY <1>4 DEF ReceiveTooMany, ReadFails, TypeInv, writing, stream, reading
<1>5. CASE ReceiveData(e)
  <2>1. Append(incoming[e][First(e).id], First(e)) \in Seq(Frames)
    BY <1>2, <1>5 DEF ReceiveData, Reads, TypeInv
  <2>2. incoming' \in [Ends -> [Streams -> Seq(Frames)]]
    BY <1>2, <1>5, <2>1 DEF ReceiveData, Put, TypeInv
  <2> QED
    BY <1>2, <1>5, <2>2 DEF ReceiveData, Reads, Consumed, TypeInv, session, writing, reading
<1>6. CASE DropData(e)
  BY <1>2, <1>6 DEF DropData, Reads, Consumed, TypeInv, session, writing, stream, reading
<1>7. CASE ReceiveClose(e)
  BY <1>2, <1>7 DEF ReceiveClose, Reads, Consumed, TypeInv, session, writing, reading
<1>8. CASE FindStream(e)
  BY <1>8 DEF FindStream, TypeInv, session, writing, stream, reading
<1> QED
  BY <1>3, <1>4, <1>5, <1>6, <1>7, <1>8 DEF ReadLoop

LEMMA StepTypes == ASSUME TypeInv, [MuxNext]_muxVars PROVE TypeInv'
<1>1. CASE UNCHANGED muxVars
  BY <1>1 DEF muxVars, session, writing, stream, reading, TypeInv
<1> QED
  BY <1>1, UserTypes, ReadTypes, WriterTypes, ReaderTypes DEF MuxNext, Read

-----------------------------------------------------------------------------
(* Where the frames of a stream are.                                       *)

FrameAt(e, p, type, i) == p \in DOMAIN pipe[e] /\ pipe[e][p].type = type /\ pipe[e][p].id = i
Opened == used["client"]
Data(e, i) == read[e][i] \o incoming[e][i]
Received(e, i) == Len(read[e][i]) + Len(incoming[e][i])

\* Whatever there is of a stream, the client has opened it.
OpenedByClient ==
  /\ \A e \in Ends : /\ table[e] \subseteq Opened
                     /\ \A k \in Kinds, i \in Streams : Blocked(e, k, i) => i \in Opened
                     /\ \A p \in DOMAIN pipe[e] : pipe[e][p].id \in Opened
                     /\ \A i \in Streams : wrote[e][i] > 0 => i \in Opened
  /\ used["server"] \subseteq Opened
  /\ \A k \in DOMAIN acceptCh["server"] : acceptCh["server"][k] \in Opened

\* The server opens nothing.
OnlyClientOpens ==
  /\ \A i \in Streams : ~Blocked("server", "open", i)
  /\ \A p \in DOMAIN pipe["client"] : pipe["client"][p].type # "open"
  /\ acceptCh["client"] = <<>>

\* A stream's open frame comes once and before its data.
OpenIsFirst(i) ==
  /\ Blocked("client", "open", i) =>
       /\ i \notin table["server"] /\ wrote["client"][i] = 0 /\ ~Blocked("client", "data", i)
       /\ \A p \in DOMAIN pipe["server"] : ~FrameAt("server", p, "open", i)
       /\ Received("server", i) = 0
  /\ ~(<<"open", i>> \in jobs["client"] /\ token["client"] = <<"open", i>>)
  /\ \A p \in DOMAIN pipe["server"] : FrameAt("server", p, "open", i) =>
       /\ i \notin table["server"] /\ Received("server", i) = 0
       /\ \A q \in DOMAIN pipe["server"] :
            /\ FrameAt("server", q, "open", i) => q = p
            /\ FrameAt("server", q, "data", i) => p < q

OpenComesFirst == \A i \in Streams : OpenIsFirst(i)

\* What an end will still take from its pipe, all of it.
Expects(e, i) ==
  /\ i \in table[e] \/ \E p \in DOMAIN pipe[e] : FrameAt(e, p, "open", i)
  /\ i \notin local[e]

\* The data frames of a stream are in the pipe in the order of their numbers, and of
\* a stream the end expects there are all that it has not received.
InOrder(e, i) ==
  /\ \A p \in DOMAIN pipe[e] : FrameAt(e, p, "data", i) => pipe[e][p].number \in 1..wrote[Peer(e)][i]
  /\ \A p, q \in DOMAIN pipe[e] :
       FrameAt(e, p, "data", i) /\ FrameAt(e, q, "data", i) /\ p < q
       => pipe[e][p].number < pipe[e][q].number
  /\ Expects(e, i) =>
       /\ \A p \in DOMAIN pipe[e] : FrameAt(e, p, "data", i) => pipe[e][p].number > Received(e, i)
       /\ \A n \in (Received(e, i) + 1)..wrote[Peer(e)][i] :
            \E p \in DOMAIN pipe[e] : FrameAt(e, p, "data", i) /\ pipe[e][p].number = n

DataIsInOrder == \A e \in Ends, i \in Streams : InOrder(e, i)

\* What one end has received of one stream is what was written, up to some frame.
Faithful(e, i) ==
  /\ Len(Data(e, i)) <= wrote[Peer(e)][i]
  /\ \A k \in DOMAIN Data(e, i) : Data(e, i)[k] = [type |-> "data", id |-> i, number |-> k]

\* It was written, and in this order, and before all that is in the pipe.
Increasing(e, i) ==
  /\ \A k \in DOMAIN Data(e, i) :
       Data(e, i)[k] \in [type : {"data"}, id : {i}, number : 1..wrote[Peer(e)][i]]
  /\ \A j, k \in DOMAIN Data(e, i) : j < k => Data(e, i)[j].number < Data(e, i)[k].number
  /\ \A k \in DOMAIN Data(e, i) : \A p \in DOMAIN pipe[e] :
       FrameAt(e, p, "data", i) => Data(e, i)[k].number < pipe[e][p].number

IsRead(e, i) == Increasing(e, i) /\ (i \notin local[e] => Faithful(e, i))

ReadIsInOrder == \A e \in Ends, i \in Streams : IsRead(e, i)

\* The stream that readLoop has found is that of the first frame, and whoever takes
\* it out of the table has closed it.
FoundIsFirst ==
  \A e \in Ends : found[e] =>
    \E i \in Streams : FrameAt(e, 1, "data", i) /\ (i \in table[e] \/ i \in local[e])

MuxInv ==
  OpenedByClient /\ OnlyClientOpens /\ OpenComesFirst /\ DataIsInOrder /\ ReadIsInOrder /\ FoundIsFirst

LEMMA ReceivedIsData ==
  ASSUME TypeInv, NEW e \in Ends, NEW i \in Streams
  PROVE  /\ Received(e, i) \in Nat /\ Received(e, i) = Len(Data(e, i))
         /\ Data(e, i) \in Seq(Frames) /\ DOMAIN Data(e, i) = 1..Received(e, i)
<1>2. read[e][i] \in Seq(Frames) /\ incoming[e][i] \in Seq(Frames)
  BY DEF TypeInv
<1>3. Len(read[e][i] \o incoming[e][i]) = Len(read[e][i]) + Len(incoming[e][i])
  BY <1>2
<1>4. Len(read[e][i]) \in Nat /\ Len(incoming[e][i]) \in Nat
  BY <1>2
<1>5. Received(e, i) \in Nat
  <2>1. PICK a \in Nat, b \in Nat : a = Len(read[e][i]) /\ b = Len(incoming[e][i])
    BY <1>4
  <2>2. Received(e, i) = a + b
    BY <2>1 DEF Received
  <2> QED
    BY <2>2
<1>6. Received(e, i) = Len(Data(e, i)) /\ Data(e, i) \in Seq(Frames)
  BY <1>2, <1>3 DEF Received, Data
<1> QED
  BY <1>5, <1>6

LEMMA NothingWasReceived ==
  ASSUME TypeInv, NEW e \in Ends, NEW i \in Streams, IsRead(e, i), wrote[Peer(e)][i] = 0
  PROVE  Received(e, i) = 0
<1>1. PICK n \in Nat : n = Received(e, i) /\ DOMAIN Data(e, i) = 1..n
  BY ReceivedIsData
<1>2. 1 \notin DOMAIN Data(e, i)
  <2> SUFFICES ASSUME 1 \in DOMAIN Data(e, i) PROVE FALSE
    OBVIOUS
  <2>1. Data(e, i)[1].number \in 1..0
    BY DEF IsRead, Increasing
  <2> QED
    BY <2>1
<1> QED
  BY <1>1, <1>2

LEMMA ReadStays ==
  ASSUME NEW e \in Ends, NEW i \in Streams, IsRead(e, i),
         Data(e, i)' = Data(e, i), local[e] \subseteq local'[e], UNCHANGED wrote,
         \A p : FrameAt(e, p, "data", i)' =>
           \E q \in DOMAIN pipe[e] : FrameAt(e, q, "data", i) /\ pipe'[e][p] = pipe[e][q]
  PROVE  IsRead(e, i)'
<1>1. i \notin local'[e] => Faithful(e, i)'
  BY DEF IsRead, Faithful
<1>2. Increasing(e, i)'
  BY DEF IsRead, Increasing
<1> QED
  BY <1>1, <1>2 DEF IsRead

LEMMA ReadsStay ==
  ASSUME ReadIsInOrder, UNCHANGED <<pipe, wrote, read, incoming>>,
         \A e \in Ends : local[e] \subseteq local'[e]
  PROVE  ReadIsInOrder'
<1> SUFFICES ASSUME NEW e \in Ends, NEW i \in Streams PROVE IsRead(e, i)'
  BY DEF ReadIsInOrder
<1>1. IsRead(e, i) /\ local[e] \subseteq local'[e] /\ Data(e, i)' = Data(e, i)
  BY DEF ReadIsInOrder, Data
<1>2. \A p : FrameAt(e, p, "data", i)' =>
        p \in DOMAIN pipe[e] /\ FrameAt(e, p, "data", i) /\ pipe'[e][p] = pipe[e][p]
  BY DEF FrameAt
<1> QED
  BY <1>1, <1>2, ReadStays

LEMMA InitInv == ASSUME MuxAssumption, MuxInit PROVE MuxInv
<1>1. /\ \A e \in Ends : \A k, i : ~Blocked(e, k, i)
      /\ \A e \in Ends : pipe[e] = <<>> /\ table[e] = {} /\ acceptCh[e] = <<>> /\ used[e] = {}
      /\ \A e \in Ends : ~found[e]
      /\ \A e \in Ends, i \in Streams : /\ wrote[e][i] = 0 /\ read[e][i] = <<>> /\ incoming[e][i] = <<>>
                                      /\ Received(e, i) = 0
  BY JobIsPair DEF MuxInit, Blocked, Received
<1>2. "client" \in Ends /\ "server" \in Ends /\ \A e \in Ends : Peer(e) \in Ends
  BY DEF Ends, Peer
<1>3. OpenedByClient
  BY <1>1, <1>2 DEF OpenedByClient
<1>4. OnlyClientOpens
  BY <1>1, <1>2 DEF OnlyClientOpens
<1>5. OpenComesFirst
  BY <1>1, <1>2 DEF OpenComesFirst, OpenIsFirst, Blocked
<1>6. DataIsInOrder
  BY <1>1, <1>2 DEF DataIsInOrder, InOrder, Expects
<1>7. ReadIsInOrder
  <2> SUFFICES ASSUME NEW e \in Ends, NEW i \in Streams PROVE IsRead(e, i)
    BY DEF ReadIsInOrder
  <2>1. DOMAIN Data(e, i) = {} /\ Len(Data(e, i)) = 0 /\ wrote[Peer(e)][i] = 0
    <3>1. Data(e, i) = <<>>
      BY <1>1 DEF Data
    <3>2. Len(<<>>) = 0 /\ DOMAIN <<>> = {}
      OBVIOUS
    <3> QED
      BY <1>1, <1>2, <3>1, <3>2
  <2> QED
    BY <2>1 DEF IsRead, Faithful, Increasing
<1>8. FoundIsFirst
  BY <1>1 DEF FoundIsFirst
<1> QED
  BY <1>3, <1>4, <1>5, <1>6, <1>7, <1>8 DEF MuxInv

\* A step that moves no frame: streams are closed and leave the table, jobs come,
\* go or get the token, and readLoop finds a stream.
JobsAllowed ==
  /\ \A e \in Ends : /\ table'[e] \subseteq table[e] /\ table[e] \ table'[e] \subseteq local'[e]
                     /\ local[e] \subseteq local'[e]
  /\ \A e \in Ends, i \in Streams :
       /\ Blocked(e, "open", i)' => Blocked(e, "open", i)
       /\ Blocked(e, "data", i)' => Blocked(e, "data", i) \/ (i \in used[e] /\ ~Blocked(e, "open", i))
       /\ Blocked(e, "close", i)' => Blocked(e, "close", i) \/ i \in table[e]
  /\ \A i \in Streams :
       <<"open", i>> \in jobs'["client"] /\ token'["client"] = <<"open", i>>
       => <<"open", i>> \in jobs["client"] /\ token["client"] = <<"open", i>>

LEMMA JobsKeepInv ==
  ASSUME MuxInv, JobsAllowed, UNCHANGED <<acceptCh, pipe, found, used, wrote, read, incoming>>
  PROVE  MuxInv'
<1>1. "client" \in Ends /\ "server" \in Ends
  BY DEF Ends
<1>2. /\ \A e \in Ends, i \in Streams : Received(e, i)' = Received(e, i)
      /\ \A e \in Ends : \A p, k, i : FrameAt(e, p, k, i)' = FrameAt(e, p, k, i)
      /\ \A e \in Ends, i \in Streams : Expects(e, i)' => Expects(e, i)
      /\ \A e \in Ends, i \in Streams : Data(e, i)' = Data(e, i)
  BY DEF Received, FrameAt, Expects, JobsAllowed, Data
<1>3. OpenedByClient'
  <2>1. \A e \in Ends : used[e] \subseteq Opened
    BY DEF MuxInv, OpenedByClient, Opened, Ends
  <2>2. \A e \in Ends, k \in Kinds, i \in Streams : Blocked(e, k, i)' => i \in Opened
    BY <2>1 DEF JobsAllowed, MuxInv, OpenedByClient, Kinds
  <2>3. \A e \in Ends : table'[e] \subseteq Opened
    BY DEF JobsAllowed, MuxInv, OpenedByClient
  <2> QED
    BY <2>2, <2>3 DEF MuxInv, OpenedByClient, Opened
<1>4. OnlyClientOpens'
  BY <1>1 DEF MuxInv, OnlyClientOpens, JobsAllowed
<1>5. OpenComesFirst'
  <2> SUFFICES ASSUME NEW i \in Streams PROVE OpenIsFirst(i)'
    BY DEF OpenComesFirst
  <2>1. /\ i \in table'["server"] => i \in table["server"]
        /\ Blocked("client", "open", i)' => Blocked("client", "open", i)
        /\ Blocked("client", "data", i)' => Blocked("client", "data", i) \/ ~Blocked("client", "open", i)
        /\ <<"open", i>> \in jobs'["client"] /\ token'["client"] = <<"open", i>>
           => <<"open", i>> \in jobs["client"] /\ token["client"] = <<"open", i>>
    BY <1>1 DEF JobsAllowed
  <2>2. OpenIsFirst(i)
    BY DEF MuxInv, OpenComesFirst
  <2> QED
    BY <1>1, <1>2, <2>1, <2>2 DEF OpenIsFirst
<1>6. DataIsInOrder'
  BY <1>2 DEF MuxInv, DataIsInOrder, InOrder
<1>7. ReadIsInOrder'
  BY ReadsStay DEF MuxInv, JobsAllowed
<1>8. FoundIsFirst'
  BY <1>2 DEF MuxInv, FoundIsFirst, JobsAllowed
<1> QED
  BY <1>3, <1>4, <1>5, <1>6, <1>7, <1>8 DEF MuxInv

\* Write, Close, the write token and everything that fails.
LEMMA JobStepsAreAllowed ==
  ASSUME TypeInv, MuxInv, NEW e \in Ends,
         \/ \E i \in Streams : Write(e, i) \/ Close(e, i) \/ RemoveStream(e, i)
         \/ TakeToken(e) \/ GiveUp(e) \/ SendFails(e) \/ SendTimesOut(e)
  PROVE  JobsAllowed /\ UNCHANGED <<acceptCh, pipe, found, used, wrote, read, incoming>>
<1>1. UNCHANGED <<acceptCh, pipe, found, used, wrote, read, incoming>>
  BY DEF Write, Close, RemoveStream, TakeToken, GiveUp, SendFails, SendTimesOut,
         session, writing, stream, reading
<1>2. ASSUME NEW i \in Streams, Write(e, i) PROVE JobsAllowed
  <2>1. /\ i \in used[e] /\ ~Blocked(e, "open", i) /\ UNCHANGED <<table, token, local>>
        /\ jobs' = [jobs EXCEPT ![e] = @ \cup {<<"data", i>>}]
    BY <1>2 DEF Write, session, stream
  <2>2. \A d \in Ends : \A k, x : Blocked(d, k, x)' <=> Blocked(d, k, x) \/ (d = e /\ k = "data" /\ x = i)
    BY <2>1 DEF Blocked, TypeInv
  <2>3. \A d \in Ends : \A x : <<"open", x>> \in jobs'[d] => <<"open", x>> \in jobs[d]
    BY <2>1 DEF TypeInv
  <2> QED
    BY <2>1, <2>2, <2>3 DEF JobsAllowed, Ends
<1>7. ASSUME NEW i \in Streams, Close(e, i) PROVE JobsAllowed
  <2>1. /\ UNCHANGED <<table, jobs, token>> /\ local' = [local EXCEPT ![e] = @ \cup {i}]
    BY <1>7 DEF Close, session, writing
  <2>2. \A d \in Ends : local[d] \subseteq local'[d]
    BY <2>1 DEF TypeInv
  <2> QED
    BY <2>1, <2>2 DEF JobsAllowed, Blocked
<1>3. ASSUME NEW i \in Streams, RemoveStream(e, i) PROVE JobsAllowed
  <2>1. /\ i \in local[e] \cap table[e] /\ UNCHANGED <<token, local>>
        /\ table' = [table EXCEPT ![e] = @ \ {i}]
        /\ jobs' = [jobs EXCEPT ![e] = @ \cup {<<"close", i>>}]
    BY <1>3 DEF RemoveStream, stream
  <2>2. \A d \in Ends : \A k, x : Blocked(d, k, x)' <=> Blocked(d, k, x) \/ (d = e /\ k = "close" /\ x = i)
    BY <2>1 DEF Blocked, TypeInv
  <2>3. \A d \in Ends : \A x : <<"open", x>> \in jobs'[d] => <<"open", x>> \in jobs[d]
    BY <2>1 DEF TypeInv
  <2>4. \A d \in Ends : table'[d] \subseteq table[d] /\ table[d] \ table'[d] \subseteq local[d]
    BY <2>1 DEF TypeInv
  <2> QED
    BY <2>1, <2>2, <2>3, <2>4 DEF JobsAllowed, Ends
<1>4. CASE TakeToken(e)
  <2>1. PICK j \in jobs[e] : /\ token' = [token EXCEPT ![e] = j]
                             /\ jobs' = [jobs EXCEPT ![e] = @ \ {j}]
    BY <1>4 DEF TakeToken
  <2>2. \A d \in Ends : \A k, x : Blocked(d, k, x)' => Blocked(d, k, x)
    BY <2>1 DEF Blocked, TypeInv
  <2>3. \A d \in Ends : /\ d # e => jobs'[d] = jobs[d] /\ token'[d] = token[d]
                        /\ d = e => token'[d] \notin jobs'[d]
    BY <2>1 DEF TypeInv
  <2>4. UNCHANGED <<table, local>>
    BY <1>4 DEF TakeToken, session, stream
  <2> QED
    BY <1>1, <2>2, <2>3, <2>4 DEF JobsAllowed, Ends
<1>5. CASE GiveUp(e)
  <2>1. PICK j \in jobs[e] : jobs' = [jobs EXCEPT ![e] = @ \ {j}] /\ Failed(e, j)
    BY <1>5 DEF GiveUp
  <2>2. /\ UNCHANGED token
        /\ \A d \in Ends : /\ table'[d] \subseteq table[d] /\ table[d] \ table'[d] \subseteq local'[d]
                           /\ local[d] \subseteq local'[d]
    BY <1>5, <2>1 DEF GiveUp, Failed, TypeInv
  <2>3. \A d \in Ends : jobs'[d] \subseteq jobs[d]
    BY <2>1 DEF TypeInv
  <2> QED
    BY <1>1, <2>2, <2>3 DEF JobsAllowed, Blocked, Ends
<1>6. CASE SendFails(e) \/ SendTimesOut(e)
  <2>1. UNCHANGED jobs /\ token' = [token EXCEPT ![e] = Free]
    BY <1>6 DEF SendFails, SendTimesOut
  <2>2. \A d \in Ends : /\ table'[d] \subseteq table[d] /\ table[d] \ table'[d] \subseteq local'[d]
                        /\ local[d] \subseteq local'[d]
    <3>1. CASE SendFails(e)
      BY <3>1 DEF SendFails, Failed, TypeInv
    <3>2. CASE SendTimesOut(e)
      BY <3>2 DEF SendTimesOut, stream
    <3> QED
      BY <1>6, <3>1, <3>2
  <2>3. \A d \in Ends : \A k, i : token'[d] = <<k, i>> => token[d] = <<k, i>>
    BY <2>1, JobIsPair DEF TypeInv
  <2> QED
    BY <1>1, <2>1, <2>2, <2>3 DEF JobsAllowed, Blocked, Ends
<1> QED
  BY <1>1, <1>2, <1>3, <1>4, <1>5, <1>6, <1>7

LEMMA OpenKeepsInv == ASSUME TypeInv, MuxInv, NEW s \in Streams, OpenStream(s) PROVE MuxInv'
<1>1. "client" \in Ends /\ "server" \in Ends /\ "client" # "server" /\ Peer("client") = "server"
  BY DEF Ends, Peer
<1>2. /\ s \notin Opened
      /\ used' = [used EXCEPT !["client"] = @ \cup {s}]
      /\ table' = [table EXCEPT !["client"] = @ \cup {s}]
      /\ jobs' = [jobs EXCEPT !["client"] = @ \cup {<<"open", s>>}]
      /\ UNCHANGED <<acceptCh, token, wrote, pipe, found, local, read, incoming>>
  BY DEF OpenStream, Opened, reading
<1>3. /\ \A e \in Ends, i \in Streams : Received(e, i)' = Received(e, i)
      /\ \A e \in Ends : \A p, k, i : FrameAt(e, p, k, i)' = FrameAt(e, p, k, i)
      /\ \A e \in Ends : \A k, i : Blocked(e, k, i)' <=> Blocked(e, k, i) \/ (e = "client" /\ k = "open" /\ i = s)
      /\ \A e \in Ends : table'[e] = IF e = "client" THEN table[e] \cup {s} ELSE table[e]
      /\ Opened' = Opened \cup {s} /\ used'["server"] = used["server"]
  BY <1>1, <1>2 DEF Received, FrameAt, Blocked, Opened, TypeInv
<1>4. /\ s \notin table["server"]
      /\ \A e \in Ends, k \in Kinds : ~Blocked(e, k, s)
      /\ \A e \in Ends : \A p, k : ~FrameAt(e, p, k, s)
      /\ \A e \in Ends : wrote[e][s] = 0 /\ Received(e, s) = 0
  <2>1. \A e \in Ends : wrote[e][s] \in Nat /\ ~(wrote[e][s] > 0)
    BY <1>1, <1>2 DEF MuxInv, OpenedByClient, TypeInv
  <2>2. \A e \in Ends : wrote[e][s] = 0
    BY <2>1
  <2>3. ASSUME NEW e \in Ends PROVE Received(e, s) = 0
    <3>1. IsRead(e, s) /\ Peer(e) \in Ends
      BY DEF MuxInv, ReadIsInOrder, Ends, Peer
    <3> QED
      BY <2>2, <3>1, NothingWasReceived
  <2>4. s \notin table["server"] /\ \A e \in Ends, k \in Kinds : ~Blocked(e, k, s)
    BY <1>1, <1>2 DEF MuxInv, OpenedByClient
  <2>5. \A e \in Ends : \A p, k : ~FrameAt(e, p, k, s)
    BY <1>2 DEF MuxInv, OpenedByClient, FrameAt
  <2> QED
    BY <2>2, <2>3, <2>4, <2>5
<1>5. OpenedByClient'
  BY <1>1, <1>2, <1>3 DEF MuxInv, OpenedByClient
<1>6. OnlyClientOpens'
  BY <1>1, <1>2, <1>3 DEF MuxInv, OnlyClientOpens
<1>7. OpenComesFirst'
  <2> SUFFICES ASSUME NEW i \in Streams PROVE OpenIsFirst(i)'
    BY DEF OpenComesFirst
  <2>1. CASE i = s
    <3>1. "open" \in Kinds /\ "data" \in Kinds
      BY DEF Kinds
    <3>2. ~Blocked("client", "open", s) /\ ~Blocked("client", "data", s)
      BY <1>1, <1>4, <3>1
    <3>3. token["client"] # <<"open", s>>
      BY <3>2 DEF Blocked
    <3>4. /\ \A p : ~FrameAt("server", p, "open", s)' /\ wrote'["client"][s] = 0
          /\ ~Blocked("client", "data", s)' /\ s \notin table'["server"] /\ Received("server", s)' = 0
      BY <1>1, <1>2, <1>3, <1>4, <3>2
    <3> QED
      BY <1>2, <2>1, <3>3, <3>4 DEF OpenIsFirst
  <2>2. CASE i # s
    <3>1. Blocked("client", "open", i)' <=> Blocked("client", "open", i)
      BY <1>1, <1>3, <2>2
    <3>2. <<"open", i>> \in jobs'["client"] => <<"open", i>> \in jobs["client"]
      BY <1>1, <1>2, <2>2 DEF TypeInv
    <3>3. OpenIsFirst(i) /\ (Blocked("client", "data", i)' <=> Blocked("client", "data", i))
      BY <1>1, <1>3, <2>2 DEF MuxInv, OpenComesFirst
    <3>4. i \in table'["server"] => i \in table["server"]
      BY <1>1, <1>3
    <3> QED
      BY <1>1, <1>2, <1>3, <3>1, <3>2, <3>3, <3>4 DEF OpenIsFirst
  <2> QED
    BY <2>1, <2>2
<1>8. DataIsInOrder'
  <2>1. \A e \in Ends, i \in Streams : i # s => (Expects(e, i)' => Expects(e, i))
    BY <1>2, <1>3 DEF Expects
  <2>2. \A e \in Ends : Peer(e) \in Ends
    BY DEF Ends, Peer
  <2> SUFFICES ASSUME NEW e \in Ends, NEW i \in Streams PROVE InOrder(e, i)'
    BY DEF DataIsInOrder
  <2>3. CASE i = s
    <3>1. /\ \A p : ~FrameAt(e, p, "data", i)
          /\ Received(e, i) = 0 /\ wrote[Peer(e)][i] = 0
      BY <1>4, <2>2, <2>3
    <3> QED
      BY <1>2, <1>3, <3>1 DEF InOrder
  <2>4. CASE i # s
    <3>1. InOrder(e, i) /\ (Expects(e, i)' => Expects(e, i))
      BY <2>1, <2>4 DEF MuxInv, DataIsInOrder
    <3> QED
      BY <1>2, <1>3, <3>1 DEF InOrder
  <2> QED
    BY <2>3, <2>4
<1>9. ReadIsInOrder'
  BY <1>2, ReadsStay DEF MuxInv
<1>10. FoundIsFirst'
  BY <1>2, <1>3 DEF MuxInv, FoundIsFirst
<1> QED
  BY <1>5, <1>6, <1>7, <1>8, <1>9, <1>10 DEF MuxInv

LEMMA AcceptKeepsInv == ASSUME TypeInv, MuxInv, NEW e \in Ends, AcceptStream(e) PROVE MuxInv'
<1>1. "client" \in Ends /\ "server" \in Ends
  BY DEF Ends
<1>2. e = "server" /\ acceptCh["server"] # <<>> /\ acceptCh["server"] \in Seq(Streams)
  BY DEF AcceptStream, MuxInv, OnlyClientOpens, Ends, TypeInv
<1>3. /\ used' = [used EXCEPT ![e] = @ \cup {Head(acceptCh[e])}]
      /\ acceptCh' = [acceptCh EXCEPT ![e] = Tail(@)]
      /\ UNCHANGED <<table, jobs, token, pipe, found, local, wrote, read, incoming>>
  BY DEF AcceptStream, writing, reading
<1>4. /\ used'["client"] = used["client"] /\ acceptCh'["client"] = acceptCh["client"]
      /\ used'["server"] = used["server"] \cup {Head(acceptCh["server"])}
      /\ acceptCh'["server"] = Tail(acceptCh["server"])
  BY <1>1, <1>2, <1>3 DEF TypeInv
<1>5. /\ \A d \in Ends, i \in Streams : Received(d, i)' = Received(d, i)
      /\ \A d \in Ends, i \in Streams : Expects(d, i)' = Expects(d, i)
      /\ \A d \in Ends : \A p, k, i : FrameAt(d, p, k, i)' = FrameAt(d, p, k, i)
      /\ \A d \in Ends : \A k, i : Blocked(d, k, i)' = Blocked(d, k, i)
      /\ Opened' = Opened
  BY <1>3, <1>4 DEF Received, FrameAt, Blocked, Opened, Expects
<1>6. OpenedByClient'
  <2>1. /\ Head(acceptCh["server"]) = acceptCh["server"][1] /\ 1 \in DOMAIN acceptCh["server"]
        /\ \A k \in DOMAIN acceptCh'["server"] :
              k + 1 \in DOMAIN acceptCh["server"] /\ acceptCh'["server"][k] = acceptCh["server"][k + 1]
    BY <1>2, <1>4
  <2>2. /\ used'["server"] \subseteq Opened
        /\ \A k \in DOMAIN acceptCh'["server"] : acceptCh'["server"][k] \in Opened
    BY <1>4, <2>1 DEF MuxInv, OpenedByClient
  <2> QED
    BY <1>3, <1>5, <2>2 DEF MuxInv, OpenedByClient
<1>7. OnlyClientOpens' /\ ReadIsInOrder' /\ FoundIsFirst'
  <2>1. OnlyClientOpens'
    BY <1>1, <1>3, <1>4, <1>5 DEF MuxInv, OnlyClientOpens
  <2>2. ReadIsInOrder'
    BY <1>3, ReadsStay DEF MuxInv
  <2>3. FoundIsFirst'
    BY <1>3, <1>5 DEF MuxInv, FoundIsFirst
  <2> QED
    BY <2>1, <2>2, <2>3
<1>8. OpenComesFirst' /\ DataIsInOrder'
  BY <1>1, <1>3, <1>5 DEF MuxInv, OpenComesFirst, OpenIsFirst, DataIsInOrder, InOrder
<1> QED
  BY <1>6, <1>7, <1>8 DEF MuxInv

LEMMA AppendMoves ==
  ASSUME NEW S, NEW r \in Seq(S), NEW q \in Seq(S), NEW f \in S
  PROVE  r \o Append(q, f) = Append(r \o q, f) /\ r \o q \in Seq(S)
<1>1. /\ Len(r) \in Nat /\ Len(q) \in Nat /\ r \o q \in Seq(S) /\ Append(q, f) \in Seq(S)
      /\ Len(r \o q) = Len(r) + Len(q) /\ Len(Append(q, f)) = Len(q) + 1
  OBVIOUS
<1>2. /\ r \o Append(q, f) \in Seq(S) /\ Append(r \o q, f) \in Seq(S)
      /\ Len(r \o Append(q, f)) = Len(r) + Len(q) + 1 /\ Len(Append(r \o q, f)) = Len(r) + Len(q) + 1
  BY <1>1
<1>3. ASSUME NEW k \in 1..(Len(r) + Len(q) + 1) PROVE (r \o Append(q, f))[k] = Append(r \o q, f)[k]
  <2>1. CASE k <= Len(r)
    BY <1>1, <2>1
  <2>2. CASE k > Len(r) /\ k <= Len(r) + Len(q)
    BY <1>1, <2>2
  <2>3. CASE k = Len(r) + Len(q) + 1
    BY <1>1, <2>3
  <2> QED
    BY <1>1, <2>1, <2>2, <2>3
<1> QED
  BY <1>1, <1>2, <1>3

LEMMA Appended ==
  ASSUME NEW S, NEW q \in Seq(S), NEW f \in S, NEW n \in Nat, n = Len(q)
  PROVE  /\ Len(Append(q, f)) = n + 1 /\ DOMAIN Append(q, f) = 1..(n + 1)
         /\ Append(q, f)[n + 1] = f
         /\ \A k \in 1..n : k \in DOMAIN q /\ Append(q, f)[k] = q[k]
OBVIOUS

LEMMA HeadMoves ==
  ASSUME NEW S, NEW r \in Seq(S), NEW q \in Seq(S), q # <<>>
  PROVE  /\ Append(r, Head(q)) \o Tail(q) = r \o q
         /\ Len(Append(r, Head(q))) + Len(Tail(q)) = Len(r) + Len(q)
<1>1. /\ Head(q) \in S /\ Tail(q) \in Seq(S) /\ Append(r, Head(q)) \in Seq(S)
      /\ Len(q) \in Nat \ {0} /\ Len(Tail(q)) = Len(q) - 1 /\ Len(Append(r, Head(q))) = Len(r) + 1
      /\ Len(r) \in Nat
  OBVIOUS
<1>2. Len(Append(r, Head(q))) + Len(Tail(q)) = Len(r) + Len(q)
  BY <1>1
<1>3. /\ Append(r, Head(q)) \o Tail(q) \in Seq(S) /\ r \o q \in Seq(S)
      /\ Len(Append(r, Head(q)) \o Tail(q)) = Len(r \o q)
  BY <1>1, <1>2
<1>4. \A k \in 1..Len(r \o q) : (Append(r, Head(q)) \o Tail(q))[k] = (r \o q)[k]
  <2> SUFFICES ASSUME NEW k \in 1..Len(r \o q) PROVE (Append(r, Head(q)) \o Tail(q))[k] = (r \o q)[k]
    OBVIOUS
  <2>1. CASE k <= Len(r)
    BY <1>1, <2>1
  <2>2. CASE k = Len(r) + 1
    BY <1>1, <2>2
  <2>3. CASE k > Len(r) + 1
    BY <1>1, <2>3
  <2> QED
    BY <1>1, <2>1, <2>2, <2>3
<1> QED
  BY <1>2, <1>3, <1>4

LEMMA ReadKeepsInv ==
  ASSUME TypeInv, MuxInv, NEW e \in Ends, NEW s \in Streams, ReadLook(e, s) \/ ReadSelect(e, s)
  PROVE  MuxInv'
<1>1. UNCHANGED <<table, acceptCh, jobs, token, pipe, found, used, local, wrote>>
  BY DEF ReadLook, ReadSelect, session, writing
<1>2. \A d \in Ends, i \in Streams :
        /\ read'[d][i] \o incoming'[d][i] = read[d][i] \o incoming[d][i]
        /\ Received(d, i)' = Received(d, i)
  <2>1. CASE UNCHANGED <<read, incoming>>
    BY <2>1 DEF Received
  <2>2. CASE /\ incoming[e][s] # <<>>
             /\ read' = Put(read, e, s, Append(read[e][s], Head(incoming[e][s])))
             /\ incoming' = Put(incoming, e, s, Tail(incoming[e][s]))
    <3>1. /\ read'[e][s] = Append(read[e][s], Head(incoming[e][s]))
          /\ incoming'[e][s] = Tail(incoming[e][s])
          /\ \A d \in Ends, i \in Streams :
               d # e \/ i # s => read'[d][i] = read[d][i] /\ incoming'[d][i] = incoming[d][i]
      BY <2>2 DEF Put, TypeInv
    <3>2. read[e][s] \in Seq(Frames) /\ incoming[e][s] \in Seq(Frames)
      BY DEF TypeInv
    <3>3. /\ read'[e][s] \o incoming'[e][s] = read[e][s] \o incoming[e][s]
          /\ Len(read'[e][s]) + Len(incoming'[e][s]) = Len(read[e][s]) + Len(incoming[e][s])
      <4>1. /\ Append(read[e][s], Head(incoming[e][s])) \o Tail(incoming[e][s]) = read[e][s] \o incoming[e][s]
            /\ Len(Append(read[e][s], Head(incoming[e][s]))) + Len(Tail(incoming[e][s]))
               = Len(read[e][s]) + Len(incoming[e][s])
        BY <2>2, <3>2, HeadMoves
      <4> QED
        BY <3>1, <4>1
    <3> SUFFICES ASSUME NEW d \in Ends, NEW i \in Streams
                 PROVE  /\ read'[d][i] \o incoming'[d][i] = read[d][i] \o incoming[d][i]
                        /\ Received(d, i)' = Received(d, i)
      OBVIOUS
    <3>4. CASE d = e /\ i = s
      BY <3>3, <3>4 DEF Received
    <3>5. CASE d # e \/ i # s
      BY <3>1, <3>5 DEF Received
    <3> QED
      BY <3>4, <3>5
  <2> QED
    BY <2>1, <2>2 DEF ReadLook, ReadSelect
<1>3. /\ \A d \in Ends, i \in Streams : Expects(d, i)' = Expects(d, i)
      /\ \A d \in Ends : \A p, k, i : FrameAt(d, p, k, i)' = FrameAt(d, p, k, i)
      /\ \A d \in Ends : \A k, i : Blocked(d, k, i)' = Blocked(d, k, i)
      /\ "client" \in Ends /\ "server" \in Ends
  BY <1>1 DEF FrameAt, Blocked, Expects, Ends
<1>4. OpenedByClient' /\ OnlyClientOpens'
  BY <1>1, <1>3 DEF MuxInv, OpenedByClient, OnlyClientOpens, Opened
<1>5. OpenComesFirst' /\ DataIsInOrder'
  <2>a. \A d \in Ends, i \in Streams : Received(d, i)' = Received(d, i)
    BY <1>2
  <2>1. ASSUME NEW i \in Streams, OpenIsFirst(i) PROVE OpenIsFirst(i)'
    BY <1>1, <1>3, <2>1, <2>a DEF OpenIsFirst
  <2>2. ASSUME NEW d \in Ends, NEW i \in Streams, InOrder(d, i) PROVE InOrder(d, i)'
    BY <1>1, <1>3, <2>2, <2>a DEF InOrder
  <2> QED
    BY <2>1, <2>2 DEF MuxInv, OpenComesFirst, DataIsInOrder
<1>6. ReadIsInOrder'
  <2> SUFFICES ASSUME NEW d \in Ends, NEW i \in Streams PROVE IsRead(d, i)'
    BY DEF ReadIsInOrder
  <2>1. IsRead(d, i) /\ Data(d, i)' = Data(d, i) /\ local[d] \subseteq local'[d]
    BY <1>1, <1>2 DEF MuxInv, ReadIsInOrder, Data
  <2>2. \A p : FrameAt(d, p, "data", i)' =>
          p \in DOMAIN pipe[d] /\ FrameAt(d, p, "data", i) /\ pipe'[d][p] = pipe[d][p]
    BY <1>1 DEF FrameAt
  <2> QED
    BY <1>1, <2>1, <2>2, ReadStays
<1>7. FoundIsFirst'
  BY <1>1, <1>3 DEF MuxInv, FoundIsFirst
<1> QED
  BY <1>4, <1>5, <1>6, <1>7 DEF MuxInv

-----------------------------------------------------------------------------
(* A frame is sent.                                                        *)

LEMMA SendKeepsInv == ASSUME TypeInv, MuxInv, NEW e \in Ends, SendFrame(e) PROVE MuxInv'
<1>1. /\ "client" \in Ends /\ "server" \in Ends /\ Peer(e) \in Ends /\ Peer(Peer(e)) = e /\ Peer(e) # e
      /\ \A d \in Ends : Peer(d) \in Ends /\ (d # Peer(e) => Peer(d) # e /\ d = e)
  BY DEF Ends, Peer
<1>2. PICK k \in Kinds, s \in Streams : token[e] = <<k, s>>
  BY JobIsPair DEF SendFrame, TypeInv
<1>3. PICK number \in Nat : number = IF k = "data" THEN wrote[e][s] + 1 ELSE 0
  BY <1>2 DEF TypeInv
<1>4. PICK f : f = [type |-> k, id |-> s, number |-> number]
  OBVIOUS
<1>5. PICK d \in Ends : d = Peer(e)
  BY <1>1
<1>6. /\ pipe' = [pipe EXCEPT ![d] = Append(@, f)]
      /\ token' = [token EXCEPT ![e] = Free]
      /\ UNCHANGED <<table, acceptCh, jobs, found, used, local, read, incoming>>
  BY <1>2, <1>3, <1>4, <1>5 DEF SendFrame, Frame, session, stream, reading
<1>7. /\ k # "data" => UNCHANGED wrote
      /\ k = "data" => wrote' = [wrote EXCEPT ![e][s] = @ + 1]
  BY <1>2 DEF SendFrame
<1>8. PICK m \in Nat : m = Len(pipe[d]) /\ DOMAIN pipe[d] = 1..m
  BY DEF TypeInv
<1>9. /\ DOMAIN pipe'[d] = 1..(m + 1) /\ pipe'[d][m + 1] = f
      /\ \A p \in 1..m : pipe'[d][p] = pipe[d][p]
      /\ pipe'[e] = pipe[e]
  <2>1. pipe[d] \in Seq(Frames) /\ f \in Frames
    BY <1>4 DEF TypeInv, Frames
  <2>2. pipe'[d] = Append(pipe[d], f) /\ pipe'[e] = pipe[e]
    BY <1>1, <1>5, <1>6 DEF TypeInv
  <2> QED
    BY <1>8, <2>1, <2>2
<1>10. /\ \A p, t, i : FrameAt(d, p, t, i)' <=> FrameAt(d, p, t, i) \/ (p = m + 1 /\ t = k /\ i = s)
       /\ \A p, t, i : FrameAt(e, p, t, i)' <=> FrameAt(e, p, t, i)
  BY <1>4, <1>8, <1>9 DEF FrameAt
<1>11. /\ \A c \in Ends, i \in Streams : Received(c, i)' = Received(c, i)
       /\ \A c \in Ends : \A t, i : Blocked(c, t, i)' => Blocked(c, t, i)
       /\ \A i : <<"open", i>> \in jobs'["client"] /\ token'["client"] = <<"open", i>>
                 => <<"open", i>> \in jobs["client"] /\ token["client"] = <<"open", i>>
       /\ Blocked(e, k, s) /\ Opened' = Opened
  <2>1. \A c \in Ends : \A t, i : token'[c] = <<t, i>> => token[c] = <<t, i>>
    BY <1>6, JobIsPair DEF TypeInv
  <2> QED
    BY <1>1, <1>2, <1>6, <2>1 DEF Received, Blocked, Opened
<1>12. /\ \A c \in Ends, i \in Streams : wrote'[c][i] \in Nat /\ wrote[c][i] \in Nat
       /\ \A c \in Ends, i \in Streams : c # e \/ k # "data" \/ i # s => wrote'[c][i] = wrote[c][i]
       /\ k = "data" => wrote'[e][s] = wrote[e][s] + 1 /\ number = wrote'[e][s]
  <2>1. CASE k = "data"
    <3>1. wrote \in [Ends -> [Streams -> Nat]]
      BY DEF TypeInv
    <3>2. \A c \in Ends, i \in Streams :
            wrote'[c][i] = IF c = e /\ i = s THEN wrote[c][i] + 1 ELSE wrote[c][i]
      BY <1>7, <2>1, <3>1
    <3>3. \A c \in Ends, i \in Streams : wrote[c][i] \in Nat
      BY <3>1
    <3> QED
      BY <1>3, <2>1, <3>2, <3>3
  <2>2. CASE k # "data"
    BY <1>7, <2>2 DEF TypeInv
  <2> QED
    BY <2>1, <2>2
<1>13. s \in Opened
  BY <1>11 DEF MuxInv, OpenedByClient
<1>14. k = "open" => e = "client" /\ d = "server"
  <2>1. k = "open" => e # "server"
    BY <1>11 DEF MuxInv, OnlyClientOpens
  <2> QED
    BY <1>5, <2>1 DEF Ends, Peer
<1>15. OpenedByClient'
  <2>1. \A c \in Ends : \A p \in DOMAIN pipe'[c] : pipe'[c][p].id \in Opened
    <3>1. \A p \in DOMAIN pipe'[d] : pipe'[d][p].id \in Opened
      BY <1>4, <1>8, <1>9, <1>13 DEF MuxInv, OpenedByClient
    <3>2. \A p \in DOMAIN pipe'[e] : pipe'[e][p].id \in Opened
      BY <1>9 DEF MuxInv, OpenedByClient
    <3> QED
      BY <1>1, <1>5, <3>1, <3>2
  <2>2. \A c \in Ends, i \in Streams : wrote'[c][i] > 0 => i \in Opened
    BY <1>12, <1>13 DEF MuxInv, OpenedByClient
  <2> QED
    BY <1>6, <1>11, <2>1, <2>2 DEF MuxInv, OpenedByClient
<1>16. OnlyClientOpens'
  <2>1. \A p \in DOMAIN pipe'["client"] : pipe'["client"][p].type # "open"
    <3>1. CASE d = "client"
      BY <1>4, <1>8, <1>9, <1>14, <3>1 DEF MuxInv, OnlyClientOpens
    <3>2. CASE e = "client"
      BY <1>9, <3>2 DEF MuxInv, OnlyClientOpens
    <3> QED
      BY <1>1, <1>5, <3>1, <3>2 DEF Ends
  <2> QED
    BY <1>1, <1>6, <1>11, <2>1 DEF MuxInv, OnlyClientOpens
<1>17. OpenComesFirst'
  <2> SUFFICES ASSUME NEW i \in Streams PROVE OpenIsFirst(i)'
    BY DEF OpenComesFirst
  <2>1. OpenIsFirst(i)
    BY DEF MuxInv, OpenComesFirst
  <2>2. UNCHANGED table /\ Received("server", i)' = Received("server", i)
    BY <1>1, <1>6, <1>11
  <2>3. /\ Blocked("client", "open", i)' => Blocked("client", "open", i)
        /\ Blocked("client", "data", i)' => Blocked("client", "data", i)
        /\ ~(<<"open", i>> \in jobs'["client"] /\ token'["client"] = <<"open", i>>)
    BY <1>1, <1>11, <2>1 DEF OpenIsFirst
  <2>4. CASE \/ e = "server" \/ i # s \/ k = "close"
    <3>1. /\ \A p : FrameAt("server", p, "open", i)' <=> FrameAt("server", p, "open", i)
          /\ \A p : FrameAt("server", p, "data", i)' <=> FrameAt("server", p, "data", i)
      BY <1>1, <1>5, <1>10, <2>4 DEF Ends
    <3>2. wrote'["client"][i] = wrote["client"][i]
      BY <1>1, <1>12, <2>4
    <3>3. \A p : FrameAt("server", p, "open", i) => p \in DOMAIN pipe["server"]
      BY DEF FrameAt
    <3>4. \A p : FrameAt("server", p, "data", i) => p \in DOMAIN pipe["server"]
      BY DEF FrameAt
    <3> QED
      BY <2>1, <2>2, <2>3, <3>1, <3>2, <3>3, <3>4 DEF OpenIsFirst
  <2>5. CASE e = "client" /\ i = s /\ k = "open"
    <3>1. d = "server" /\ Blocked("client", "open", s) /\ "server" \in Ends
      BY <1>1, <1>11, <1>14, <2>5
    <3>2. /\ s \notin table["server"] /\ Received("server", s) = 0 /\ wrote["client"][s] = 0
          /\ \A p : ~FrameAt("server", p, "open", s)
      BY <2>1, <2>5, <3>1 DEF OpenIsFirst, FrameAt
    <3>3. \A p : ~FrameAt("server", p, "data", s)
      <4>1. Peer("server") = "client"
        BY DEF Peer
      <4>2. \A p \in DOMAIN pipe["server"] :
              FrameAt("server", p, "data", s) => pipe["server"][p].number \in 1..0
        <5>1. InOrder("server", s)
          BY <3>1 DEF MuxInv, DataIsInOrder
        <5> QED
          BY <3>2, <4>1, <5>1 DEF InOrder
      <4> QED
        BY <4>2 DEF FrameAt
    <3>4. ~Blocked("client", "open", s)'
      <4>1. token["client"] = <<"open", s>> /\ <<"open", s>> \notin jobs["client"]
        BY <1>2, <2>1, <2>5 DEF OpenIsFirst
      <4>2. token'["client"] = Free
        BY <1>1, <1>6, <2>5 DEF TypeInv
      <4> QED
        BY <1>6, <4>1, <4>2, JobIsPair DEF Blocked
    <3>5. /\ \A p : FrameAt("server", p, "open", s)' => p = m + 1
          /\ \A p : ~FrameAt("server", p, "data", s)'
      BY <1>10, <2>5, <3>1, <3>2, <3>3
    <3> QED
      BY <2>2, <2>3, <2>5, <3>2, <3>4, <3>5 DEF OpenIsFirst
  <2>6. CASE e = "client" /\ i = s /\ k = "data"
    <3>1. d = "server" /\ Blocked("client", "data", s)
      BY <1>5, <1>11, <2>6 DEF Peer
    <3>2. ~Blocked("client", "open", s)
      BY <2>1, <2>6, <3>1 DEF OpenIsFirst
    <3>3. /\ \A p : FrameAt("server", p, "open", s)' <=> FrameAt("server", p, "open", s)
          /\ \A p : FrameAt("server", p, "data", s)' <=> FrameAt("server", p, "data", s) \/ p = m + 1
      BY <1>10, <2>6, <3>1
    <3>4. \A p : FrameAt("server", p, "open", s) => p \in DOMAIN pipe["server"] /\ p \in 1..m /\ p < m + 1
      BY <1>8, <3>1 DEF FrameAt
    <3>5. \A p : FrameAt("server", p, "data", s) => p \in DOMAIN pipe["server"]
      BY DEF FrameAt
    <3> QED
      BY <2>1, <2>2, <2>3, <2>6, <3>2, <3>3, <3>4, <3>5 DEF OpenIsFirst
  <2> QED
    BY <2>4, <2>5, <2>6 DEF Ends, Kinds
<1>18. \A c \in Ends, i \in Streams :
         /\ IsRead(c, i) /\ Received(c, i) \in Nat /\ Received(c, i) = Len(Data(c, i))
         /\ DOMAIN Data(c, i) = 1..Received(c, i)
         /\ i \notin local[c] => Faithful(c, i) /\ Received(c, i) <= wrote[Peer(c)][i]
  BY ReceivedIsData DEF MuxInv, ReadIsInOrder, IsRead, Faithful
<1>19. DataIsInOrder'
  <2> SUFFICES ASSUME NEW c \in Ends, NEW i \in Streams PROVE InOrder(c, i)'
    BY DEF DataIsInOrder
  <2>1. InOrder(c, i)
    BY DEF MuxInv, DataIsInOrder
  <2>2. Received(c, i)' = Received(c, i) /\ Received(c, i) \in Nat /\ UNCHANGED <<table, local>>
    BY <1>6, <1>11, <1>18
  <2>3. CASE c = e
    <3>1. wrote'[Peer(c)][i] = wrote[Peer(c)][i]
      BY <1>1, <1>5, <1>12, <2>3
    <3>2. \A p, t : FrameAt(c, p, t, i)' <=> FrameAt(c, p, t, i)
      BY <1>10, <2>3
    <3>3. Expects(c, i)' => Expects(c, i)
      BY <1>9, <2>2, <2>3, <3>2 DEF Expects
    <3>4. pipe'[c] = pipe[c]
      BY <1>9, <2>3
    <3> QED
      BY <2>1, <2>2, <3>1, <3>2, <3>3, <3>4 DEF InOrder
  <2>4. CASE c = d /\ (k # "data" \/ i # s)
    <3>1. wrote'[Peer(c)][i] = wrote[Peer(c)][i]
      BY <1>1, <1>12, <2>4
    <3>2. \A p : FrameAt(c, p, "data", i)' <=> FrameAt(c, p, "data", i)
      BY <1>10, <2>4
    <3>3. \A p : FrameAt(c, p, "data", i) =>
                    p \in DOMAIN pipe[c] /\ p \in DOMAIN pipe'[c] /\ pipe'[c][p] = pipe[c][p]
      BY <1>8, <1>9, <2>4 DEF FrameAt
    <3>4. CASE k = "open" /\ i = s
      <4>1. Blocked("client", "open", s) /\ OpenIsFirst(s) /\ Peer(c) = "client" /\ c = "server"
        BY <1>11, <1>14, <2>4, <3>4 DEF MuxInv, OpenComesFirst, Peer
      <4>2. Received(c, i) = 0 /\ wrote[Peer(c)][i] = 0
        BY <3>4, <4>1 DEF OpenIsFirst
      <4>3. \A p : ~FrameAt(c, p, "data", i)
        BY <2>1, <3>3, <4>2 DEF InOrder
      <4> QED
        BY <2>2, <3>1, <3>2, <4>2, <4>3 DEF InOrder
    <3>5. CASE k # "open" \/ i # s
      <4>1. \A p : FrameAt(c, p, "open", i)' => FrameAt(c, p, "open", i)
        BY <1>10, <2>4, <3>5
      <4>2. Expects(c, i)' => Expects(c, i)
        BY <2>2, <4>1 DEF Expects, FrameAt
      <4> QED
        BY <2>1, <2>2, <3>1, <3>2, <3>3, <4>2 DEF InOrder
    <3> QED
      BY <3>4, <3>5
  <2>5. CASE c = d /\ k = "data" /\ i = s
    <3>1. Peer(c) = e /\ wrote'[e][i] = wrote[e][i] + 1 /\ wrote[e][i] \in Nat /\ number = wrote[e][i] + 1
      BY <1>1, <1>5, <1>12, <2>5
    <3>2. /\ \A p : FrameAt(c, p, "data", i)' <=> FrameAt(c, p, "data", i) \/ p = m + 1
          /\ \A p : FrameAt(c, p, "open", i)' <=> FrameAt(c, p, "open", i)
      BY <1>10, <2>5
    <3>3. /\ \A p : FrameAt(c, p, "data", i) =>
                    /\ p \in DOMAIN pipe[c] /\ p \in DOMAIN pipe'[c] /\ pipe'[c][p] = pipe[c][p]
                    /\ p \in 1..m
                    /\ pipe[c][p].number \in 1..wrote[e][i]
          /\ m + 1 \in DOMAIN pipe'[c] /\ pipe'[c][m + 1].number = wrote[e][i] + 1
      BY <1>4, <1>8, <1>9, <2>1, <2>5, <3>1 DEF FrameAt, InOrder
    <3>4. Expects(c, i)' => Expects(c, i)
      BY <2>2, <3>2 DEF Expects, FrameAt
    <3>5. Expects(c, i) => Received(c, i) <= wrote[e][i]
      BY <1>18, <3>1 DEF Expects
    <3>6. \A p \in DOMAIN pipe'[c] :
            FrameAt(c, p, "data", i)' => pipe'[c][p].number \in 1..(wrote[e][i] + 1)
      BY <3>1, <3>2, <3>3
    <3>7. \A p, q \in DOMAIN pipe'[c] :
            FrameAt(c, p, "data", i)' /\ FrameAt(c, q, "data", i)' /\ p < q
            => pipe'[c][p].number < pipe'[c][q].number
      <4> SUFFICES ASSUME NEW p, NEW q, FrameAt(c, p, "data", i)', FrameAt(c, q, "data", i)', p < q
                   PROVE  pipe'[c][p].number < pipe'[c][q].number
        OBVIOUS
      <4>1. CASE FrameAt(c, q, "data", i)
        <5>1. p # m + 1
          BY <3>3, <4>1
        <5> QED
          BY <2>1, <3>2, <3>3, <4>1, <5>1 DEF InOrder
      <4>2. CASE q = m + 1
        <5>1. FrameAt(c, p, "data", i)
          BY <3>2, <4>2
        <5> QED
          BY <3>1, <3>3, <4>2, <5>1
      <4> QED
        BY <3>2, <4>1, <4>2
    <3>8. Expects(c, i) =>
            /\ \A p \in DOMAIN pipe'[c] : FrameAt(c, p, "data", i)' => pipe'[c][p].number > Received(c, i)
            /\ \A n \in (Received(c, i) + 1)..(wrote[e][i] + 1) :
                 \E p \in DOMAIN pipe'[c] : FrameAt(c, p, "data", i)' /\ pipe'[c][p].number = n
      <4> SUFFICES ASSUME Expects(c, i)
          PROVE  /\ \A p \in DOMAIN pipe'[c] : FrameAt(c, p, "data", i)' => pipe'[c][p].number > Received(c, i)
                 /\ \A n \in (Received(c, i) + 1)..(wrote[e][i] + 1) :
                      \E p \in DOMAIN pipe'[c] : FrameAt(c, p, "data", i)' /\ pipe'[c][p].number = n
        OBVIOUS
      <4>1. \A p \in DOMAIN pipe'[c] : FrameAt(c, p, "data", i)' => pipe'[c][p].number > Received(c, i)
        BY <2>1, <2>2, <3>1, <3>2, <3>3, <3>5 DEF InOrder
      <4>2. ASSUME NEW n \in (Received(c, i) + 1)..(wrote[e][i] + 1)
            PROVE  \E p \in DOMAIN pipe'[c] : FrameAt(c, p, "data", i)' /\ pipe'[c][p].number = n
        <5>1. CASE n = wrote[e][i] + 1
          BY <3>2, <3>3, <5>1
        <5>2. CASE n # wrote[e][i] + 1
          <6>1. n \in (Received(c, i) + 1)..wrote[e][i]
            BY <2>2, <3>1, <4>2, <5>2
          <6>2. PICK p \in DOMAIN pipe[c] : FrameAt(c, p, "data", i) /\ pipe[c][p].number = n
            BY <2>1, <3>1, <6>1 DEF InOrder
          <6> QED
            BY <3>2, <3>3, <6>2
        <5> QED
          BY <5>1, <5>2
      <4> QED
        BY <4>1, <4>2
    <3> QED
      BY <2>2, <3>1, <3>4, <3>6, <3>7, <3>8 DEF InOrder
  <2> QED
    BY <1>1, <1>5, <2>3, <2>4, <2>5
<1>20. ASSUME NEW c \in Ends, NEW i \in Streams PROVE IsRead(c, i)'
  <2>1. Data(c, i)' = Data(c, i) /\ local'[c] = local[c] /\ IsRead(c, i)
    BY <1>6, <1>18 DEF Data
  <2>2. CASE c = e \/ k # "data" \/ i # s
    <3>1. wrote'[Peer(c)][i] = wrote[Peer(c)][i]
      BY <1>1, <1>5, <1>12, <2>2
    <3>2. \A p : FrameAt(c, p, "data", i)' =>
            p \in DOMAIN pipe[c] /\ FrameAt(c, p, "data", i) /\ pipe'[c][p] = pipe[c][p]
      <4>1. CASE c = e
        BY <1>9, <1>10, <4>1 DEF FrameAt
      <4>2. CASE c = d /\ (k # "data" \/ i # s)
        <5>1. \A p : FrameAt(d, p, "data", i)' => FrameAt(d, p, "data", i)
          BY <1>10, <4>2
        <5>2. \A p : FrameAt(d, p, "data", i) => p \in DOMAIN pipe[d] /\ p \in 1..m
          BY <1>8 DEF FrameAt
        <5> QED
          BY <1>9, <4>2, <5>1, <5>2
      <4> QED
        BY <1>1, <1>5, <2>2, <4>1, <4>2
    <3>3. i \notin local[c] => Faithful(c, i)'
      BY <2>1, <3>1 DEF IsRead, Faithful
    <3>4. Increasing(c, i)'
      BY <2>1, <3>1, <3>2 DEF IsRead, Increasing
    <3> QED
      BY <2>1, <3>3, <3>4 DEF IsRead
  <2>3. CASE c = d /\ k = "data" /\ i = s
    <3>1. Peer(c) = e /\ wrote'[e][i] = wrote[e][i] + 1 /\ wrote[e][i] \in Nat /\ number = wrote[e][i] + 1
      BY <1>1, <1>5, <1>12, <2>3
    <3>2. \A p : FrameAt(c, p, "data", i)' =>
            \/ p \in DOMAIN pipe[c] /\ FrameAt(c, p, "data", i) /\ pipe'[c][p] = pipe[c][p]
            \/ pipe'[c][p].number = wrote[e][i] + 1
      BY <1>4, <1>8, <1>9, <1>10, <2>3, <3>1 DEF FrameAt
    <3>3. i \notin local[c] => Faithful(c, i)'
      <4>1. i \notin local[c] => Received(c, i) <= wrote[e][i] + 1
        BY <1>18, <3>1
      <4> QED
        BY <1>18, <2>1, <3>1, <4>1 DEF IsRead, Faithful
    <3>4. \A n \in DOMAIN Data(c, i) : Data(c, i)[n] \in [type : {"data"}, id : {i}, number : 1..wrote[e][i]]
      BY <2>1, <3>1 DEF IsRead, Increasing
    <3>5. \A n \in DOMAIN Data(c, i) :
            /\ Data(c, i)[n] \in [type : {"data"}, id : {i}, number : 1..(wrote[e][i] + 1)]
            /\ Data(c, i)[n].number < wrote[e][i] + 1
      BY <3>1, <3>4
    <3>6. Increasing(c, i)'
      <4>1. \A n \in DOMAIN Data(c, i) : \A p \in DOMAIN pipe'[c] :
              FrameAt(c, p, "data", i)' => Data(c, i)[n].number < pipe'[c][p].number
        BY <2>1, <3>2, <3>5 DEF IsRead, Increasing
      <4>2. \A j, n \in DOMAIN Data(c, i) : j < n => Data(c, i)[j].number < Data(c, i)[n].number
        BY <2>1 DEF IsRead, Increasing
      <4> QED
        BY <2>1, <3>1, <3>5, <4>1, <4>2 DEF Increasing
    <3> QED
      BY <2>1, <3>3, <3>6 DEF IsRead
  <2> QED
    BY <1>1, <1>5, <2>2, <2>3
<1>21. FoundIsFirst'
  <2> SUFFICES ASSUME NEW c \in Ends, found'[c]
               PROVE  \E i \in Streams : FrameAt(c, 1, "data", i)' /\ (i \in table'[c] \/ i \in local'[c])
    BY DEF FoundIsFirst
  <2>1. PICK i \in Streams : FrameAt(c, 1, "data", i) /\ (i \in table[c] \/ i \in local[c])
    BY <1>6 DEF MuxInv, FoundIsFirst
  <2>2. FrameAt(c, 1, "data", i)'
    BY <1>1, <1>5, <1>10, <2>1
  <2> QED
    BY <1>6, <2>1, <2>2
<1> QED
  BY <1>15, <1>16, <1>17, <1>19, <1>20, <1>21 DEF MuxInv, ReadIsInOrder

-----------------------------------------------------------------------------
(* The first frame of a pipe is taken.                                     *)

\* The frames behind the first move up.
Shifted(e) ==
  /\ 1 \in DOMAIN pipe[e] /\ First(e) = pipe[e][1]
  /\ \A p \in DOMAIN pipe[e] :
       /\ p \in Nat \ {0}
       /\ p # 1 => p - 1 \in DOMAIN pipe'[e] /\ pipe'[e][p - 1] = pipe[e][p]
  /\ \A p \in DOMAIN pipe'[e] :
       p \in Nat \ {0} /\ p + 1 \in DOMAIN pipe[e] /\ pipe'[e][p] = pipe[e][p + 1]
  /\ \A d \in Ends : d # e => pipe'[d] = pipe[d]

LEMMA PipeShifts ==
  ASSUME TypeInv, NEW e \in Ends, pipe[e] # <<>>, Consumed(e)
  PROVE  Shifted(e)
<1>1. PICK s \in Seq(Frames) : s = pipe[e]
  BY DEF TypeInv
<1>2. pipe'[e] = Tail(s) /\ \A d \in Ends : d # e => pipe'[d] = pipe[d]
  BY <1>1 DEF Consumed, TypeInv
<1>3. /\ s # <<>> /\ Len(s) \in Nat \ {0} /\ DOMAIN s = 1..Len(s) /\ Head(s) = s[1]
      /\ DOMAIN Tail(s) = 1..(Len(s) - 1) /\ \A p \in 1..(Len(s) - 1) : Tail(s)[p] = s[p + 1]
  BY <1>1
<1>4. 1 \in DOMAIN s /\ \A p \in DOMAIN s : p \in Nat \ {0}
  BY <1>3
<1>5. \A p \in DOMAIN s : p # 1 => p - 1 \in DOMAIN Tail(s) /\ Tail(s)[p - 1] = s[p]
  <2> SUFFICES ASSUME NEW p \in 1..Len(s), p # 1
               PROVE  p - 1 \in 1..(Len(s) - 1) /\ Tail(s)[p - 1] = s[p]
    BY <1>3
  <2>1. p - 1 \in 1..(Len(s) - 1) /\ (p - 1) + 1 = p
    BY <1>3
  <2> QED
    BY <1>3, <2>1
<1>6. \A p \in DOMAIN Tail(s) : p \in Nat \ {0} /\ p + 1 \in DOMAIN s /\ Tail(s)[p] = s[p + 1]
  BY <1>3
<1> QED
  BY <1>1, <1>2, <1>3, <1>4, <1>5, <1>6 DEF Shifted, First

LEMMA FramesShift ==
  ASSUME NEW e \in Ends, Shifted(e), NEW t, NEW i
  PROVE  /\ \A p : FrameAt(e, p, t, i)' => p \in Nat \ {0} /\ FrameAt(e, p + 1, t, i)
         /\ \A p : FrameAt(e, p, t, i) /\ p # 1 => FrameAt(e, p - 1, t, i)'
BY DEF Shifted, FrameAt

\* Whichever end takes the frame.
LEMMA OpenStaysFirst ==
  ASSUME NEW e \in Ends, Shifted(e), NEW i \in Streams, OpenIsFirst(i),
         UNCHANGED <<jobs, token, wrote>>, Received("server", i)' = Received("server", i),
         i \in table'["server"] => i \in table["server"]
  PROVE  OpenIsFirst(i)'
<1>1. /\ Blocked("client", "open", i)' = Blocked("client", "open", i)
      /\ Blocked("client", "data", i)' = Blocked("client", "data", i)
  BY DEF Blocked
<1>2. CASE e = "client"
  <2>1. pipe'["server"] = pipe["server"]
    BY <1>2 DEF Shifted, Ends
  <2>2. \A p, t : FrameAt("server", p, t, i)' = FrameAt("server", p, t, i)
    BY <2>1 DEF FrameAt
  <2> QED
    BY <1>1, <2>1, <2>2 DEF OpenIsFirst
<1>3. CASE e = "server"
  <2>1. \A p, t : FrameAt("server", p, t, i)' => p \in Nat \ {0} /\ FrameAt("server", p + 1, t, i)
    BY <1>3, FramesShift
  <2>2. \A p, t : FrameAt("server", p, t, i) => p \in DOMAIN pipe["server"]
    BY DEF FrameAt
  <2>3. Blocked("client", "open", i)' => \A p : ~FrameAt("server", p, "open", i)'
    BY <1>1, <2>1, <2>2 DEF OpenIsFirst
  <2>4. ASSUME NEW p, FrameAt("server", p, "open", i)'
        PROVE  /\ i \notin table'["server"] /\ Received("server", i)' = 0
               /\ \A q : /\ FrameAt("server", q, "open", i)' => q = p
                         /\ FrameAt("server", q, "data", i)' => p < q
    <3>1. p \in Nat \ {0} /\ FrameAt("server", p + 1, "open", i) /\ p + 1 \in DOMAIN pipe["server"]
      BY <2>1, <2>2, <2>4
    <3>2. /\ i \notin table["server"] /\ Received("server", i) = 0
          /\ \A q \in DOMAIN pipe["server"] :
               /\ FrameAt("server", q, "open", i) => q = p + 1
               /\ FrameAt("server", q, "data", i) => p + 1 < q
      BY <3>1 DEF OpenIsFirst
    <3>3. ASSUME NEW q, FrameAt("server", q, "open", i)' PROVE q = p
      <4>1. q \in Nat /\ q + 1 = p + 1
        BY <2>1, <2>2, <3>2, <3>3
      <4> QED
        BY <3>1, <4>1
    <3>4. ASSUME NEW q, FrameAt("server", q, "data", i)' PROVE p < q
      <4>1. q \in Nat /\ p + 1 < q + 1
        BY <2>1, <2>2, <3>2, <3>4
      <4> QED
        BY <3>1, <4>1
    <3> QED
      BY <3>2, <3>3, <3>4
  <2> QED
    BY <1>1, <2>3, <2>4 DEF OpenIsFirst
<1> QED
  BY <1>2, <1>3 DEF Ends

LEMMA OrderStays ==
  ASSUME NEW e \in Ends, Shifted(e), NEW i \in Streams, InOrder(e, i),
         UNCHANGED wrote, Received(e, i)' = Received(e, i),
         Expects(e, i)' => Expects(e, i) /\ ~FrameAt(e, 1, "data", i)
  PROVE  InOrder(e, i)'
<1>1. \A p : FrameAt(e, p, "data", i)' =>
        /\ p \in Nat \ {0} /\ FrameAt(e, p + 1, "data", i) /\ p + 1 \in DOMAIN pipe[e]
        /\ pipe'[e][p] = pipe[e][p + 1]
  BY FramesShift DEF Shifted, FrameAt
<1>2. \A p \in DOMAIN pipe'[e] : FrameAt(e, p, "data", i)' => pipe'[e][p].number \in 1..wrote[Peer(e)][i]
  BY <1>1 DEF InOrder
<1>3. \A p, q \in DOMAIN pipe'[e] :
        FrameAt(e, p, "data", i)' /\ FrameAt(e, q, "data", i)' /\ p < q
        => pipe'[e][p].number < pipe'[e][q].number
  <2> SUFFICES ASSUME NEW p, NEW q, FrameAt(e, p, "data", i)', FrameAt(e, q, "data", i)', p < q
               PROVE  pipe'[e][p].number < pipe'[e][q].number
    OBVIOUS
  <2>1. p \in Nat /\ q \in Nat /\ p + 1 < q + 1
    BY <1>1
  <2> QED
    BY <1>1, <2>1 DEF InOrder
<1>4. ASSUME Expects(e, i)'
      PROVE  /\ \A p \in DOMAIN pipe'[e] : FrameAt(e, p, "data", i)' => pipe'[e][p].number > Received(e, i)
             /\ \A n \in (Received(e, i) + 1)..wrote[Peer(e)][i] :
                  \E p \in DOMAIN pipe'[e] : FrameAt(e, p, "data", i)' /\ pipe'[e][p].number = n
  <2>1. Expects(e, i) /\ ~FrameAt(e, 1, "data", i)
    BY <1>4
  <2>2. \A p \in DOMAIN pipe'[e] : FrameAt(e, p, "data", i)' => pipe'[e][p].number > Received(e, i)
    BY <1>1, <2>1 DEF InOrder
  <2>3. ASSUME NEW n \in (Received(e, i) + 1)..wrote[Peer(e)][i]
        PROVE  \E p \in DOMAIN pipe'[e] : FrameAt(e, p, "data", i)' /\ pipe'[e][p].number = n
    <3>1. PICK p \in DOMAIN pipe[e] : FrameAt(e, p, "data", i) /\ pipe[e][p].number = n
      BY <2>1, <2>3 DEF InOrder
    <3>2. p # 1
      BY <2>1, <3>1
    <3>3. p - 1 \in DOMAIN pipe'[e] /\ pipe'[e][p - 1] = pipe[e][p] /\ FrameAt(e, p - 1, "data", i)'
      BY <3>1, <3>2, FramesShift DEF Shifted
    <3> QED
      BY <3>1, <3>3
  <2> QED
    BY <2>2, <2>3
<1> QED
  BY <1>2, <1>3, <1>4 DEF InOrder

\* The other end's pipe stays as it is.
LEMMA OtherOrderStays ==
  ASSUME NEW e \in Ends, Shifted(e), NEW d \in Ends, d # e, NEW i \in Streams, InOrder(d, i),
         UNCHANGED <<wrote, local>>, Received(d, i)' = Received(d, i), table'[d] = table[d]
  PROVE  InOrder(d, i)'
<1>1. pipe'[d] = pipe[d]
  BY DEF Shifted
<1>2. \A p, t : FrameAt(d, p, t, i)' = FrameAt(d, p, t, i)
  BY <1>1 DEF FrameAt
<1>3. Expects(d, i)' = Expects(d, i)
  BY <1>1, <1>2 DEF Expects
<1> QED
  BY <1>1, <1>2, <1>3 DEF InOrder

\* Of a stream that receives nothing.
LEMMA ReadStaysBehind ==
  ASSUME NEW e \in Ends, Shifted(e), NEW d \in Ends, NEW i \in Streams, IsRead(d, i),
         UNCHANGED <<wrote, local>>, Data(d, i)' = Data(d, i)
  PROVE  IsRead(d, i)'
<1>1. CASE d = e
  <2>1. \A p : FrameAt(e, p, "data", i)' =>
          p + 1 \in DOMAIN pipe[e] /\ FrameAt(e, p + 1, "data", i) /\ pipe'[e][p] = pipe[e][p + 1]
    BY FramesShift DEF Shifted, FrameAt
  <2> QED
    BY <1>1, <2>1, ReadStays
<1>2. CASE d # e
  <2>1. \A p : FrameAt(d, p, "data", i)' =>
          p \in DOMAIN pipe[d] /\ FrameAt(d, p, "data", i) /\ pipe'[d][p] = pipe[d][p]
    BY <1>2 DEF Shifted, FrameAt
  <2> QED
    BY <2>1, ReadStays
<1> QED
  BY <1>1, <1>2

\* readLoop has yet to look for the next one's stream.
LEMMA NextIsNotFound ==
  ASSUME TypeInv, FoundIsFirst, NEW e \in Ends, Shifted(e), found' = [found EXCEPT ![e] = FALSE],
         \A d \in Ends : table[d] \subseteq table'[d], UNCHANGED local
  PROVE  FoundIsFirst'
<1> SUFFICES ASSUME NEW d \in Ends, found'[d]
             PROVE  \E i \in Streams : FrameAt(d, 1, "data", i)' /\ (i \in table'[d] \/ i \in local'[d])
  BY DEF FoundIsFirst
<1>1. d # e /\ found[d]
  BY DEF TypeInv
<1>2. PICK i \in Streams : FrameAt(d, 1, "data", i) /\ (i \in table[d] \/ i \in local[d])
  BY <1>1 DEF FoundIsFirst
<1>3. FrameAt(d, 1, "data", i)'
  BY <1>1, <1>2 DEF Shifted, FrameAt
<1> QED
  BY <1>2, <1>3

LEMMA OthersKeepTheFirst ==
  ASSUME TypeInv, MuxInv, NEW e \in Ends, Shifted(e), found' = [found EXCEPT ![e] = FALSE],
         UNCHANGED <<table, acceptCh, jobs, token, used, local, wrote, read, incoming>>,
         First(e).type = "data" => First(e).id \notin table[e] \/ First(e).id \in local[e]
  PROVE  MuxInv'
<1>1. /\ "client" \in Ends /\ "server" \in Ends
      /\ \A d \in Ends, i \in Streams : Received(d, i)' = Received(d, i)
      /\ \A d \in Ends : \A k, i : Blocked(d, k, i)' = Blocked(d, k, i)
      /\ Opened' = Opened
  BY DEF Ends, Received, Blocked, Opened
<1>2. \A d \in Ends : \A p \in DOMAIN pipe'[d] :
        \E q \in DOMAIN pipe[d] : pipe'[d][p] = pipe[d][q]
  BY DEF Shifted
<1>3. OpenedByClient'
  <2>1. \A d \in Ends : \A p \in DOMAIN pipe'[d] : pipe'[d][p].id \in Opened
    BY <1>2 DEF MuxInv, OpenedByClient
  <2> QED
    BY <1>1, <2>1 DEF MuxInv, OpenedByClient
<1>4. OnlyClientOpens'
  <2>1. \A p \in DOMAIN pipe'["client"] : pipe'["client"][p].type # "open"
    BY <1>1, <1>2 DEF MuxInv, OnlyClientOpens
  <2> QED
    BY <1>1, <2>1 DEF MuxInv, OnlyClientOpens
<1>5. ASSUME NEW i \in Streams PROVE OpenIsFirst(i)'
  BY <1>1, OpenStaysFirst DEF MuxInv, OpenComesFirst
<1>6. ASSUME NEW d \in Ends, NEW i \in Streams PROVE InOrder(d, i)'
  <2>1. InOrder(d, i)
    BY DEF MuxInv, DataIsInOrder
  <2>2. CASE d = e
    <3>1. Expects(e, i)' => Expects(e, i)
      BY FramesShift DEF Expects, FrameAt, Shifted
    <3>2. ASSUME Expects(e, i), FrameAt(e, 1, "data", i) PROVE FALSE
      <4>1. i \notin table[e] /\ 1 \in DOMAIN pipe[e]
        BY <3>2 DEF FrameAt, Shifted, Expects
      <4>2. PICK p \in DOMAIN pipe[e] : FrameAt(e, p, "open", i)
        BY <3>2, <4>1 DEF Expects
      <4>3. e = "server"
        BY <4>2 DEF MuxInv, OnlyClientOpens, FrameAt, Ends
      <4>4. p < 1 /\ p \in Nat \ {0}
        BY <3>2, <4>1, <4>2, <4>3 DEF MuxInv, OpenComesFirst, OpenIsFirst, Shifted
      <4> QED
        BY <4>4
    <3> QED
      BY <1>1, <2>1, <2>2, <3>1, <3>2, OrderStays
  <2>3. CASE d # e
    BY <1>1, <2>1, <2>3, OtherOrderStays
  <2> QED
    BY <2>2, <2>3
<1>7. ASSUME NEW d \in Ends, NEW i \in Streams PROVE IsRead(d, i)'
  <2>1. IsRead(d, i) /\ Data(d, i)' = Data(d, i)
    BY DEF MuxInv, ReadIsInOrder, Data
  <2> QED
    BY <2>1, ReadStaysBehind
<1>8. FoundIsFirst'
  BY NextIsNotFound DEF MuxInv
<1> QED
  BY <1>3, <1>4, <1>5, <1>6, <1>7, <1>8 DEF MuxInv, OpenComesFirst, DataIsInOrder, ReadIsInOrder

LEMMA ReceiveOpenKeepsInv ==
  ASSUME TypeInv, MuxInv, NEW e \in Ends, ReceiveOpen(e)
  PROVE  MuxInv'
<1>1. /\ Shifted(e) /\ First(e).type = "open" /\ found' = [found EXCEPT ![e] = FALSE]
      /\ UNCHANGED <<jobs, token, used, local, wrote, read, incoming>>
  BY PipeShifts DEF ReceiveOpen, Reads, Consumed, writing, stream, reading
<1>2. e = "server"
  BY <1>1 DEF MuxInv, OnlyClientOpens, Shifted, Ends
<1>3. PICK s \in Streams : s = First(e).id
  <2>1. pipe[e][1] \in Frames
    BY <1>1 DEF TypeInv, Shifted
  <2> QED
    BY <1>1, <2>1 DEF Shifted, Frames
<1>4. /\ table' = [table EXCEPT !["server"] = @ \cup {s}]
      /\ acceptCh' = [acceptCh EXCEPT !["server"] = Append(@, s)]
  BY <1>2, <1>3 DEF ReceiveOpen
<1>5. /\ "client" \in Ends /\ "server" \in Ends
      /\ \A d \in Ends, i \in Streams : Received(d, i)' = Received(d, i)
      /\ \A d \in Ends : \A k, i : Blocked(d, k, i)' = Blocked(d, k, i)
      /\ Opened' = Opened
  BY <1>1 DEF Ends, Received, Blocked, Opened
<1>6. /\ table'["server"] = table["server"] \cup {s} /\ table'["client"] = table["client"]
      /\ acceptCh'["client"] = acceptCh["client"]
      /\ acceptCh'["server"] = Append(acceptCh["server"], s)
  BY <1>4, <1>5 DEF TypeInv
<1>7. FrameAt("server", 1, "open", s) /\ 1 \in DOMAIN pipe["server"]
  BY <1>1, <1>2, <1>3 DEF FrameAt, Shifted
<1>8. \A d \in Ends : \A p \in DOMAIN pipe'[d] :
        \E q \in DOMAIN pipe[d] : pipe'[d][p] = pipe[d][q]
  BY <1>1 DEF Shifted
<1>9. OpenedByClient'
  <2>1. \A d \in Ends : \A p \in DOMAIN pipe'[d] : pipe'[d][p].id \in Opened
    BY <1>8 DEF MuxInv, OpenedByClient
  <2>2. s \in Opened
    BY <1>5, <1>7 DEF MuxInv, OpenedByClient, FrameAt
  <2>3. \A k \in DOMAIN acceptCh'["server"] : acceptCh'["server"][k] \in Opened
    <3>1. acceptCh["server"] \in Seq(Streams)
      BY <1>5 DEF TypeInv
    <3>2. \A k \in DOMAIN acceptCh'["server"] :
            acceptCh'["server"][k] = s \/ (k \in DOMAIN acceptCh["server"] /\ acceptCh'["server"][k] = acceptCh["server"][k])
      BY <1>6, <3>1
    <3> QED
      BY <2>2, <3>2 DEF MuxInv, OpenedByClient
  <2>4. \A d \in Ends : table'[d] \subseteq Opened
    BY <1>5, <1>6, <2>2 DEF MuxInv, OpenedByClient, Ends
  <2> QED
    BY <1>1, <1>5, <2>1, <2>3, <2>4 DEF MuxInv, OpenedByClient
<1>10. OnlyClientOpens'
  <2>1. \A p \in DOMAIN pipe'["client"] : pipe'["client"][p].type # "open"
    BY <1>5, <1>8 DEF MuxInv, OnlyClientOpens
  <2> QED
    BY <1>5, <1>6, <2>1 DEF MuxInv, OnlyClientOpens
<1>11. OpenIsFirst(s) /\ ~Blocked("client", "open", s)
  BY <1>7 DEF MuxInv, OpenComesFirst, OpenIsFirst
<1>12. \A p : ~FrameAt("server", p, "open", s)'
  <2> SUFFICES ASSUME NEW p, FrameAt("server", p, "open", s)' PROVE FALSE
    OBVIOUS
  <2>1. p \in Nat \ {0} /\ FrameAt("server", p + 1, "open", s)
    BY <1>1, <1>2, FramesShift
  <2>2. p + 1 = 1
    BY <1>7, <1>11, <2>1 DEF OpenIsFirst, FrameAt
  <2> QED
    BY <2>1, <2>2
<1>13. ASSUME NEW i \in Streams PROVE OpenIsFirst(i)'
  <2>1. CASE i = s
    BY <1>1, <1>5, <1>11, <1>12, <2>1 DEF OpenIsFirst
  <2>2. CASE i # s
    <3>1. OpenIsFirst(i) /\ (i \in table'["server"] => i \in table["server"])
      BY <1>6, <2>2 DEF MuxInv, OpenComesFirst
    <3>2. UNCHANGED <<jobs, token, wrote>> /\ Received("server", i)' = Received("server", i)
      BY <1>1, <1>5
    <3> QED
      BY <1>1, <3>1, <3>2, OpenStaysFirst
  <2> QED
    BY <2>1, <2>2
<1>14. ASSUME NEW d \in Ends, NEW i \in Streams PROVE InOrder(d, i)'
  <2>1. InOrder(d, i) /\ Received(d, i)' = Received(d, i)
    BY <1>5 DEF MuxInv, DataIsInOrder
  <2>2. CASE d = e
    <3>1. Expects(e, i)' => Expects(e, i)
      <4>1. CASE i = s
        BY <1>1, <1>2, <1>7, <4>1 DEF Expects
      <4>2. CASE i # s
        <5>1. i \in table'[e] => i \in table[e]
          BY <1>2, <1>6, <4>2
        <5>2. \A p : FrameAt(e, p, "open", i)' => FrameAt(e, p + 1, "open", i)
          BY <1>1, FramesShift
        <5> QED
          BY <1>1, <5>1, <5>2 DEF Expects, FrameAt
      <4> QED
        BY <4>1, <4>2
    <3>2. ~FrameAt(e, 1, "data", i)
      BY <1>1 DEF FrameAt, Shifted
    <3> QED
      BY <1>1, <2>1, <2>2, <3>1, <3>2, OrderStays
  <2>3. CASE d # e
    <3>1. table'[d] = table[d]
      BY <1>2, <1>6, <2>3 DEF Ends
    <3> QED
      BY <1>1, <2>1, <2>3, <3>1, OtherOrderStays
  <2> QED
    BY <2>2, <2>3
<1>15. ASSUME NEW d \in Ends, NEW i \in Streams PROVE IsRead(d, i)'
  <2>1. IsRead(d, i) /\ Data(d, i)' = Data(d, i)
    BY <1>1 DEF MuxInv, ReadIsInOrder, Data
  <2> QED
    BY <1>1, <2>1, ReadStaysBehind
<1>16. FoundIsFirst'
  <2>1. \A d \in Ends : table[d] \subseteq table'[d]
    BY <1>5, <1>6 DEF Ends
  <2> QED
    BY <1>1, <2>1, NextIsNotFound DEF MuxInv
<1> QED
  BY <1>9, <1>10, <1>13, <1>14, <1>15, <1>16 DEF MuxInv, OpenComesFirst, DataIsInOrder, ReadIsInOrder

LEMMA ReceiveDataKeepsInv ==
  ASSUME TypeInv, MuxInv, NEW e \in Ends, ReceiveData(e)
  PROVE  MuxInv'
<1>1. /\ Shifted(e) /\ First(e).type = "data" /\ found[e] /\ found' = [found EXCEPT ![e] = FALSE]
      /\ UNCHANGED <<table, acceptCh, jobs, token, used, local, wrote, read>>
  BY PipeShifts DEF ReceiveData, Reads, Consumed, session, writing, reading
<1>2. PICK s \in Streams, f \in Frames : f = First(e) /\ s = f.id /\ f.type = "data"
  <2>1. First(e) \in Frames
    BY <1>1 DEF TypeInv, Shifted
  <2> QED
    BY <1>1, <2>1 DEF Frames
<1>3. incoming' = Put(incoming, e, s, Append(incoming[e][s], f))
  BY <1>2 DEF ReceiveData
<1>4. /\ "client" \in Ends /\ "server" \in Ends /\ Peer(e) \in Ends
      /\ \A d \in Ends : \A k, i : Blocked(d, k, i)' = Blocked(d, k, i)
      /\ Opened' = Opened
  BY <1>1 DEF Ends, Peer, Blocked, Opened
<1>5. /\ incoming'[e][s] = Append(incoming[e][s], f)
      /\ \A d \in Ends, i \in Streams : d # e \/ i # s => incoming'[d][i] = incoming[d][i]
  BY <1>3 DEF Put, TypeInv
<1>6. /\ read[e][s] \in Seq(Frames) /\ incoming[e][s] \in Seq(Frames)
  BY DEF TypeInv
<1>7. PICK n \in Nat : /\ n = Received(e, s) /\ n = Len(Data(e, s)) /\ DOMAIN Data(e, s) = 1..n
                       /\ Data(e, s) \in Seq(Frames) /\ IsRead(e, s)
  BY ReceivedIsData DEF MuxInv, ReadIsInOrder
<1>8. /\ \A d \in Ends, i \in Streams : d # e \/ i # s => Received(d, i)' = Received(d, i)
      /\ Received(e, s)' = n + 1
  <2>1. \A d \in Ends, i \in Streams : d # e \/ i # s => Received(d, i)' = Received(d, i)
    BY <1>1, <1>5 DEF Received
  <2>2. Len(Append(incoming[e][s], f)) = Len(incoming[e][s]) + 1 /\ Len(incoming[e][s]) \in Nat
    BY <1>2, <1>6
  <2>3. Received(e, s)' = Len(read[e][s]) + (Len(incoming[e][s]) + 1)
    BY <1>1, <1>5, <2>2 DEF Received
  <2>4. Len(read[e][s]) \in Nat
    BY <1>6
  <2>5. n = Len(read[e][s]) + Len(incoming[e][s])
    BY <1>7 DEF Received
  <2>6. \A x, y \in Nat : x + (y + 1) = (x + y) + 1
    OBVIOUS
  <2> QED
    BY <2>1, <2>2, <2>3, <2>4, <2>5, <2>6
<1>9. /\ FrameAt(e, 1, "data", s) /\ 1 \in DOMAIN pipe[e] /\ pipe[e][1] = f
      /\ InOrder(e, s) /\ (s \notin local[e] => Expects(e, s))
  <2>1. FrameAt(e, 1, "data", s) /\ 1 \in DOMAIN pipe[e] /\ pipe[e][1] = f
    BY <1>1, <1>2 DEF FrameAt, Shifted
  <2>2. s \in table[e] \/ s \in local[e]
    BY <1>1, <2>1 DEF MuxInv, FoundIsFirst, FrameAt
  <2> QED
    BY <2>1, <2>2 DEF MuxInv, DataIsInOrder, Expects
<1>18. f.number \in 1..wrote[Peer(e)][s] /\ wrote[Peer(e)][s] \in Nat
  BY <1>4, <1>9 DEF InOrder, TypeInv
<1>10. ASSUME s \notin local[e]
       PROVE  f.number = n + 1 /\ f.number <= wrote[Peer(e)][s] /\ Expects(e, s)
  <2>e. Expects(e, s)
    BY <1>9, <1>10
  <2>1. f.number \in 1..wrote[Peer(e)][s] /\ f.number > n /\ wrote[Peer(e)][s] \in Nat
    BY <1>7, <1>9, <1>18, <2>e DEF InOrder
  <2>2. n + 1 \in (n + 1)..wrote[Peer(e)][s]
    BY <2>1
  <2>3. PICK p \in DOMAIN pipe[e] : FrameAt(e, p, "data", s) /\ pipe[e][p].number = n + 1
    BY <1>7, <1>9, <2>2, <2>e DEF InOrder
  <2>4. CASE p = 1
    BY <1>9, <2>1, <2>3, <2>4, <2>e
  <2>5. CASE p # 1
    <3>1. 1 < p
      BY <1>1, <2>5 DEF Shifted
    <3>2. f.number < n + 1
      BY <1>9, <2>3, <3>1 DEF InOrder
    <3> QED
      BY <2>1, <3>2
  <2> QED
    BY <2>4, <2>5
<1>11. \A d \in Ends : \A p \in DOMAIN pipe'[d] :
         \E q \in DOMAIN pipe[d] : pipe'[d][p] = pipe[d][q]
  BY <1>1 DEF Shifted
<1>12. OpenedByClient'
  <2>1. \A d \in Ends : \A p \in DOMAIN pipe'[d] : pipe'[d][p].id \in Opened
    BY <1>11 DEF MuxInv, OpenedByClient
  <2> QED
    BY <1>1, <1>4, <2>1 DEF MuxInv, OpenedByClient
<1>13. OnlyClientOpens'
  <2>1. \A p \in DOMAIN pipe'["client"] : pipe'["client"][p].type # "open"
    BY <1>4, <1>11 DEF MuxInv, OnlyClientOpens
  <2> QED
    BY <1>1, <1>4, <2>1 DEF MuxInv, OnlyClientOpens
<1>14. ASSUME NEW i \in Streams PROVE OpenIsFirst(i)'
  <2>1. OpenIsFirst(i)
    BY DEF MuxInv, OpenComesFirst
  <2>2. CASE e # "server" \/ i # s
    <3>1. Received("server", i)' = Received("server", i)
      BY <1>4, <1>8, <2>2
    <3>2. UNCHANGED <<jobs, token, wrote>> /\ (i \in table'["server"] => i \in table["server"])
      BY <1>1
    <3> QED
      BY <1>1, <2>1, <3>1, <3>2, OpenStaysFirst
  <2>3. CASE e = "server" /\ i = s
    <3>1. 1 \in DOMAIN pipe["server"] /\ FrameAt("server", 1, "data", i)
      BY <1>9, <2>3
    <3>2. ~Blocked("client", "open", i) /\ \A p : ~FrameAt("server", p, "open", i)
      <4>1. ASSUME NEW p, FrameAt("server", p, "open", i) PROVE FALSE
        <5>1. p \in DOMAIN pipe["server"] /\ p < 1
          BY <2>1, <3>1, <4>1 DEF OpenIsFirst, FrameAt
        <5> QED
          BY <1>1, <2>3, <5>1 DEF Shifted
      <4>2. ASSUME Blocked("client", "open", i) PROVE FALSE
        <5>1. wrote["client"][i] = 0 /\ Peer("server") = "client"
          BY <2>1, <4>2 DEF OpenIsFirst, Peer
        <5> QED
          BY <1>18, <2>3, <5>1
      <4> QED
        BY <4>1, <4>2
    <3>3. \A p : ~FrameAt("server", p, "open", i)'
      BY <1>1, <2>3, <3>2, FramesShift
    <3>4. /\ ~Blocked("client", "open", i)'
          /\ ~(<<"open", i>> \in jobs'["client"] /\ token'["client"] = <<"open", i>>)
      BY <1>1, <1>4, <2>1, <3>2 DEF OpenIsFirst
    <3> QED
      BY <3>3, <3>4 DEF OpenIsFirst
  <2> QED
    BY <2>2, <2>3
<1>15. ASSUME NEW d \in Ends, NEW i \in Streams PROVE InOrder(d, i)'
  <2>1. InOrder(d, i)
    BY DEF MuxInv, DataIsInOrder
  <2>2. CASE d # e
    <3>1. Received(d, i)' = Received(d, i) /\ table'[d] = table[d] /\ UNCHANGED wrote
      BY <1>1, <1>8, <2>2
    <3> QED
      BY <1>1, <2>1, <2>2, <3>1, OtherOrderStays
  <2>3. CASE d = e /\ i # s
    <3>1. Received(e, i)' = Received(e, i) /\ UNCHANGED wrote
      BY <1>1, <1>8, <2>3
    <3>2. \A p : FrameAt(e, p, "open", i)' => FrameAt(e, p + 1, "open", i)
      BY <1>1, FramesShift
    <3>3. Expects(e, i)' => Expects(e, i)
      BY <1>1, <3>2 DEF Expects, FrameAt
    <3>4. ~FrameAt(e, 1, "data", i)
      BY <1>2, <1>9, <2>3 DEF FrameAt
    <3> QED
      BY <1>1, <2>1, <2>3, <3>1, <3>3, <3>4, OrderStays
  <2>4. CASE d = e /\ i = s
    <3>1. \A p : FrameAt(e, p, "data", s)' =>
            /\ p \in Nat \ {0} /\ FrameAt(e, p + 1, "data", s) /\ p + 1 \in DOMAIN pipe[e]
            /\ pipe'[e][p] = pipe[e][p + 1]
      BY <1>1, FramesShift DEF Shifted, FrameAt
    <3>2. \A p \in DOMAIN pipe'[e] : FrameAt(e, p, "data", s)' => pipe'[e][p].number \in 1..wrote[Peer(e)][s]
      BY <1>9, <3>1 DEF InOrder
    <3>3. \A p, q \in DOMAIN pipe'[e] :
            FrameAt(e, p, "data", s)' /\ FrameAt(e, q, "data", s)' /\ p < q
            => pipe'[e][p].number < pipe'[e][q].number
      <4> SUFFICES ASSUME NEW p, NEW q, FrameAt(e, p, "data", s)', FrameAt(e, q, "data", s)', p < q
                   PROVE  pipe'[e][p].number < pipe'[e][q].number
        OBVIOUS
      <4>1. p \in Nat /\ q \in Nat /\ p + 1 < q + 1
        BY <3>1
      <4> QED
        BY <1>9, <3>1, <4>1 DEF InOrder
    <3>6. \A p : FrameAt(e, p, "data", s)' =>
            /\ f.number < pipe'[e][p].number /\ pipe'[e][p].number \in 1..wrote[Peer(e)][s]
      <4> SUFFICES ASSUME NEW p, FrameAt(e, p, "data", s)'
                   PROVE  f.number < pipe'[e][p].number /\ pipe'[e][p].number \in 1..wrote[Peer(e)][s]
        OBVIOUS
      <4>1. 1 < p + 1
        BY <3>1
      <4> QED
        BY <1>9, <3>1, <4>1 DEF InOrder
    <3>4. ASSUME s \notin local[e]
          PROVE  \A p \in DOMAIN pipe'[e] : FrameAt(e, p, "data", s)' => pipe'[e][p].number > n + 1
      BY <1>10, <1>18, <3>4, <3>6
    <3>5. ASSUME s \notin local[e], NEW x \in ((n + 1) + 1)..wrote[Peer(e)][s]
          PROVE  \E p \in DOMAIN pipe'[e] : FrameAt(e, p, "data", s)' /\ pipe'[e][p].number = x
      <4>1. x \in (n + 1)..wrote[Peer(e)][s] /\ x # n + 1 /\ f.number = n + 1 /\ Expects(e, s)
        BY <1>10, <1>18, <3>5
      <4>2. PICK p \in DOMAIN pipe[e] : FrameAt(e, p, "data", s) /\ pipe[e][p].number = x
        BY <1>7, <1>9, <4>1 DEF InOrder
      <4>3. p # 1
        BY <1>9, <4>1, <4>2
      <4>4. p - 1 \in DOMAIN pipe'[e] /\ pipe'[e][p - 1] = pipe[e][p] /\ FrameAt(e, p - 1, "data", s)'
        BY <1>1, <4>2, <4>3, FramesShift DEF Shifted
      <4> QED
        BY <4>2, <4>4
    <3>7. Expects(e, s)' => s \notin local[e]
      BY <1>1 DEF Expects
    <3> QED
      BY <1>1, <1>8, <2>4, <3>2, <3>3, <3>4, <3>5, <3>7 DEF InOrder
  <2> QED
    BY <2>2, <2>3, <2>4
<1>16. ASSUME NEW d \in Ends, NEW i \in Streams PROVE IsRead(d, i)'
  <2>1. CASE d # e \/ i # s
    <3>1. IsRead(d, i) /\ Data(d, i)' = Data(d, i)
      BY <1>1, <1>5, <2>1 DEF MuxInv, ReadIsInOrder, Data
    <3> QED
      BY <1>1, <3>1, ReadStaysBehind
  <2>2. CASE d = e /\ i = s
    <3>1. Data(e, s)' = Append(Data(e, s), f)
      <4>1. /\ read[e][s] \o Append(incoming[e][s], f) = Append(read[e][s] \o incoming[e][s], f)
            /\ read[e][s] \o incoming[e][s] \in Seq(Frames)
        BY <1>6, AppendMoves
      <4>2. read'[e][s] = read[e][s] /\ incoming'[e][s] = Append(incoming[e][s], f)
        BY <1>1, <1>5
      <4> QED
        BY <4>1, <4>2 DEF Data
    <3>2. PICK all : all = Append(Data(e, s), f)
      OBVIOUS
    <3>3. /\ Len(all) = n + 1 /\ DOMAIN all = 1..(n + 1) /\ all[n + 1] = f
          /\ \A k \in 1..n : k \in DOMAIN Data(e, s) /\ all[k] = Data(e, s)[k]
      BY <1>7, <3>2, Appended
    <3>4. \A k \in 1..n : /\ all[k] \in [type : {"data"}, id : {s}, number : 1..wrote[Peer(e)][s]]
                           /\ all[k].number < f.number
      BY <1>7, <1>9, <3>3 DEF IsRead, Increasing
    <3>5. f \in [type : {"data"}, id : {s}, number : 1..wrote[Peer(e)][s]]
      BY <1>2, <1>18 DEF Frames
    <3>6. \A k \in 1..(n + 1) : k \in 1..n \/ k = n + 1
      OBVIOUS
    <3>7. \A k \in 1..(n + 1) : all[k] \in [type : {"data"}, id : {s}, number : 1..wrote[Peer(e)][s]]
      BY <3>3, <3>4, <3>5, <3>6
    <3>8. ASSUME NEW j \in 1..(n + 1), NEW k \in 1..(n + 1), j < k PROVE all[j].number < all[k].number
      <4>1. j \in 1..n
        BY <3>8
      <4>2. CASE k \in 1..n
        BY <1>7, <3>3, <3>8, <4>1, <4>2 DEF IsRead, Increasing
      <4>3. CASE k = n + 1
        BY <3>3, <3>4, <4>1, <4>3
      <4> QED
        BY <3>6, <4>2, <4>3
    <3>9. ASSUME NEW k \in 1..(n + 1), NEW p, FrameAt(e, p, "data", s)'
          PROVE  all[k].number < pipe'[e][p].number
      <4>1. /\ p \in Nat \ {0} /\ FrameAt(e, p + 1, "data", s) /\ p + 1 \in DOMAIN pipe[e]
            /\ pipe'[e][p] = pipe[e][p + 1]
        BY <1>1, <3>9, FramesShift DEF Shifted, FrameAt
      <4>2. CASE k \in 1..n
        BY <1>7, <3>3, <4>1, <4>2 DEF IsRead, Increasing
      <4>3. CASE k = n + 1
        <5>1. 1 < p + 1
          BY <4>1
        <5> QED
          BY <1>9, <3>3, <4>1, <4>3, <5>1 DEF InOrder
      <4> QED
        BY <3>6, <4>2, <4>3
    <3>10. Increasing(e, s)'
      BY <1>1, <3>1, <3>2, <3>3, <3>7, <3>8, <3>9 DEF Increasing
    <3>11. ASSUME s \notin local'[e] PROVE Faithful(e, s)'
      <4>1. f.number = n + 1 /\ n + 1 <= wrote[Peer(e)][s] /\ Faithful(e, s)
        BY <1>1, <1>7, <1>10, <3>11 DEF IsRead
      <4>2. f = [type |-> "data", id |-> s, number |-> n + 1]
        BY <1>2, <4>1 DEF Frames
      <4>3. \A k \in 1..(n + 1) : all[k] = [type |-> "data", id |-> s, number |-> k]
        BY <3>3, <3>6, <4>1, <4>2 DEF Faithful
      <4> QED
        BY <1>1, <3>1, <3>2, <3>3, <4>1, <4>3 DEF Faithful
    <3> QED
      BY <2>2, <3>10, <3>11 DEF IsRead
  <2> QED
    BY <2>1, <2>2
<1>17. FoundIsFirst'
  BY <1>1, NextIsNotFound DEF MuxInv
<1> QED
  BY <1>12, <1>13, <1>14, <1>15, <1>16, <1>17 DEF MuxInv, OpenComesFirst, DataIsInOrder, ReadIsInOrder

LEMMA NothingMoves ==
  ASSUME MuxInv, UNCHANGED <<table, acceptCh, jobs, token, pipe, found, used, local, wrote, read, incoming>>
  PROVE  MuxInv'
<1>1. JobsAllowed
  BY DEF JobsAllowed, Blocked
<1> QED
  BY <1>1, JobsKeepInv

LEMMA FindKeepsInv == ASSUME TypeInv, MuxInv, NEW e \in Ends, FindStream(e) PROVE MuxInv'
<1>1. /\ found' = [found EXCEPT ![e] = TRUE] /\ First(e).id \in table[e]
      /\ pipe[e] # <<>> /\ First(e).type = "data"
      /\ UNCHANGED <<table, acceptCh, jobs, token, pipe, used, local, wrote, read, incoming>>
  BY DEF FindStream, Reads, session, writing, stream, reading
<1>2. PICK i \in Streams : FrameAt(e, 1, "data", i) /\ i \in table[e]
  <2>1. pipe[e] \in Seq(Frames) /\ table[e] \subseteq Streams
    BY DEF TypeInv
  <2>2. 1 \in DOMAIN pipe[e] /\ First(e) = pipe[e][1]
    BY <1>1, <2>1 DEF First
  <2> QED
    BY <1>1, <2>1, <2>2 DEF FrameAt
<1>3. FoundIsFirst'
  <2> SUFFICES ASSUME NEW d \in Ends, found'[d]
               PROVE  \E x \in Streams : FrameAt(d, 1, "data", x)' /\ (x \in table'[d] \/ x \in local'[d])
    BY DEF FoundIsFirst
  <2>1. CASE d = e
    BY <1>1, <1>2, <2>1 DEF FrameAt
  <2>2. CASE d # e
    <3>1. found[d]
      BY <1>1, <2>2 DEF TypeInv
    <3> QED
      BY <1>1, <3>1 DEF MuxInv, FoundIsFirst, FrameAt
  <2> QED
    BY <2>1, <2>2
<1>4. OpenedByClient' /\ OnlyClientOpens' /\ OpenComesFirst' /\ DataIsInOrder' /\ ReadIsInOrder'
  <2>1. ReadIsInOrder'
    BY <1>1, ReadsStay DEF MuxInv
  <2>2. OpenedByClient' /\ OnlyClientOpens'
    BY <1>1 DEF MuxInv, OpenedByClient, OnlyClientOpens, Blocked, Opened
  <2>a. /\ \A d \in Ends, x \in Streams : Received(d, x)' = Received(d, x)
        /\ \A d \in Ends, x \in Streams : Expects(d, x)' = Expects(d, x)
        /\ \A d \in Ends : \A p, k, x : FrameAt(d, p, k, x)' = FrameAt(d, p, k, x)
        /\ \A d \in Ends : \A k, x : Blocked(d, k, x)' = Blocked(d, k, x)
        /\ "client" \in Ends /\ "server" \in Ends
    BY <1>1 DEF Received, FrameAt, Blocked, Expects, Ends
  <2>3. OpenComesFirst' /\ DataIsInOrder'
    BY <1>1, <2>a DEF MuxInv, OpenComesFirst, OpenIsFirst, DataIsInOrder, InOrder
  <2> QED
    BY <2>1, <2>2, <2>3
<1> QED
  BY <1>3, <1>4 DEF MuxInv

LEMMA StepInv == ASSUME TypeInv, MuxInv, [MuxNext]_muxVars PROVE MuxInv'
<1>1. CASE UNCHANGED muxVars
  BY <1>1, NothingMoves DEF muxVars, session, writing, stream, reading
<1>2. ASSUME NEW e \in Ends,
             \/ \E i \in Streams : Write(e, i) \/ Close(e, i) \/ RemoveStream(e, i)
             \/ TakeToken(e) \/ GiveUp(e) \/ SendFails(e) \/ SendTimesOut(e)
      PROVE  MuxInv'
  BY <1>2, JobStepsAreAllowed, JobsKeepInv
<1>3. ASSUME NEW e \in Ends, CloseSession(e) \/ ReceiveTooMany(e) \/ ReadFails(e) PROVE MuxInv'
  BY <1>3, NothingMoves DEF CloseSession, ReceiveTooMany, ReadFails, writing, stream, reading
<1>4. ASSUME NEW e \in Ends, DropData(e) \/ ReceiveClose(e) PROVE MuxInv'
  <2>1. /\ Shifted(e) /\ found' = [found EXCEPT ![e] = FALSE]
        /\ UNCHANGED <<table, acceptCh, jobs, token, used, local, wrote, read, incoming>>
        /\ First(e).type = "data" => First(e).id \notin table[e] \/ First(e).id \in local[e]
    BY <1>4, PipeShifts DEF DropData, ReceiveClose, Reads, Consumed, session, writing, stream, reading
  <2> QED
    BY <2>1, OthersKeepTheFirst
<1>5. ASSUME NEW e \in Ends, ReadLoop(e) PROVE MuxInv'
  BY <1>3, <1>4, <1>5, ReceiveOpenKeepsInv, ReceiveDataKeepsInv, FindKeepsInv DEF ReadLoop
<1>6. ASSUME NEW e \in Ends, WriteFrame(e) PROVE MuxInv'
  BY <1>2, <1>6, SendKeepsInv DEF WriteFrame
<1>7. ASSUME NEW e \in Ends, Read(e) PROVE MuxInv'
  BY <1>7, ReadKeepsInv DEF Read
<1> QED
  BY <1>1, <1>2, <1>3, <1>5, <1>6, <1>7, OpenKeepsInv, AcceptKeepsInv DEF MuxNext

\* For any streams and any sizes of the queues and the pipes: what an end reads of a
\* stream, or is about to, the other wrote on it, in this order and once, and until
\* the end that reads closes the stream itself it is all from the first frame on,
\* without a gap; whatever shares the write token, whenever the peer closes or gives
\* up, and wherever the session breaks (tlsmux.go:209-236, 366-403).
THEOREM StreamsAreFaithful == ASSUME MuxAssumption PROVE MuxSpec => []StreamIsFaithful
<1>1. MuxInit => TypeInv /\ MuxInv
  BY InitTypes, InitInv
<1>2. TypeInv /\ MuxInv /\ [MuxNext]_muxVars => (TypeInv /\ MuxInv)'
  BY StepTypes, StepInv
<1>3. MuxInv => StreamIsFaithful
  <2> SUFFICES ASSUME MuxInv, NEW e \in Ends, NEW i \in Streams
               PROVE  LET data == read[e][i] \o incoming[e][i] IN
                        /\ \A k \in DOMAIN data :
                             /\ data[k] \in [type : {"data"}, id : {i}, number : 1 .. wrote[Peer(e)][i]]
                             /\ i \notin local[e] => data[k].number = k
                        /\ \A j, k \in DOMAIN data : j < k => data[j].number < data[k].number
    BY DEF StreamIsFaithful
  <2>1. Increasing(e, i) /\ (i \notin local[e] => Faithful(e, i))
    BY DEF MuxInv, ReadIsInOrder, IsRead
  <2>2. \A k \in DOMAIN Data(e, i) :
          /\ Data(e, i)[k] \in [type : {"data"}, id : {i}, number : 1 .. wrote[Peer(e)][i]]
          /\ i \notin local[e] => Data(e, i)[k].number = k
    BY <2>1 DEF Increasing, Faithful
  <2>3. \A j, k \in DOMAIN Data(e, i) : j < k => Data(e, i)[j].number < Data(e, i)[k].number
    BY <2>1 DEF Increasing
  <2> QED
    BY <2>2, <2>3 DEF Data
<1> QED
  BY <1>1, <1>2, <1>3, PTL DEF MuxSpec
=============================================================================

-------------------------------- MODULE TlsMux --------------------------------
(***************************************************************************)
(* The TLS multiplexer: two sessions, one at each end of a TLS connection, *)
(* and the streams they share.                                             *)
(*                                                                         *)
(* Goroutines: at each end the readLoop and, for every stream, one that    *)
(* reads, one that writes and whoever closes.  What they write passes the  *)
(* session's write token: a job is a frame some goroutine wants to write.  *)
(*                                                                         *)
(* The connection is two bounded pipes of frames; the frame readLoop has   *)
(* in its hands is the first of its pipe.  Data is numbered per stream and *)
(* direction.  Frames the peer never sends (bad identifiers, lengths) and  *)
(* datagram frames, which the TLS transport does not offer, are left out.  *)
(***************************************************************************)
EXTENDS Naturals, Sequences, FiniteSets

CONSTANTS
  Streams,      \* identifiers; the client opens them
  ClientWrites, ServerWrites, \* bound: streams an end writes data on and the other reads
  Limits,       \* values of maxStreams that are looked at
  AcceptCap,    \* acceptCh
  StreamQueueSize, \* streamQueueSize
  PipeCap,      \* bound: frames the connection buffers
  MaxWrites     \* bound: data frames per stream and direction

MuxAssumption ==
  /\ AcceptCap \in Nat \ {0} /\ StreamQueueSize \in Nat \ {0} /\ PipeCap \in Nat \ {0}
  /\ MaxWrites \in Nat /\ Limits \subseteq Nat \ {0} /\ IsFiniteSet(Streams)

Ends == {"client", "server"}
Peer(e) == IF e = "client" THEN "server" ELSE "client"
Kinds == {"open", "data", "close"}
Free == <<>>
Jobs == Kinds \X Streams

Written(e) == IF e = "client" THEN ClientWrites ELSE ServerWrites
ReadBy(e) == Written(Peer(e))

VARIABLES
  limit,      \* maxStreams
  done,       \* session.done is closed
  poisoned,   \* a write of the TLS connection has timed out half-way
  table,      \* session.streams
  acceptCh,
  jobs,       \* frames that wait for the write token
  token,      \* the job that has it, or Free
  pipe,       \* frames on their way to an end
  found,      \* readLoop has looked up the stream of the first of them
  used,       \* streams an end has: opened, or taken from acceptCh
  local, remote, \* localDone and remoteDone of an end's stream
  incoming,
  wrote,      \* data frames an end has written
  failed,     \* streams its Write has failed on; nobody tries again
  read,       \* history: the data it has read
  reader      \* where its Read is: look, select, eof or failed

session == <<limit, done, poisoned, table, acceptCh>>
writing == <<jobs, token, wrote, failed>>
stream  == <<used, local, remote, incoming>>
reading == <<read, reader>>
muxVars == <<session, writing, pipe, found, stream, reading>>

\* f with f[e][i] replaced by v.
Put(f, e, i, v) == [f EXCEPT ![e][i] = v]

MuxInit ==
  /\ limit \in Limits
  /\ done = [e \in Ends |-> FALSE] /\ poisoned = [e \in Ends |-> FALSE]
  /\ table = [e \in Ends |-> {}] /\ acceptCh = [e \in Ends |-> <<>>]
  /\ jobs = [e \in Ends |-> {}] /\ token = [e \in Ends |-> Free]
  /\ pipe = [e \in Ends |-> <<>>] /\ found = [e \in Ends |-> FALSE]
  /\ used = [e \in Ends |-> {}]
  /\ local = [e \in Ends |-> {}] /\ remote = [e \in Ends |-> {}]
  /\ incoming = [e \in Ends |-> [i \in Streams |-> <<>>]]
  /\ wrote = [e \in Ends |-> [i \in Streams |-> 0]] /\ failed = [e \in Ends |-> {}]
  /\ read = [e \in Ends |-> [i \in Streams |-> <<>>]]
  /\ reader = [e \in Ends |-> [i \in Streams |-> "look"]]

Blocked(e, k, i) == <<k, i>> \in jobs[e] \/ token[e] = <<k, i>>

-----------------------------------------------------------------------------
(* The users of streams.  A call that fails at once, on a closed session or *)
(* stream, is left out.                                                    *)

\* OpenStream up to writeFrame.
OpenStream(i) ==
  /\ i \notin used["client"] /\ ~done["client"]
  /\ Cardinality(table["client"]) < limit
  /\ used' = [used EXCEPT !["client"] = @ \cup {i}]
  /\ table' = [table EXCEPT !["client"] = @ \cup {i}]
  /\ jobs' = [jobs EXCEPT !["client"] = @ \cup {<<"open", i>>}]
  /\ UNCHANGED <<limit, done, poisoned, acceptCh, token, wrote, failed, pipe, found, local, remote,
                 incoming, reading>>

\* AcceptStream.
AcceptStream(e) ==
  /\ acceptCh[e] # <<>>
  /\ used' = [used EXCEPT ![e] = @ \cup {Head(acceptCh[e])}]
  /\ acceptCh' = [acceptCh EXCEPT ![e] = Tail(@)]
  /\ UNCHANGED <<limit, done, poisoned, table, writing, pipe, found, local, remote, incoming,
                 reading>>

\* Write up to writeFrame; the stream has been opened and is not closed.
Write(e, i) ==
  /\ i \in (Written(e) \cap used[e]) \ (local[e] \cup remote[e] \cup failed[e]) /\ ~done[e]
  /\ \A k \in {"open", "data"} : ~Blocked(e, k, i)
  /\ wrote[e][i] < MaxWrites
  /\ jobs' = [jobs EXCEPT ![e] = @ \cup {<<"data", i>>}]
  /\ UNCHANGED <<session, token, wrote, failed, pipe, found, stream, reading>>

\* Close: localDone.
Close(e, i) ==
  /\ i \in used[e] \ local[e] /\ ~Blocked(e, "open", i)
  /\ local' = [local EXCEPT ![e] = @ \cup {i}]
  /\ UNCHANGED <<session, writing, pipe, found, used, remote, incoming, reading>>

\* ... then removeStream, up to writeFrame.  readLoop may get in between: it
\* finds the stream and knows that it is closed.
RemoveStream(e, i) ==
  /\ i \in local[e] \cap table[e]
  /\ table' = [table EXCEPT ![e] = @ \ {i}]
  /\ jobs' = [jobs EXCEPT ![e] = @ \cup {<<"close", i>>}]
  /\ UNCHANGED <<limit, done, poisoned, acceptCh, token, wrote, failed, pipe, found, stream,
                 reading>>

\* Read's first look at the queue, without waiting.
ReadLook(e, i) ==
  /\ i \in ReadBy(e) \cap used[e] /\ reader[e][i] = "look" /\ ~Blocked(e, "open", i)
  /\ \/ /\ incoming[e][i] # <<>>
        /\ read' = Put(read, e, i, Append(read[e][i], Head(incoming[e][i])))
        /\ incoming' = Put(incoming, e, i, Tail(incoming[e][i]))
        /\ UNCHANGED reader
     \/ /\ incoming[e][i] = <<>>
        /\ reader' = Put(reader, e, i, "select")
        /\ UNCHANGED <<read, incoming>>
  /\ UNCHANGED <<session, writing, pipe, found, used, local, remote>>

\* Its select: any case that is ready.
ReadSelect(e, i) ==
  /\ reader[e][i] = "select"
  /\ \/ /\ incoming[e][i] # <<>>
        /\ read' = Put(read, e, i, Append(read[e][i], Head(incoming[e][i])))
        /\ incoming' = Put(incoming, e, i, Tail(incoming[e][i]))
        /\ reader' = Put(reader, e, i, "look")
     \/ /\ i \in remote[e]
        /\ reader' = Put(reader, e, i, "eof")
        /\ UNCHANGED <<read, incoming>>
     \/ /\ i \in local[e] \/ done[e]
        /\ reader' = Put(reader, e, i, "failed")
        /\ UNCHANGED <<read, incoming>>
  /\ UNCHANGED <<session, writing, pipe, found, used, local, remote>>

\* The program is done with the connection.
CloseSession(e) ==
  /\ ~done[e] /\ done' = [done EXCEPT ![e] = TRUE]
  /\ UNCHANGED <<limit, poisoned, table, acceptCh, writing, pipe, found, stream, reading>>

-----------------------------------------------------------------------------
(* writeFrame.                                                             *)

TakeToken(e) ==
  /\ token[e] = Free
  /\ \E j \in jobs[e] :
       /\ token' = [token EXCEPT ![e] = j]
       /\ jobs' = [jobs EXCEPT ![e] = @ \ {j}]
  /\ UNCHANGED <<session, wrote, failed, pipe, found, stream, reading>>

\* What a failure does to the caller of writeFrame: OpenStream takes the stream
\* back; Write and Close return.
Failed(e, j) ==
  /\ table' = [table EXCEPT ![e] = IF j[1] = "open" THEN @ \ {j[2]} ELSE @]
  /\ local' = [local EXCEPT ![e] = IF j[1] = "open" THEN @ \cup {j[2]} ELSE @]
  /\ failed' = [failed EXCEPT ![e] = IF j[1] = "data" THEN @ \cup {j[2]} ELSE @]

\* Without the token: the session is closed, the caller's context ends or its
\* deadline passes (Close gives up after a second).
GiveUp(e) ==
  /\ \E j \in jobs[e] :
       /\ jobs' = [jobs EXCEPT ![e] = @ \ {j}]
       /\ Failed(e, j)
  /\ UNCHANGED <<limit, done, poisoned, acceptCh, token, wrote, pipe, found, used, remote, incoming,
                 reading>>

Frame(e, j) ==
  [type |-> j[1], id |-> j[2], number |-> IF j[1] = "data" THEN wrote[e][j[2]] + 1 ELSE 0]

\* The frame is written and the token returned.
SendFrame(e) ==
  /\ token[e] # Free /\ ~done[e] /\ ~poisoned[e]
  /\ Len(pipe[Peer(e)]) < PipeCap
  /\ pipe' = [pipe EXCEPT ![Peer(e)] = Append(@, Frame(e, token[e]))]
  /\ wrote' = IF token[e][1] = "data" THEN [wrote EXCEPT ![e][token[e][2]] = @ + 1] ELSE wrote
  /\ token' = [token EXCEPT ![e] = Free]
  /\ UNCHANGED <<session, jobs, failed, found, stream, reading>>

\* Mutant of SendFails: the token is not given back on the error path.
SendFailsKeepsToken(e) ==
  /\ token[e] # Free
  /\ done[e] \/ done[Peer(e)] \/ poisoned[e]
  /\ Failed(e, token[e])
  /\ UNCHANGED <<limit, done, poisoned, acceptCh, jobs, token, wrote, pipe, found, used, remote,
                 incoming, reading>>

\* The connection is closed at either end, or an earlier write has timed out.
SendFails(e) ==
  /\ token[e] # Free
  /\ done[e] \/ done[Peer(e)] \/ poisoned[e]
  /\ Failed(e, token[e])
  /\ token' = [token EXCEPT ![e] = Free]
  /\ UNCHANGED <<limit, done, poisoned, acceptCh, jobs, wrote, pipe, found, used, remote, incoming,
                 reading>>

\* A Write with a deadline that passes while the connection takes no more: part
\* of the frame is out, and the TLS connection refuses every later write.
SendTimesOut(e) ==
  /\ token[e] # Free /\ token[e][1] = "data" /\ ~done[e] /\ ~poisoned[e]
  /\ Len(pipe[Peer(e)]) = PipeCap
  /\ poisoned' = [poisoned EXCEPT ![e] = TRUE]
  /\ failed' = [failed EXCEPT ![e] = @ \cup {token[e][2]}]
  /\ token' = [token EXCEPT ![e] = Free]
  /\ UNCHANGED <<limit, done, table, acceptCh, jobs, wrote, pipe, found, stream, reading>>

-----------------------------------------------------------------------------
(* readLoop.                                                               *)

First(e) == Head(pipe[e])
Consumed(e) == /\ pipe' = [pipe EXCEPT ![e] = Tail(@)]
               /\ found' = [found EXCEPT ![e] = FALSE]
Reads(e, type) == ~done[e] /\ pipe[e] # <<>> /\ First(e).type = type

\* frameOpen.  It waits for room in acceptCh with the stream already in the table.
ReceiveOpen(e) ==
  /\ Reads(e, "open") /\ Consumed(e)
  /\ Cardinality(table[e]) < limit /\ Len(acceptCh[e]) < AcceptCap
  /\ table' = [table EXCEPT ![e] = @ \cup {First(e).id}]
  /\ acceptCh' = [acceptCh EXCEPT ![e] = Append(@, First(e).id)]
  /\ UNCHANGED <<limit, done, poisoned, writing, stream, reading>>

\* One stream too many: readLoop returns and closes the session.
ReceiveTooMany(e) ==
  /\ Reads(e, "open") /\ Cardinality(table[e]) >= limit
  /\ done' = [done EXCEPT ![e] = TRUE]
  /\ UNCHANGED <<limit, poisoned, table, acceptCh, writing, pipe, found, stream, reading>>

\* Mutant of ReceiveData: a full queue does not hold readLoop, the frame is lost.
ReceiveDataDrops(e) ==
  /\ Reads(e, "data") /\ found[e] /\ Consumed(e)
  /\ incoming' = IF Len(incoming[e][First(e).id]) < StreamQueueSize
                 THEN Put(incoming, e, First(e).id, Append(incoming[e][First(e).id], First(e)))
                 ELSE incoming
  /\ UNCHANGED <<session, writing, used, local, remote, reading>>

\* frameData: getStream knows the stream.
FindStream(e) ==
  /\ Reads(e, "data") /\ ~found[e] /\ First(e).id \in table[e]
  /\ found' = [found EXCEPT ![e] = TRUE]
  /\ UNCHANGED <<session, writing, pipe, stream, reading>>

\* The frame waits for room in the queue of the stream that was found, though
\* the table may have lost it meanwhile.
ReceiveData(e) ==
  /\ Reads(e, "data") /\ found[e] /\ Consumed(e)
  /\ Len(incoming[e][First(e).id]) < StreamQueueSize
  /\ incoming' = Put(incoming, e, First(e).id, Append(incoming[e][First(e).id], First(e)))
  /\ UNCHANGED <<session, writing, used, local, remote, reading>>

\* It is dropped when the table does not know the stream, and may be when this
\* end has closed it, even if there is room.
DropData(e) ==
  /\ Reads(e, "data") /\ Consumed(e)
  /\ First(e).id \in (IF found[e] THEN local[e] ELSE Streams \ table[e])
  /\ UNCHANGED <<session, writing, stream, reading>>

\* frameClose.
ReceiveClose(e) ==
  /\ Reads(e, "close") /\ Consumed(e)
  /\ remote' = [remote EXCEPT ![e] = @ \cup ({First(e).id} \cap table[e])]
  /\ UNCHANGED <<session, writing, used, local, incoming, reading>>

\* Mutant of ReadFails: readLoop returns and leaves the session open.
ReadFailsLeaves(e) == ~done[e] /\ done[Peer(e)] /\ ~found[e] /\ UNCHANGED muxVars

\* The connection has been closed by the peer.
ReadFails(e) ==
  /\ ~done[e] /\ done[Peer(e)] /\ ~found[e]
  /\ done' = [done EXCEPT ![e] = TRUE]
  /\ UNCHANGED <<limit, poisoned, table, acceptCh, writing, pipe, found, stream, reading>>

-----------------------------------------------------------------------------
ReadLoop(e) == ReceiveOpen(e) \/ ReceiveTooMany(e) \/ FindStream(e) \/ ReceiveData(e)
               \/ DropData(e) \/ ReceiveClose(e) \/ ReadFails(e)
WriteFrame(e) == SendFrame(e) \/ SendFails(e)
Read(e) == \E i \in Streams : ReadLook(e, i) \/ ReadSelect(e, i)
CloseAfterRead(e) ==
  \E i \in Streams : RemoveStream(e, i) \/ (reader[e][i] \in {"eof", "failed"} /\ Close(e, i))

MuxNext ==
  \/ \E i \in Streams : OpenStream(i)
  \/ \E e \in Ends :
       \/ AcceptStream(e) \/ CloseSession(e) \/ Read(e)
       \/ \E i \in Streams : Write(e, i) \/ Close(e, i) \/ RemoveStream(e, i)
       \/ TakeToken(e) \/ GiveUp(e) \/ WriteFrame(e) \/ SendTimesOut(e)
       \/ ReadLoop(e)

\* Nobody has to open, write or close, and no timeout has to fire; but the
\* goroutines that can go on do, in any order, and among them whoever is served:
\* streams are accepted, read and closed after their last Read, as the proxies
\* at both ends do.  (The bounds make every run finite: some step of theirs is
\* enough, fairness to each is not needed.)
MuxProgress ==
  \E e \in Ends : ReadLoop(e) \/ TakeToken(e) \/ WriteFrame(e) \/ AcceptStream(e)
                  \/ Read(e) \/ CloseAfterRead(e)

MuxSpec == MuxInit /\ [][MuxNext]_muxVars /\ WF_muxVars(MuxProgress)

-----------------------------------------------------------------------------
(* Properties.                                                             *)

\* A stream carries what was written on it: whatever is read, or is about to be,
\* the peer has written on the same stream, and it comes in the order in which it
\* was written and not twice; until this end closes the stream nothing is left
\* out either, for any use of the token by other streams and any close by the
\* peer (tlsmux.go:209-236, 366-403).  Once this end has closed it, readLoop may
\* drop one frame and queue the next one.
StreamIsFaithful ==
  \A e \in Ends, i \in Streams :
    LET data == read[e][i] \o incoming[e][i] IN
      /\ \A k \in DOMAIN data :
           /\ data[k] \in [type : {"data"}, id : {i}, number : 1 .. wrote[Peer(e)][i]]
           /\ i \notin local[e] => data[k].number = k
      /\ \A j, k \in DOMAIN data : j < k => data[j].number < data[k].number

\* A stream's Close does not overtake its data: when Read reports the end of the
\* stream everything that was received before is read (bulk_test.go:58-98).
EndMeansAllRead ==
  \A e \in Ends, i \in Streams : reader[e][i] = "eof" => incoming[e][i] = <<>>

\* No goroutine waits for ever to write, although all streams share one token
\* and one reader at the peer and both directions may be full, as long as
\* accepted streams are read (tlsmux.go:294-325).
WritersReturn ==
  (\E e \in Ends : jobs[e] # {} \/ token[e] # Free)
    ~> \A e \in Ends : jobs[e] = {} /\ token[e] = Free

\* The end of a session at one end is the end at both, and of everybody who
\* waits there: writers, and readers of open streams (tlsmux.go:177-186).
SessionEnds ==
  (\E e \in Ends : done[e]) ~> \A e \in Ends :
    /\ done[e] /\ jobs[e] = {} /\ token[e] = Free
    /\ \A i \in used[e] \cap ReadBy(e) : reader[e][i] \in {"eof", "failed"}
=============================================================================

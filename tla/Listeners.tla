------------------------------ MODULE Listeners -----------------------------
(***************************************************************************)
(* One listener and the clients on it: src/src/server/plain.rs (udp, tcp), *)
(* dot.rs, doq.rs, doh3.rs and the HTTPS server of tls.rs.                 *)
(*                                                                         *)
(* Every listener takes a permit for a connection (for a datagram, on udp) *)
(* and sheds what comes when there is none.  On tcp and dot one reader     *)
(* spawns a task per query, the tasks send their answers into a bounded    *)
(* channel and one writer empties it; on doq, doh3 and https every query   *)
(* has a stream, and a task, of its own.  What a query is answered is the  *)
(* business of Answers; that the resolution ends is Hedge's CallEnds.      *)
(***************************************************************************)
EXTENDS Naturals, FiniteSets

CONSTANTS
    Kind,        \* the listeners looked at
    Conn,        \* the connections (datagrams) that come
    Room,        \* permits of the listener (1024; 4096 on udp)
    Depth,       \* answers the channel holds (64)
    MaxAsk       \* bound: queries on one connection

ASSUME ListenersAssumption ==
    IsFiniteSet(Conn) /\ {Room, Depth, MaxAsk} \subseteq Nat \ {0}

VARIABLES
    kind,        \* which listener this is
    free,        \* permits left
    conn,        \* none, hello (PROXY header, TLS handshake) or open
    client,      \* what the client still does
    reader,      \* reads, hands over a refusal and stops, or is done
    writer,      \* the writer task runs, or its end of the channel is gone
    ask          \* the queries of the connection

listenersVars == <<kind, free, conn, client, reader, writer, ask>>

Query == 1..MaxAsk
Framed == {"tcp", "dot"}
Streamed == {"doq", "doh3", "https"}

\* active: sends and reads; silent: reads; deaf: sends; stuck: neither; gone: closed or
\* unreachable, and the socket knows.
Sends == {"active", "deaf"}
Reads == {"active", "silent"}

Unasked == [i \in Query |-> "none"]
InFlight(c) == {i \in Query : ask[c][i] \in {"running", "ready", "queued", "writing"}}
Holding(c, s) == {i \in Query : ask[c][i] = s}

ListenersInit ==
    /\ kind \in Kind
    /\ free = Room
    /\ conn = [c \in Conn |-> "none"]
    /\ client = [c \in Conn |-> "active"]
    /\ reader = [c \in Conn |-> "read"]
    /\ writer = [c \in Conn |-> "run"]
    /\ ask = [c \in Conn |-> Unasked]

---------------------------------------------------------------------------
\* accept: without a permit the connection is shed and nothing changes.
Accept(c) ==
    /\ conn[c] = "none" /\ free > 0
    /\ free' = free - 1
    /\ conn' = [conn EXCEPT ![c] = IF kind \in {"udp", "tcp"} THEN "open" ELSE "hello"]
    /\ client' = [client EXCEPT ![c] = "active"]
    /\ reader' = [reader EXCEPT ![c] = "read"]
    /\ writer' = [writer EXCEPT ![c] = "run"]
    /\ ask' = [ask EXCEPT ![c] = IF kind = "udp" THEN [Unasked EXCEPT ![1] = "running"] ELSE Unasked]
    /\ UNCHANGED kind

\* The task that holds the permit returns.
Close(c) ==
    /\ conn' = [conn EXCEPT ![c] = "none"]
    /\ free' = free + 1
    /\ ask' = [ask EXCEPT ![c] = Unasked]
    /\ UNCHANGED <<kind, client, reader, writer>>

\* parse_proxy_v2_header and acceptor.accept, the first with timeouts, the second
\* without: a client that says nothing stays here.
Greet(c) ==
    /\ conn[c] = "hello" /\ client[c] = "active"
    /\ conn' = [conn EXCEPT ![c] = "open"]
    /\ UNCHANGED <<kind, free, client, reader, writer, ask>>

\* The handshake fails, private mode misses the device's name, or the connection is
\* over the rate limit.
Reject(c) ==
    /\ conn[c] = "hello" \/ (conn[c] = "open" /\ kind # "udp" /\ ask[c] = Unasked /\ reader[c] = "read")
    /\ Close(c)

\* The client does ever less.
ClientTurns(c, to) ==
    /\ conn[c] # "none" /\ kind # "udp"
    /\ \/ client[c] = "active"
       \/ client[c] \in {"silent", "deaf"} /\ to \in {"stuck", "gone"}
       \/ client[c] = "stuck" /\ to = "gone"
    /\ client' = [client EXCEPT ![c] = to]
    /\ UNCHANGED <<kind, free, conn, reader, writer, ask>>

---------------------------------------------------------------------------
\* handle_plain_tcp_conn, handle_dot_connection: a query, or one over the limit, which
\* is answered SERVFAIL and is the last.
Read(c) ==
    /\ conn[c] = "open" /\ kind \in Framed /\ reader[c] = "read" /\ client[c] \in Sends
    /\ \E i \in Holding(c, "none") :
          /\ \A j \in Query : j < i => ask[c][j] # "none"
          /\ \/ /\ ask' = [ask EXCEPT ![c][i] = "running"]
                /\ UNCHANGED reader
             \/ /\ ask' = [ask EXCEPT ![c][i] = "ready"]
                /\ reader' = [reader EXCEPT ![c] = "refuse"]
    /\ UNCHANGED <<kind, free, conn, client, writer>>

\* End of stream, a length out of range, a response instead of a query (tcp), or the
\* idle timeout, which nothing but the next query holds off.
StopReading(c) ==
    /\ conn[c] = "open" /\ kind \in Framed /\ reader[c] = "read"
    /\ reader' = [reader EXCEPT ![c] = "done"]
    /\ UNCHANGED <<kind, free, conn, client, writer, ask>>

Resolve(c, i) ==
    /\ ask[c][i] = "running"
    /\ ask' = [ask EXCEPT ![c][i] = "ready"]
    /\ UNCHANGED <<kind, free, conn, client, reader, writer>>

\* tx.send: waits for room, fails when the writer is gone; a refusal's sender is the
\* reader, which then stops.
HandOver(c, i) ==
    /\ kind \in Framed /\ ask[c][i] = "ready"
    /\ \/ /\ writer[c] = "run" /\ Cardinality(Holding(c, "queued")) < Depth
          /\ ask' = [ask EXCEPT ![c][i] = "queued"]
       \/ /\ writer[c] = "gone"
          /\ ask' = [ask EXCEPT ![c][i] = "lost"]
    /\ reader' = [reader EXCEPT ![c] = IF @ = "refuse" /\ (\A j \in Query : j > i => ask[c][j] = "none")
                                         THEN "done" ELSE @]
    /\ UNCHANGED <<kind, free, conn, client, writer>>

Take(c, i) ==
    /\ writer[c] = "run" /\ Holding(c, "writing") = {} /\ ask[c][i] = "queued"
    /\ ask' = [ask EXCEPT ![c][i] = "writing"]
    /\ UNCHANGED <<kind, free, conn, client, reader, writer>>

Write(c, i) ==
    /\ kind \in Framed /\ ask[c][i] = "writing" /\ client[c] \in Reads
    /\ ask' = [ask EXCEPT ![c][i] = "answered"]
    /\ UNCHANGED <<kind, free, conn, client, reader, writer>>

\* Mutant: the writer of dot waits for ever too.
MayGiveUp_Never(c) == client[c] = "gone"
\* send_length_prefixed gives a write five seconds; the writer of tcp waits.
MayGiveUp(c) == client[c] = "gone" \/ (kind \in {"dot", "doq"} /\ client[c] \notin Reads)

\* The writer breaks: what is in the channel is dropped with it.
WriteFails(c, i) ==
    /\ kind \in Framed /\ ask[c][i] = "writing" /\ MayGiveUp(c)
    /\ writer' = [writer EXCEPT ![c] = "gone"]
    /\ ask' = [ask EXCEPT ![c] = [j \in Query |-> IF @[j] \in {"queued", "writing"} THEN "lost" ELSE @[j]]]
    /\ UNCHANGED <<kind, free, conn, client, reader>>

\* Mutant: the writer stops with the reader, not with the last task.
Drained_Reader(c) == reader[c] = "done" /\ Holding(c, "writing") = {}
\* rx.recv() gives None: the reader's sender and every task's are dropped.
Drained(c) == reader[c] = "done" /\ InFlight(c) = {}

WriterEnds(c) ==
    /\ conn[c] = "open" /\ kind \in Framed /\ writer[c] = "run" /\ Drained(c)
    /\ writer' = [writer EXCEPT ![c] = "gone"]
    /\ UNCHANGED <<kind, free, conn, client, reader, ask>>

\* drop(tx), writer_task.await: tasks that still run answer into the void.
AwaitWriter(c) ==
    /\ conn[c] = "open" /\ kind \in Framed /\ reader[c] = "done" /\ writer[c] = "gone"
    /\ Close(c)

---------------------------------------------------------------------------
\* accept_bi / server.accept: a query on a stream of its own, which may be refused
\* (answered SERVFAIL) or come to nothing.
OpenStream(c) ==
    /\ conn[c] = "open" /\ kind \in Streamed /\ client[c] \in Sends
    /\ \E i \in Holding(c, "none"), s \in {"running", "ready", "lost"} :
          /\ \A j \in Query : j < i => ask[c][j] # "none"
          /\ ask' = [ask EXCEPT ![c][i] = s]
    /\ UNCHANGED <<kind, free, conn, client, reader, writer>>

\* handle_doq_stream gives up on a client that does not read.
AnswerStream(c, i) ==
    /\ kind = "doq" /\ ask[c][i] = "ready"
    /\ \/ client[c] \in Reads /\ ask' = [ask EXCEPT ![c][i] = "answered"]
       \/ MayGiveUp(c) /\ ask' = [ask EXCEPT ![c][i] = "lost"]
    /\ UNCHANGED <<kind, free, conn, client, reader, writer>>

\* handle_doh3_request, and the HTTPS server likewise, wait for the client.
AnswerHttp(c, i) ==
    /\ kind \in {"doh3", "https"} /\ ask[c][i] = "ready"
    /\ \/ client[c] \in Reads /\ ask' = [ask EXCEPT ![c][i] = "answered"]
       \/ client[c] = "gone" /\ ask' = [ask EXCEPT ![c][i] = "lost"]
    /\ UNCHANGED <<kind, free, conn, client, reader, writer>>

\* The connection ends with its client; keep-alives hold off the idle timeout.
Hangup(c) ==
    /\ conn[c] # "none" /\ client[c] = "gone" /\ (kind \in Framed => conn[c] = "hello")
    /\ Close(c)

\* start_plain_udp: the answer is sent and the permit dropped.
AnswerDatagram(c) ==
    /\ conn[c] = "open" /\ kind = "udp" /\ ask[c][1] = "ready"
    /\ Close(c)

---------------------------------------------------------------------------
ListenersNext == \E c \in Conn :
    \/ Accept(c) \/ Greet(c) \/ Reject(c) \/ \E to \in {"silent", "deaf", "stuck", "gone"} : ClientTurns(c, to)
    \/ Read(c) \/ StopReading(c) \/ WriterEnds(c) \/ AwaitWriter(c)
    \/ OpenStream(c) \/ Hangup(c) \/ AnswerDatagram(c)
    \/ \E i \in Query : Resolve(c, i) \/ HandOver(c, i) \/ Take(c, i) \/ Write(c, i) \/ WriteFails(c, i)
                        \/ AnswerStream(c, i) \/ AnswerHttp(c, i)

\* What is in hand goes on and every timeout fires; nobody has to come, to speak or to
\* leave.  A client that sends holds off the idle timeout.
Serves(c) ==
    \/ WriterEnds(c) \/ AwaitWriter(c) \/ Hangup(c) \/ AnswerDatagram(c)
    \/ client[c] \notin Sends /\ StopReading(c)
Answering(c, i) ==
    \/ Resolve(c, i) \/ HandOver(c, i) \/ Take(c, i) \/ Write(c, i) \/ WriteFails(c, i)
    \/ AnswerStream(c, i) \/ AnswerHttp(c, i)

ListenersSpec ==
    /\ ListenersInit /\ [][ListenersNext]_listenersVars
    /\ \A c \in Conn : WF_listenersVars(Serves(c))
    /\ \A c \in Conn, i \in Query : WF_listenersVars(Answering(c, i))

---------------------------------------------------------------------------
ListenersTypeOK ==
    /\ kind \in Kind
    /\ free = Room - Cardinality({c \in Conn : conn[c] # "none"})
    /\ \A c \in Conn :
          /\ conn[c] \in {"none", "hello", "open"}
          /\ client[c] \in Sends \cup Reads \cup {"stuck", "gone"}
          /\ reader[c] \in {"read", "refuse", "done"} /\ writer[c] \in {"run", "gone"}
          /\ \A i \in Query : ask[c][i] \in
                {"none", "running", "ready", "queued", "writing", "answered", "lost"}
          /\ Cardinality(Holding(c, "queued")) <= Depth

(***************************************************************************)
(* No step loses a query of a client that reads: neither a refusal, nor    *)
(* the reader's end, nor the writer's, nor the end of the connection.      *)
(* Whatever is left of it is in hand until its answer is written.          *)
(***************************************************************************)
AsksKept == [][\A c \in Conn : kind # "udp" /\ client[c] \in Reads =>
                  \A i \in InFlight(c) : i \in InFlight(c)' \/ ask'[c][i] = "answered"]_listenersVars

(***************************************************************************)
(* A query that was read is answered while its client reads, though the    *)
(* client has finished sending, another query was refused and the reader   *)
(* stopped, or the channel was full when the answer came.                  *)
(***************************************************************************)
AskAnswered == \A c \in Conn, i \in Query :
    i \in InFlight(c) ~> (ask[c][i] = "answered" \/ client[c] \notin Reads \/ kind = "udp")

(***************************************************************************)
(* On dot and udp a client that has said its last word gives its permit    *)
(* back, whether or not it reads what it asked for.                        *)
(***************************************************************************)
PermitReturns == \A c \in Conn :
    (kind \in {"dot", "udp"} /\ conn[c] = "open" /\ client[c] \notin Sends) ~> (conn[c] = "none")
=============================================================================

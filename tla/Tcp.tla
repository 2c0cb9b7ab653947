-------------------------------- MODULE Tcp --------------------------------
(***************************************************************************)
(* One TCP connection between two hosts that both run src/net/tcp.c, driven *)
(* by src/net/net_interface.c, over a network that loses, reorders and     *)
(* duplicates segments.  The client opens, the server accepts.             *)
(*                                                                         *)
(* Bytes are numbered in the order the application writes them, so a       *)
(* segment carries real data.  Sequence numbers wrap at Modulus and are    *)
(* compared as the code compares them.  A timer of the deadline heap may   *)
(* fire at any time while what it guards is still pending; retransmission  *)
(* by timer and fast retransmission then differ only in time.              *)
(*                                                                         *)
(* What a step finds below it is its argument v: the congestion window     *)
(* (cwnd), how many segments transmit_tcp takes before it fails for want   *)
(* of a buffer or of room in a ring (sends), how many timers the shared    *)
(* heap takes before it is full (timers), and, when the step counts a      *)
(* third duplicate acknowledgement, which entry comes first (fast, or 0).  *)
(***************************************************************************)
EXTENDS Integers, Sequences, FiniteSets, SequencesExt

CONSTANTS
    Modulus,            \* the size of the sequence space (2^32 in the code)
    Iss,                \* the initial sequence number of each end
    Mss, SmallMss,      \* segment size before and after a PMTU black hole
    SendMax,            \* TCP_SEND_BUFFER_MAX
    ReceiveMax,         \* TCP_RECEIVE_BUFFER_MAX
    RetransmissionMax,  \* TCP_RETRANSMISSION_MAX
    OutOfOrderMax,      \* TCP_OUT_OF_ORDER_MAX
    LoanMax,            \* TCP_SEND_LOAN_MAX
    RetryMax,           \* TCP_RETRY_MAX
    NetMax              \* segments on their way to an end at a time

VARIABLES
    conn,               \* the connection of each end
    net                 \* the segments on their way to each end, oldest first

Ends == {"client", "server"}
Peer(e) == IF e = "client" THEN "server" ELSE "client"

(***************************************************************************)
(* The connection record: send_unacknowledged, send_next, receive_next,    *)
(* send_window, remote_mss, the unsent bytes, the page loans, the receive  *)
(* buffer, the bytes of page grants still free, send_fin, eof, error,      *)
(* detached, accepted, persist_deadline ("off" when 0, "armed" with its    *)
(* timer in the heap, else "lost"), the TIME_WAIT timer, the               *)
(* retransmission queue and the out-of-order slots.  written counts the    *)
(* bytes tcp_queue_send has taken, read has those the application got.     *)
(* broken remembers an error that was taken, skipped a flush that the      *)
(* failed transmission of a response has left out.                         *)
(***************************************************************************)
NoEntry == [seq |-> 0, data |-> <<>>, fin |-> FALSE, active |-> FALSE]

Fresh(e) ==
    [state |-> IF e = "client" THEN "CLOSED" ELSE "LISTEN", active |-> FALSE,
     una |-> Iss[e], nxt |-> (Iss[e] + 1) % Modulus, rcv |-> 0, swnd |-> ReceiveMax,
     mss |-> Mss, sbuf |-> <<>>, loans |-> <<>>, rbuf |-> <<>>, grant |-> 0,
     fin |-> FALSE, eof |-> FALSE, error |-> 0, detached |-> FALSE,
     accepted |-> e = "client", persist |-> "off", linger |-> FALSE, rtx |-> {},
     ooo |-> [i \in 1..OutOfOrderMax |-> NoEntry], written |-> 0, read |-> <<>>,
     broken |-> FALSE, skipped |-> FALSE]

Init ==
    /\ conn = [e \in Ends |-> Fresh(e)]
    /\ net = [e \in Ends |-> <<>>]

SequenceAfterUnsigned(a, b) == a > b

SequenceAfter(a, b) == (a - b) % Modulus \in 1..(Modulus \div 2 - 1)
SequenceBefore(a, b) == (a - b) % Modulus >= Modulus \div 2
Smaller(a, b) == IF a < b THEN a ELSE b
Given(x, F(_)) == CHOOSE y \in {F(z) : z \in {x}} : TRUE

EndOf(x) ==
    (x.seq + Len(x.data) + (IF "SYN" \in x.flags THEN 1 ELSE 0)
           + (IF "FIN" \in x.flags THEN 1 ELSE 0)) % Modulus

(* refresh_receive_window *)
ReceiveWindow(c) == ReceiveMax - Len(c.rbuf) + c.grant

(***************************************************************************)
(* write_sack: the out-of-order slots that end at or after receive_next,   *)
(* sorted by their unsigned sequence, adjacent ones joined, the last two.  *)
(***************************************************************************)
OooEnd(x) == (x.seq + Len(x.data) + (IF x.fin THEN 1 ELSE 0)) % Modulus

JoinBlock(blocks, b) ==
    IF blocks # <<>> /\ ~SequenceAfter(b[1], Last(blocks)[2])
    THEN [blocks EXCEPT ![Len(blocks)][2] = IF b[2] > @ THEN b[2] ELSE @]
    ELSE IF Len(blocks) < 2 THEN Append(blocks, b) ELSE <<blocks[2], b>>

SackBlocks(c) ==
    LET held == {<<c.ooo[i].seq, OooEnd(c.ooo[i])>> :
                    i \in {j \in 1..OutOfOrderMax :
                              /\ c.ooo[j].active
                              /\ ~SequenceBefore(OooEnd(c.ooo[j]), c.rcv)}}
        sorted == SetToSortSeq(held, LAMBDA x, y :
                      x[1] < y[1] \/ (x[1] = y[1] /\ x[2] < y[2]))
    IN  FoldLeft(JoinBlock, <<>>, sorted)

(* fill_transmit, and response with its SACK blocks *)
Segment(c, seq, flags, data) ==
    [seq |-> seq, ack |-> c.rcv, flags |-> flags, data |-> data,
     wnd |-> ReceiveWindow(c),
     sack |-> IF "SYN" \in flags THEN <<>> ELSE SackBlocks(c)]

Response(c) == Segment(c, c.nxt, {"ACK"}, <<>>)
BareResponse(c) == [Response(c) EXCEPT !.sack = <<>>]

(***************************************************************************)
(* A step at work: the connection, the segments it has transmitted, the    *)
(* one it has prepared, whether it goes on, and what is left below it.     *)
(***************************************************************************)
Work(c, v) == [c |-> c, out |-> <<>>, next |-> <<>>, go |-> TRUE, v |-> v]

(* deadline_push, which leaves a timer out when the heap is full *)
Room(w) == w.v.timers > 0
DeadlinePush(w) == [w EXCEPT !.v.timers = IF @ > 0 THEN @ - 1 ELSE 0]

(* transmit_tcp of the prepared segment *)
TransmitTcp(w) ==
    CASE w.next = <<>> -> w
      [] w.v.sends = 0 -> [w EXCEPT !.next = <<>>, !.go = FALSE]
      [] OTHER -> [w EXCEPT !.out = @ \o w.next, !.next = <<>>, !.v.sends = @ - 1]

(***************************************************************************)
(* acknowledge: SACK blocks retire the entries they contain, a cumulative  *)
(* acknowledgement the entries it covers.  A third duplicate gives the     *)
(* first entry a new deadline, and with it a new timer or none.            *)
(***************************************************************************)
Sacked(x, blocks) ==
    \E i \in DOMAIN blocks : /\ ~SequenceBefore(x.seq, blocks[i][1])
                             /\ ~SequenceAfter(EndOf(x), blocks[i][2])

FastRetransmit(w) ==
    LET first == {x \in w.c.rtx :
                     Cardinality({y \in w.c.rtx : SequenceBefore(y.seq, x.seq)}) + 1 = w.v.fast}
    IN  IF first = {} THEN w
        ELSE DeadlinePush([w EXCEPT !.c.rtx =
                 (@ \ first) \union {[x EXCEPT !.timer = Room(w)] : x \in first}])

AcknowledgeAll(w, s) == [w EXCEPT !.c.una = s.ack, !.c.rtx = {}]

Acknowledge(w, s) ==
    LET left == {x \in w.c.rtx : ~Sacked(x, s.sack)}
        after == [w EXCEPT !.c.rtx = left]
    IN  CASE SequenceAfter(s.ack, w.c.una) /\ ~SequenceAfter(s.ack, w.c.nxt) ->
               [w EXCEPT !.c.una = s.ack,
                         !.c.rtx = {x \in left : SequenceAfter(EndOf(x), s.ack)}]
          [] s.ack = w.c.una -> FastRetransmit(after)
          [] OTHER -> after

(* append_receive: page grants take the head, the buffer the rest *)
Fits(c, data) == Len(data) <= c.grant + ReceiveMax - Len(c.rbuf)

AppendReceive(c, data) ==
    LET direct == Smaller(c.grant, Len(data))
    IN  [c EXCEPT !.grant = @ - direct,
                  !.read = @ \o SubSeq(data, 1, direct),
                  !.rbuf = @ \o SubSeq(data, direct + 1, Len(data))]

(***************************************************************************)
(* merge_out_of_order: scan the slots until a pass finds none at           *)
(* receive_next, or the buffer is full.  A FIN in a slot is stepped over.  *)
(***************************************************************************)
MergeSlot(m, i) ==
    LET x == m.c.ooo[i]
    IN  CASE m.full \/ ~x.active \/ x.seq # m.c.rcv -> m
          [] ~Fits(m.c, x.data) -> [m EXCEPT !.full = TRUE]
          [] OTHER ->
               [m EXCEPT !.c = [AppendReceive(@, x.data) EXCEPT
                                   !.rcv = OooEnd(x), !.ooo[i].active = FALSE]]

MergeOutOfOrder(c) ==
    LET pass == [i \in 1..OutOfOrderMax |-> i]
        scan == FoldLeft(LAMBDA s, i : s \o pass, pass, pass)
    IN  FoldLeft(MergeSlot, [c |-> c, full |-> FALSE], scan).c

QueueOutOfOrderEnds(c, s) == [c EXCEPT !.eof = @ \/ "FIN" \in s.flags]

(* queue_out_of_order: the first slot that is free or has this sequence *)
QueueOutOfOrder(c, s) ==
    LET usable == {i \in 1..OutOfOrderMax : ~c.ooo[i].active \/ c.ooo[i].seq = s.seq}
        first == CHOOSE i \in usable : \A j \in usable : i <= j
    IN  IF usable = {} \/ c.ooo[first].active THEN c
        ELSE [c EXCEPT !.ooo[first] =
                 [seq |-> s.seq, data |-> s.data, fin |-> "FIN" \in s.flags,
                  active |-> TRUE]]

(***************************************************************************)
(* input_payload: what becomes of the connection, the response, and        *)
(* whether an in-order FIN was consumed.                                   *)
(***************************************************************************)
InputPayload(c, s) ==
    LET fin == "FIN" \in s.flags
        Took(d, next, ended) == [c |-> d, next |-> next, fin |-> ended]
    IN  CASE "ACK" \notin s.flags \/ "SYN" \in s.flags ->
               Took(c, <<BareResponse(c)>>, FALSE)
          [] SequenceAfter(s.seq, c.rcv) ->
               Given(QueueOutOfOrder(c, s), LAMBDA d : Took(d, <<Response(d)>>, FALSE))
          [] SequenceBefore(s.seq, c.rcv) -> Took(c, <<Response(c)>>, FALSE)
          [] ~Fits(c, s.data) -> Took(c, <<BareResponse(c)>>, FALSE)
          [] OTHER ->
               Given(MergeOutOfOrder([AppendReceive(c, s.data) EXCEPT
                                         !.rcv = EndOf(s), !.eof = @ \/ fin]),
                     LAMBDA d : Took(d, IF s.data # <<>> \/ fin THEN <<Response(d)>>
                                        ELSE <<>>, fin))

(* A handler leaves a response, if any; a refusal ends it at once. *)
Answered(w, c, next) == [w EXCEPT !.c = c, !.next = next]
Refused(w) == [w EXCEPT !.go = FALSE]

(* The slot returns to the pool; its id is stale from now on. *)
Freed(c) == [c EXCEPT !.active = FALSE, !.state = "CLOSED"]

(* The connection is over with an error; a detached one gives up its slot. *)
Failed(c, error) ==
    LET closed == [c EXCEPT !.state = "CLOSED", !.error = error, !.eof = TRUE,
                            !.broken = TRUE]
    IN  IF c.detached THEN Freed(closed) ELSE closed

EnterTimeWait(w) ==
    DeadlinePush([w EXCEPT !.c.state = "TIME_WAIT", !.c.linger = Room(w)])

(***************************************************************************)
(* tcp_input with input_closing, for a segment of a known connection.      *)
(***************************************************************************)
Reset(w, s) ==
    LET c == w.c
        acceptable == IF c.state = "SYN_SENT" THEN "ACK" \in s.flags /\ s.ack = c.nxt
                      ELSE s.seq = c.rcv
    IN  IF acceptable THEN Answered(w, Failed(c, -104), <<>>)
        ELSE IF c.state = "ESTABLISHED" THEN Answered(w, c, <<BareResponse(c)>>)
        ELSE Refused(w)

Input(w0, s) ==
    LET w1 == [w0 EXCEPT !.c.swnd = s.wnd]
        w == IF "ACK" \in s.flags THEN Acknowledge(w1, s) ELSE w1
        c == w.c
        finAcked == "ACK" \in s.flags /\ s.ack = c.nxt
        Payload(d, Ended(_)) ==
            Given(InputPayload(d, s), LAMBDA p :
                Given(Answered(w, p.c, p.next), LAMBDA a : IF p.fin THEN Ended(a) ELSE a))
    IN  CASE "RST" \in s.flags -> Reset(w0, s)
          [] c.state = "SYN_SENT" /\ {"SYN", "ACK"} \subseteq s.flags /\ s.ack = c.nxt ->
               Given([c EXCEPT !.rcv = (s.seq + 1) % Modulus, !.una = s.ack,
                               !.state = "ESTABLISHED"],
                     LAMBDA d : Answered(w, d, <<BareResponse(d)>>))
          [] c.state = "SYN_RECEIVED" /\ finAcked ->
               Answered(w, [c EXCEPT !.una = s.ack, !.state = "ESTABLISHED"], <<>>)
          [] c.state = "CLOSE_WAIT" -> Answered(w, c, <<>>)
          [] c.state = "TIME_WAIT" ->
               Answered(w, c, IF "FIN" \in s.flags THEN <<BareResponse(c)>> ELSE <<>>)
          [] c.state = "LAST_ACK" -> Answered(w, IF finAcked THEN Freed(c) ELSE c, <<>>)
          [] c.state = "CLOSING" -> IF finAcked THEN EnterTimeWait(w) ELSE w
          [] c.state = "FIN_WAIT_1" /\ ~finAcked ->
               Payload(c, LAMBDA a : [a EXCEPT !.c.state = "CLOSING"])
          [] c.state \in {"FIN_WAIT_1", "FIN_WAIT_2"} ->
               Payload([c EXCEPT !.state = "FIN_WAIT_2"], EnterTimeWait)
          [] c.state = "ESTABLISHED" ->
               Payload(c, LAMBDA a : [a EXCEPT !.c.state = "CLOSE_WAIT"])
          [] OTHER -> Refused(w)

(* track_retransmission needs a free entry *)
Track(w, seq, flags, data) ==
    DeadlinePush([w EXCEPT !.c.rtx = @ \union
                     {[seq |-> seq, data |-> data, flags |-> flags, tries |-> 0,
                       timer |-> Room(w)]}])

(***************************************************************************)
(* tcp_prepare_transmit: at most one new segment, under the window the     *)
(* peer and the congestion control leave.                                  *)
(***************************************************************************)
Sending == {"ESTABLISHED", "CLOSE_WAIT"}
Closing(state) == IF state = "ESTABLISHED" THEN "FIN_WAIT_1" ELSE "LAST_ACK"
Unsent(c) == c.sbuf # <<>> \/ c.loans # <<>>

Consume(c, n) ==
    IF c.sbuf # <<>> THEN [c EXCEPT !.sbuf = SubSeq(@, n + 1, Len(@))]
    ELSE IF n = Len(c.loans[1]) THEN [c EXCEPT !.loans = Tail(@)]
    ELSE [c EXCEPT !.loans[1] = SubSeq(@, n + 1, Len(@))]

PrepareData(w) ==
    LET c == w.c
        source == IF c.sbuf # <<>> THEN c.sbuf ELSE c.loans[1]
        more == IF c.sbuf # <<>> THEN c.loans # <<>> ELSE Len(c.loans) > 1
        limit == Smaller(c.swnd, w.v.cwnd)
        flight == (c.nxt - c.una) % Modulus
        length == Smaller(Len(source), Smaller(c.mss, limit - flight))
        last == c.fin /\ ~more /\ length = Len(source)
        flags == IF last THEN {"ACK", "FIN"} ELSE {"ACK"}
        data == SubSeq(source, 1, length)
        open == [w EXCEPT !.c.persist = "off"]
    IN  IF flight >= limit \/ Cardinality(c.rtx) >= RetransmissionMax THEN open
        ELSE Given(Track(open, c.nxt, flags, data), LAMBDA t :
                 [t EXCEPT !.c = [Consume(@, length) EXCEPT
                                     !.nxt = (c.nxt + length + (IF last THEN 1 ELSE 0)) % Modulus,
                                     !.state = IF last THEN Closing(@) ELSE @],
                           !.next = <<Segment(c, c.nxt, flags, data)>>])

PrepareTransmit(w) ==
    LET c == w.c
    IN  CASE c.state = "SYN_SENT" ->
               IF c.rtx # {} THEN w
               ELSE [Track(w, c.una, {"SYN"}, <<>>) EXCEPT
                        !.next = <<Segment(c, c.una, {"SYN"}, <<>>)>>]
          [] c.state \notin Sending -> w
          [] ~Unsent(c) ->
               IF ~c.fin \/ Cardinality(c.rtx) >= RetransmissionMax THEN w
               ELSE [Track(w, c.nxt, {"ACK", "FIN"}, <<>>) EXCEPT
                        !.c.nxt = (@ + 1) % Modulus, !.c.state = Closing(@),
                        !.next = <<Segment(c, c.nxt, {"ACK", "FIN"}, <<>>)>>]
          [] c.swnd = 0 ->
               IF c.persist # "off" THEN w
               ELSE DeadlinePush([w EXCEPT !.c.persist = IF Room(w) THEN "armed" ELSE "lost"])
          [] OTHER -> PrepareData(w)

(***************************************************************************)
(* flush_tcp: prepare and transmit until there is nothing to send, or a    *)
(* transmission fails.  Its segment is tracked already, as if it had left. *)
(***************************************************************************)
Flush(w) ==
    FoldLeft(LAMBDA p, i : IF p.go THEN TransmitTcp(PrepareTransmit(p)) ELSE p,
             [w EXCEPT !.c.skipped = FALSE], [i \in 1..(RetransmissionMax + 1) |-> i])

(* The network takes what a step has transmitted, and drops what it has no room for. *)
Transmitted(e, out) ==
    LET all == net[Peer(e)] \o out
    IN  [net EXCEPT ![Peer(e)] = SubSeq(all, 1, Smaller(Len(all), NetMax))]

Kept(e, w) ==
    /\ conn' = [conn EXCEPT ![e] = w.c]
    /\ net' = Transmitted(e, w.out)

Still(e, c) == conn' = [conn EXCEPT ![e] = c] /\ net' = net

(* net_interface_tcp_connect: without its SYN the connection is closed again *)
Connect(e, v) ==
    /\ e = "client" /\ conn[e] = Fresh(e)
    /\ \E c \in {[conn[e] EXCEPT !.active = TRUE, !.state = "SYN_SENT"]} :
         \E w \in {TransmitTcp(PrepareTransmit(Work(c, v)))} :
             IF w.go THEN Kept(e, w) ELSE Still(e, Freed(w.c))

(***************************************************************************)
(* interface_tcp_handler: a SYN to the listener makes the child, anything  *)
(* for a connection goes through tcp_input, the rest is ignored.  The      *)
(* response is transmitted, and only then the connection flushed.          *)
(***************************************************************************)
Child(w0, s) ==
    LET c == [w0.c EXCEPT !.active = TRUE, !.state = "SYN_RECEIVED",
                          !.rcv = (s.seq + 1) % Modulus, !.swnd = s.wnd]
        w == [w0 EXCEPT !.c = c]
    IN  [Track(w, c.una, {"SYN", "ACK"}, <<>>) EXCEPT
            !.next = <<Segment(c, c.una, {"SYN", "ACK"}, <<>>)>>]

Handled(w, s) ==
    CASE w.c.active -> Input(w, s)
      [] w.c.state = "LISTEN" /\ "SYN" \in s.flags /\ "ACK" \notin s.flags -> Child(w, s)
      [] OTHER -> Refused(w)

Respond(h) ==
    IF ~h.go THEN h
    ELSE Given(TransmitTcp(h), LAMBDA t :
             IF t.go THEN Flush(t) ELSE [t EXCEPT !.c.skipped = TRUE])

(* The network hands over segment i, and may keep a copy of it. *)
Receive(e, i, copy, v) ==
    \E w \in {Respond(Handled(Work(conn[e], v), net[e][i]))} :
        /\ conn' = [conn EXCEPT ![e] = w.c]
        /\ net' = [Transmitted(e, w.out) EXCEPT
                      ![e] = IF copy THEN @ ELSE RemoveAt(@, i)]

Lose(e, i) ==
    /\ net' = [net EXCEPT ![e] = RemoveAt(@, i)]
    /\ conn' = conn

(* tcp_accept: only an ESTABLISHED child is handed out *)
Accept(e) ==
    /\ conn[e].active /\ conn[e].state = "ESTABLISHED" /\ ~conn[e].accepted
    /\ Still(e, [conn[e] EXCEPT !.accepted = TRUE])

Usable(e) == conn[e].active /\ conn[e].accepted /\ ~conn[e].detached

Bytes(c, n) == [i \in 1..n |-> c.written + i]

(* tcp_queue_send and tcp_queue_send_pages *)
QueueSend(c, n) == [c EXCEPT !.sbuf = @ \o Bytes(c, n), !.written = @ + n]
QueueSendPages(c, n) == [c EXCEPT !.loans = Append(@, Bytes(c, n)), !.written = @ + n]

(***************************************************************************)
(* net_interface_tcp_send and net_interface_tcp_send_pages: queue, then    *)
(* flush.  The call fails when the flush does, with the bytes queued.      *)
(***************************************************************************)
Send(e, n, v) ==
    LET c == conn[e]
    IN  /\ Usable(e) /\ c.state \in Sending /\ ~c.fin
        /\ c.loans = <<>> /\ Len(c.sbuf) + n <= SendMax
        /\ \E w \in {Flush(Work(QueueSend(c, n), v))} : Kept(e, w)

SendPages(e, n, v) ==
    LET c == conn[e]
    IN  /\ Usable(e) /\ c.state \in Sending /\ ~c.fin
        /\ c.sbuf = <<>> /\ Len(c.loans) < LoanMax
        /\ \E w \in {Flush(Work(QueueSendPages(c, n), v))} : Kept(e, w)

(* tcp_receive_data, which sends no window update *)
Read(e, n) ==
    LET c == conn[e]
    IN  /\ Usable(e) /\ n \in 1..Len(c.rbuf)
        /\ Still(e, [c EXCEPT !.read = @ \o SubSeq(c.rbuf, 1, n),
                              !.rbuf = SubSeq(@, n + 1, Len(@))])

(* tcp_queue_receive_pages *)
GrantPages(e, n) ==
    LET c == conn[e]
    IN  /\ Usable(e) /\ ~c.eof /\ c.state \in Sending /\ c.rbuf = <<>>
        /\ Still(e, [c EXCEPT !.grant = @ + n])

(* tcp_take_error: the error is told once, end of file stays *)
TakeError(e) ==
    /\ Usable(e) /\ conn[e].error # 0
    /\ Still(e, [conn[e] EXCEPT !.error = 0])

(* net_interface_tcp_shutdown: the FIN at once, or behind the unsent bytes *)
Shutdown(e, v) ==
    LET c == [conn[e] EXCEPT !.fin = TRUE]
    IN  /\ Usable(e) /\ conn[e].state \in Sending /\ ~conn[e].fin
        /\ \E w \in {IF Unsent(c) THEN Flush(Work(c, v))
                     ELSE TransmitTcp(PrepareTransmit(Work(c, v)))} : Kept(e, w)

(***************************************************************************)
(* net_interface_tcp_close: tcp_detach, then a flush.  A closed zero       *)
(* window over unsent bytes, and a handshake, end in a reset.              *)
(***************************************************************************)
Close(e, v) ==
    LET c == conn[e]
        gone == [c EXCEPT !.detached = TRUE]
        ending == [gone EXCEPT !.fin = TRUE]
        rst == <<[BareResponse(c) EXCEPT !.flags = {"RST", "ACK"}]>>
        Resets == [Work(Freed(gone), v) EXCEPT !.next = rst]
    IN  /\ Usable(e)
        /\ \E w \in {CASE c.state = "CLOSED" -> Work(Freed(gone), v)
                       [] c.state \in Sending /\ c.swnd = 0 /\ Unsent(c) -> TransmitTcp(Resets)
                       [] c.state \in Sending /\ ~c.fin /\ ~Unsent(c) ->
                            TransmitTcp(PrepareTransmit(Work(ending, v)))
                       [] c.state \in Sending /\ ~c.fin -> Flush(Work(ending, v))
                       [] c.state \in {"SYN_SENT", "SYN_RECEIVED"} -> TransmitTcp(Resets)
                       [] OTHER -> Work(gone, v)} : Kept(e, w)

(* tcp_abort, when the interface is revoked *)
Abort(e) ==
    /\ conn[e].active
    /\ Still(e, [conn[e] EXCEPT !.state = "CLOSED", !.error = -19, !.eof = TRUE,
                                !.broken = TRUE, !.rtx = {}, !.loans = <<>>, !.grant = 0])

(***************************************************************************)
(* resegment_to_mss: the newest segment in flight gives its tail back to   *)
(* the send buffer.                                                        *)
(***************************************************************************)
Resegment(c, x) ==
    LET tail == SubSeq(x.data, c.mss + 1, Len(x.data))
        fin == "FIN" \in x.flags
        y == [x EXCEPT !.data = SubSeq(@, 1, c.mss), !.flags = @ \ {"FIN"}]
    IN  IF \/ Len(x.data) <= c.mss \/ c.loans # <<>> \/ c.nxt # EndOf(x)
           \/ Len(c.sbuf) + Len(tail) > SendMax
        THEN [c |-> c, x |-> x]
        ELSE [c |-> [c EXCEPT !.sbuf = tail \o @, !.fin = @ \/ fin,
                              !.nxt = (@ - Len(tail) - (IF fin THEN 1 ELSE 0)) % Modulus],
              x |-> y]

(***************************************************************************)
(* tcp_tick, TCP_TIMER_RETRANSMIT, with maybe_blackhole.  The timer that   *)
(* fired has left the heap, so the next one has room.  A retransmission    *)
(* that cannot be transmitted ends the tick before the flush.              *)
(***************************************************************************)
Retransmit(e, x, blackhole, v) ==
    LET c == [conn[e] EXCEPT !.rtx = @ \ {x},
                             !.mss = IF blackhole THEN SmallMss ELSE @]
        y == [x EXCEPT !.tries = @ + 1]
        Again(r) == [Work([r.c EXCEPT !.rtx = @ \union {r.x}], v) EXCEPT
                        !.next = <<Segment(r.c, r.x.seq, r.x.flags, r.x.data)>>]
    IN  /\ conn[e].active /\ x \in conn[e].rtx /\ x.timer
        /\ blackhole => SmallMss < conn[e].mss /\ Len(x.data) >= conn[e].mss
        /\ IF x.tries >= RetryMax THEN ~blackhole /\ Still(e, Failed(c, -110))
           ELSE \E r \in {IF blackhole THEN Resegment(c, y) ELSE [c |-> c, x |-> y]} :
                \E w \in {TransmitTcp(Again(r))} :
                    IF w.go THEN \E f \in {Flush(w)} : Kept(e, f) ELSE Kept(e, w)

(***************************************************************************)
(* tcp_tick, TCP_TIMER_PERSIST: one byte at send_next, which stays.  A     *)
(* timer that finds no zero window leaves its deadline behind.             *)
(***************************************************************************)
Persist(e, v) ==
    LET c == conn[e]
        byte == IF c.sbuf # <<>> THEN c.sbuf[1] ELSE c.loans[1][1]
    IN  /\ c.active /\ c.persist = "armed"
        /\ IF c.state \in Sending /\ c.swnd = 0 /\ Unsent(c)
           THEN Kept(e, TransmitTcp([Work(c, v) EXCEPT
                            !.next = <<Segment(c, c.nxt, {"ACK"}, <<byte>>)>>]))
           ELSE Still(e, [c EXCEPT !.persist = "lost"])

(* tcp_tick, TCP_TIMER_TIME_WAIT *)
TimeWait(e) ==
    /\ conn[e].active /\ conn[e].state = "TIME_WAIT" /\ conn[e].linger
    /\ Still(e, Freed(conn[e]))

(* tcp_pending_send, and the flush the interface tick adds *)
PendingSend(e, v) ==
    /\ conn[e].active /\ conn[e].state \in Sending
    /\ conn[e].swnd # 0 /\ Unsent(conn[e])
    /\ \E w \in {Flush(Work(conn[e], v))} : Kept(e, w)

(***************************************************************************)
(* Properties.                                                             *)
(***************************************************************************)
Delivered(e) == conn[e].read \o conn[e].rbuf
Stream(n) == [i \in 1..n |-> i]

(* The bytes an application has read, with those waiting in its receive    *)
(* buffer, are a prefix of what tcp_queue_send has taken from the peer's   *)
(* calls: loss, reordering, duplication, failed transmissions, out-of-     *)
(* order slots, page loans and grants, probes and resegmentation never     *)
(* lose, repeat or swap a byte.  (A call may queue its bytes and fail; the *)
(* socket layer then queues them again, as bytes of their own.)            *)
StreamPrefix ==
    \A e \in Ends :
        /\ Delivered(e) = Stream(Len(Delivered(e)))
        /\ Len(Delivered(e)) <= conn[Peer(e)].written

(* A reader that is told end of file by a connection that has had no error *)
(* has every byte its peer wrote, and the peer has closed; and an end that *)
(* believes its FIN acknowledged has nothing unsent and nothing its peer   *)
(* lacks.  (After tcp_take_error an end of file looks the same, whatever   *)
(* is missing.)                                                            *)
OrderlyEnd ==
    \A e \in Ends :
        /\ conn[e].eof /\ ~conn[e].broken =>
             conn[Peer(e)].fin /\ Len(Delivered(e)) = conn[Peer(e)].written
        /\ conn[e].active /\ conn[e].state \in {"FIN_WAIT_2", "TIME_WAIT"} =>
             ~Unsent(conn[e]) /\ Len(Delivered(Peer(e))) = conn[e].written

Holds(c) == {c.sbuf[i] : i \in DOMAIN c.sbuf}
              \union UNION {{l[i] : i \in DOMAIN l} : l \in {c.loans[j] : j \in DOMAIN c.loans}}
              \union UNION {{x.data[i] : i \in DOMAIN x.data} : x \in c.rtx}

Has(c) == {c.read[i] : i \in DOMAIN c.read} \union {c.rbuf[i] : i \in DOMAIN c.rbuf}
            \union UNION {{x.data[i] : i \in DOMAIN x.data} :
                             x \in {c.ooo[i] : i \in {j \in DOMAIN c.ooo : c.ooo[j].active}}}

(* An end that still works keeps every byte the peer has not taken: an     *)
(* acknowledgement or a SACK block never retires a byte that is nowhere    *)
(* else.                                                                   *)
NoByteLost ==
    \A e \in Ends :
        conn[e].active /\ ~conn[e].broken =>
            \A b \in 1..conn[e].written : b \in Holds(conn[e]) \union Has(conn[Peer(e)])

(* A timer was refused by the full heap or discarded, or the flush that    *)
(* would have armed the probe of a closed window was skipped.              *)
Starved(c) ==
    \/ c.swnd = 0 /\ (c.skipped \/ c.persist = "lost")
    \/ \E x \in c.rtx : ~x.timer

(* While bytes are missing at a peer that could take them, the sender has  *)
(* a retransmission or a probe timer in the heap, or the next interface    *)
(* tick sends: the connection never stalls for want of a timer, unless     *)
(* deadline_push has left one out or, over a closed window, a response     *)
(* that could not be transmitted has kept the handler from its flush.      *)
NoStall ==
    \A e \in Ends :
        LET c == conn[e]
            p == conn[Peer(e)]
        IN  /\ c.active /\ ~c.broken /\ p.active /\ ~p.broken
            /\ Len(Delivered(Peer(e))) < c.written
            => \/ \E x \in c.rtx : x.timer
               \/ c.state \in Sending /\ Unsent(c) /\ (c.swnd # 0 \/ c.persist = "armed")
               \/ Starved(c)

=============================================================================

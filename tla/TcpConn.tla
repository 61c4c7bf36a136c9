------------------------------- MODULE TcpConn -------------------------------
(***************************************************************************)
(* One TCP connection of the NAT gateway, src/src/net/tcp.rs: the guest's   *)
(* connection ends in a TcpConn, which relays both byte streams to and from *)
(* a host socket.  TcpConn has retransmission, flow control and the close   *)
(* handshake of its own; the frames go through the queues of the engine     *)
(* (engine.rs) and the rings of the adapter (link.rs), where frames get     *)
(* lost.  All of it runs on the engine's thread, in passes: handle the      *)
(* guest's frames, then poll.  Replies to the guest's frames are held to    *)
(* the start of the next pass, so they go out behind the frames of the poll;*)
(* nothing else reaches the queue in between, and PollTcp queues both.      *)
(*                                                                         *)
(* A byte is its number in its stream.  Sequence numbers are taken modulo   *)
(* SeqSpace in place of 2^32.  Time is left out: a timer that is armed may  *)
(* be due at any poll, and the long timeouts (GIVE_UP, HALF_CLOSED_IDLE,    *)
(* TIME_WAIT, CONNECT_TIMEOUT) may have passed.                             *)
(*                                                                         *)
(* The guest's TCP and the host's socket are external: the guest is any     *)
(* peer that sends within the window (one byte past it to probe a closed    *)
(* one), resends what is not acknowledged, receives in order and            *)
(* acknowledges what it gets.                                               *)
(***************************************************************************)
EXTENDS Integers, Sequences, FiniteSets, SequencesExt

CONSTANTS
    SeqSpace,       \* sequence numbers are 0..SeqSpace-1
    RcvBuf,         \* RCV_BUF, the receive buffer toward the host
    SndBuf,         \* SND_BUF, the most unacknowledged bytes held
    TcpMss,         \* TCP_MSS, the guest's segments, and what a window update opens
    PeerMss,        \* the guest's MSS
    QueueLimit,     \* QUEUE_SOFT_LIMIT and the slots of the ring: frames under
                    \* way to the guest from which on no data is added
    HostBuf,        \* what the host socket takes before it would block
    Loads,          \* triples <<n, m, b>>: the guest sends n bytes, the host m,
                    \* and the guest's receive buffer holds b
    InTransit,      \* bound: frames under way when a timer or the guest adds one
    MaxFaults,      \* bound: frames lost, windows taken back, resets,
                    \* failures of the host, timeouts of the connection
    LossyUpdates    \* whether a window update of the guest may be lost

VARIABLES
    c,          \* the TcpConn, or the absent one
    h,          \* the host socket behind it
    g,          \* the guest's end
    nextPass,   \* replies held for the next pass
    toGuest,    \* frames queued for the guest, to_guest and the ring
    fromGuest,  \* frames of the guest on the other ring
    faults,     \* how many of MaxFaults have happened
    load,       \* the one of Loads this connection carries
    broken      \* history: the connection was reset or refused

vars == <<c, h, g, nextPass, toGuest, fromGuest, faults, load, broken>>

-----------------------------------------------------------------------------
(* Sequence numbers, frames and small helpers *)

\* wrapping_add and wrapping_sub
Plus(a, n) == (a + n) % SeqSpace
Minus(a, b) == (a - b) % SeqSpace

\* a is after b: the difference as a signed number is positive.
SeqGt(a, b) == Minus(a, b) \in 1 .. SeqSpace \div 2 - 1

Least(a, b) == IF a < b THEN a ELSE b
Sat(n) == IF n < 0 THEN 0 ELSE n
First(s, n) == SubSeq(s, 1, n)
Rest(s, n) == SubSeq(s, n + 1, Len(s))

\* Both initial sequence numbers: near the top, so that both streams wrap.
Iss == SeqSpace - 2
GuestIss == SeqSpace - 3

GuestBytes == load[1]
HostBytes == load[2]
GuestBuf == load[3]
GuestStream == [i \in 1 .. GuestBytes |-> i]
HostStream == [i \in 1 .. HostBytes |-> i]

Frame(flags, seq, ack, win, data) ==
    [flags |-> flags, seq |-> seq, ack |-> ack, win |-> win, data |-> data]

RcvWin(k) == Sat(RcvBuf - Len(k.toBackend))
InFlight(k) == Minus(k.sndNxt, k.sndUna)

\* A segment to the guest.
Seg(k, seq, flags, data) ==
    Frame(flags, seq, IF "ACK" \in flags THEN k.rcvNxt ELSE 0, RcvWin(k), data)

-----------------------------------------------------------------------------
(* TcpConn: its constructors and the two halves of a flush *)

NoConn ==
    [state |-> "None", sndUna |-> 0, sndNxt |-> 0, sndMax |-> 0,
     unacked |-> <<>>, peerWin |-> 0, rtoArmed |-> FALSE, rcvNxt |-> 0,
     toBackend |-> <<>>, advWin |-> 0, guestFin |-> FALSE,
     backendShut |-> FALSE, backendEof |-> FALSE, finSent |-> FALSE,
     reset |-> FALSE]

\* The guest's SYN: the host may still be connecting.
Accept(syn) ==
    [NoConn EXCEPT !.state = "Connecting", !.sndUna = Iss, !.sndNxt = Iss,
        !.sndMax = Iss, !.peerWin = syn.win, !.rcvNxt = Plus(syn.seq, 1),
        !.advWin = RcvBuf]

\* A connection toward the guest, for an accepted forward.
Open ==
    [NoConn EXCEPT !.state = "SynSent", !.sndUna = Iss,
        !.sndNxt = Plus(Iss, 1), !.sndMax = Plus(Iss, 1), !.rtoArmed = TRUE,
        !.advWin = RcvBuf]

SentTo(k, end) ==
    [k EXCEPT !.sndNxt = end,
        !.sndMax = IF SeqGt(end, k.sndMax) THEN end ELSE k.sndMax]

\* Reset the guest's side and close; nothing else of the pass is sent.
Abort(k, s) ==
    [c |-> [k EXCEPT !.state = "Closed", !.reset = FALSE], h |-> s,
     out |-> << Seg(k, k.sndNxt, {"RST", "ACK"}, <<>>) >>]

\* What the host takes is written; after the guest's FIN and the last byte
\* the host's write side is shut.
FlushToBackend(k, s) ==
    LET n == IF s.failed \/ s.conn # "ok" THEN 0
             ELSE Least(Len(k.toBackend), s.room)
        k1 == [k EXCEPT !.toBackend = Rest(@, n),
                  !.reset = @ \/ (s.failed /\ k.toBackend # <<>>)]
        s1 == [s EXCEPT !.got = @ \o First(k.toBackend, n), !.room = @ - n]
        shut == k1.guestFin /\ k1.toBackend = <<>> /\ ~k1.backendShut
    IN  [c |-> [k1 EXCEPT !.backendShut = @ \/ shut],
         h |-> [s1 EXCEPT !.shut = @ \/ shut]]

CloseIfDone(k) ==
    IF /\ k.state = "Established" /\ k.guestFin /\ k.finSent
       /\ k.sndUna = k.sndMax /\ k.toBackend = <<>>
    THEN [k EXCEPT !.state = "Closed"] ELSE k

-----------------------------------------------------------------------------
(* input: a segment of the guest *)

\* ACK processing.
TakeAck(k, f) ==
    IF "ACK" \notin f.flags THEN k
    ELSE IF SeqGt(f.ack, k.sndUna) /\ ~SeqGt(f.ack, k.sndMax)
    THEN LET nxt == IF SeqGt(f.ack, k.sndNxt) THEN f.ack ELSE k.sndNxt
             acked == Least(Minus(f.ack, k.sndUna), Len(k.unacked))
         IN  [k EXCEPT !.unacked = Rest(@, acked), !.sndUna = f.ack,
                 !.sndNxt = nxt, !.rtoArmed = f.ack # nxt, !.peerWin = f.win]
    ELSE [k EXCEPT !.peerWin = f.win]

\* (mutant) a segment past a gap is taken as if it continued the stream.
TakeDataPastGap(k, f) ==
    LET n == Least(Len(f.data), RcvWin(k))
    IN  IF Minus(k.rcvNxt, f.seq) < Len(f.data) \/ SeqGt(f.seq, k.rcvNxt)
        THEN [k EXCEPT !.toBackend = @ \o First(f.data, n),
                       !.rcvNxt = Plus(@, n)]
        ELSE k

\* (mutant) what does not fit is acknowledged all the same.
TakeDataUnbounded(k, f) ==
    LET behind == Minus(k.rcvNxt, f.seq)
        fresh == Rest(f.data, behind)
        n == Least(Len(fresh), RcvWin(k))
    IN  IF behind < Len(f.data) /\ ~k.guestFin
        THEN [k EXCEPT !.toBackend = @ \o First(fresh, n),
                       !.rcvNxt = Plus(@, Len(fresh))]
        ELSE k

\* Data: only what continues the stream, and only what fits.
TakeData(k, f) ==
    LET behind == Minus(k.rcvNxt, f.seq)
        fresh == Rest(f.data, behind)
        n == Least(Len(fresh), RcvWin(k))
    IN  IF behind < SeqSpace \div 2 /\ behind < Len(f.data) /\ ~k.guestFin
        THEN [k EXCEPT !.toBackend = @ \o First(fresh, n),
                       !.rcvNxt = Plus(@, n)]
        ELSE k

\* FIN: only when every byte before it is in.
TakeFin(k, f) ==
    IF /\ "FIN" \in f.flags /\ ~k.guestFin
       /\ Plus(f.seq, Len(f.data)) = k.rcvNxt
    THEN [k EXCEPT !.rcvNxt = Plus(@, 1), !.guestFin = TRUE]
    ELSE k

\* What input does once the handshake has let the segment through.
InputStream(k, s, f) ==
    LET k1 == TakeFin(TakeData(TakeAck(k, f), f), f)
        r == FlushToBackend(k1, s)
        ackNeeded == f.data # <<>> \/ "FIN" \in f.flags
        k2 == IF ackNeeded THEN [r.c EXCEPT !.advWin = RcvWin(r.c)] ELSE r.c
    IN  [c |-> CloseIfDone(k2), h |-> r.h,
         out |-> IF ackNeeded THEN << Seg(k2, k2.sndNxt, {"ACK"}, <<>>) >>
                 ELSE <<>>]

Same(k, s) == [c |-> k, h |-> s, out |-> <<>>]

Input(k, s, f) ==
    LET syn == "SYN" \in f.flags
        ack == "ACK" \in f.flags
        answers == ack /\ f.ack = Plus(Iss, 1)
        up == [k EXCEPT !.state = "Established", !.sndUna = f.ack,
                  !.rtoArmed = FALSE]
    IN  CASE "RST" \in f.flags -> Same([k EXCEPT !.state = "Closed"], s)
          [] "RST" \notin f.flags /\ k.state = "Connecting" -> Same(k, s)
          [] "RST" \notin f.flags /\ k.state = "SynSent" ->
               IF syn /\ answers
               THEN LET k1 == [up EXCEPT !.rcvNxt = Plus(f.seq, 1),
                                         !.peerWin = f.win]
                    IN  [c |-> k1, h |-> s,
                         out |-> << Seg(k1, k1.sndNxt, {"ACK"}, <<>>) >>]
               ELSE Same([k EXCEPT !.reset = @ \/ syn \/ ack], s)
          [] "RST" \notin f.flags /\ k.state = "SynReceived" ->
               IF syn /\ ~ack
               THEN [Same(k, s) EXCEPT !.out =
                        << Seg(k, Iss, {"SYN", "ACK"}, <<>>) >>]
               ELSE IF answers THEN InputStream(up, s, f) ELSE Same(k, s)
          [] "RST" \notin f.flags /\ k.state \in {"Established", "Closed"} ->
               IF syn
               THEN [Same(k, s) EXCEPT !.out =
                        << Seg(k, k.sndNxt, {"ACK"}, <<>>) >>]
               ELSE InputStream(k, s, f)

-----------------------------------------------------------------------------
(* poll: timers, and data from the host *)

\* Window update: the window opened by a segment, or completely.
WindowUpdate(k, budget) ==
    LET win == RcvWin(k)
    IN  IF budget > 0 /\ (win >= k.advWin + TcpMss
                           \/ (win = RcvBuf /\ k.advWin < win))
        THEN [c |-> [k EXCEPT !.advWin = win],
              out |-> << Seg(k, k.sndNxt, {"ACK"}, <<>>) >>]
        ELSE [c |-> k, out |-> <<>>]

\* (mutant) the FIN is not sent again.
RetransmitDataOnly(k) ==
    [c |-> [k EXCEPT !.sndNxt = k.sndUna], out |-> <<>>]

\* Retransmission timeout: a probe of a closed window, or back to the first
\* unacknowledged byte (the FIN goes again here, the data in Fill).
Retransmit(k) ==
    IF k.peerWin = 0 /\ k.unacked # <<>> /\ ~k.finSent
    THEN [c |-> SentTo(k, Plus(k.sndUna, 1)),
          out |-> << Seg(k, k.sndUna, {"ACK"}, First(k.unacked, 1)) >>]
    ELSE IF k.finSent /\ k.unacked = <<>>
    THEN [c |-> SentTo(k, Plus(k.sndUna, 1)),
          out |-> << Seg(k, k.sndUna, {"FIN", "ACK"}, <<>>) >>]
    ELSE [c |-> [k EXCEPT !.sndNxt = k.sndUna], out |-> <<>>]

\* (mutant) the bytes in flight do not count against the window.
RECURSIVE FillWholeWindow(_, _, _, _)
FillWholeWindow(k, s, out, budget) ==
    LET sent == InFlight(k)
        room == k.peerWin
        n == Least(Least(Len(k.unacked) - sent, PeerMss), room)
        want == Least(Least(PeerMss, room), SndBuf - Len(k.unacked))
        m == Least(want, Len(s.out))
        stop == [c |-> k, h |-> s, out |-> out]
    IN  IF Len(out) >= budget \/ room = 0 THEN stop
        ELSE IF sent < Len(k.unacked)
        THEN FillWholeWindow(
                  [SentTo(k, Plus(k.sndNxt, n)) EXCEPT !.rtoArmed = TRUE], s,
                  Append(out, Seg(k, k.sndNxt, {"ACK"},
                                  SubSeq(k.unacked, sent + 1, sent + n))),
                  budget)
        ELSE IF m > 0 /\ ~k.finSent
        THEN FillWholeWindow([k EXCEPT !.unacked = @ \o First(s.out, m)],
                             [s EXCEPT !.out = Rest(@, m)], out, budget)
        ELSE [stop EXCEPT !.c.backendEof = @ \/ s.closed]

\* Fill the window: resend what is buffered, then read more from the host.
RECURSIVE Fill(_, _, _, _)
Fill(k, s, out, budget) ==
    LET sent == InFlight(k)
        room == Sat(k.peerWin - sent)
        n == Least(Least(Len(k.unacked) - sent, PeerMss), room)
        want == Least(Least(PeerMss, room), SndBuf - Len(k.unacked))
        m == Least(want, Len(s.out))
        stop == [c |-> k, h |-> s, out |-> out]
    IN  IF Len(out) >= budget \/ room = 0 THEN stop
        ELSE IF sent < Len(k.unacked)
        THEN Fill([SentTo(k, Plus(k.sndNxt, n)) EXCEPT !.rtoArmed = TRUE], s,
                  Append(out, Seg(k, k.sndNxt, {"ACK"},
                                  SubSeq(k.unacked, sent + 1, sent + n))),
                  budget)
        ELSE IF k.backendEof \/ k.finSent \/ Len(k.unacked) >= SndBuf THEN stop
        ELSE IF s.failed THEN [stop EXCEPT !.c.reset = TRUE]
        ELSE IF m > 0
        THEN Fill([k EXCEPT !.unacked = @ \o First(s.out, m)],
                  [s EXCEPT !.out = Rest(@, m)], out, budget)
        ELSE [stop EXCEPT !.c.backendEof = s.closed]

\* (mutant) the FIN does not wait for the guest to have every byte.
SendFinEarly(r, budget) ==
    IF r.c.backendEof /\ ~r.c.finSent /\ Len(r.out) < budget
    THEN [r EXCEPT
            !.c = [SentTo(r.c, Plus(r.c.sndNxt, 1)) EXCEPT
                     !.finSent = TRUE, !.rtoArmed = TRUE],
            !.out = Append(@, Seg(r.c, r.c.sndNxt, {"FIN", "ACK"}, <<>>))]
    ELSE r

\* Our FIN, once the host is done and the guest has every byte.
SendFin(r, budget) ==
    IF /\ r.c.backendEof /\ ~r.c.finSent /\ r.c.unacked = <<>>
       /\ Len(r.out) < budget
    THEN [r EXCEPT
            !.c = [SentTo(r.c, Plus(r.c.sndNxt, 1)) EXCEPT
                     !.finSent = TRUE, !.rtoArmed = TRUE],
            !.out = Append(@, Seg(r.c, r.c.sndNxt, {"FIN", "ACK"}, <<>>))]
    ELSE r

\* poll of an established connection.  due: the timer has run out; late: so
\* has GIVE_UP; idle: HALF_CLOSED_IDLE has, unless bytes move in this poll.
PollEstablished(k, s, budget, due, late, idle) ==
    LET r1 == FlushToBackend(k, s)
        r2 == WindowUpdate(r1.c, budget)
        r3 == IF due THEN Retransmit(r2.c) ELSE [c |-> r2.c, out |-> <<>>]
        r4 == SendFin(Fill(r3.c, r1.h, r2.out \o r3.out, budget), budget)
        moved == r4.h.got # s.got \/ r4.h.out # s.out
    IN  IF due /\ late THEN Abort(r2.c, r1.h)
        ELSE IF idle /\ ~moved /\ (r4.c.guestFin \/ r4.c.finSent)
        THEN Abort(r4.c, r4.h)
        ELSE [r4 EXCEPT !.c = CloseIfDone(@)]

\* poll of a connection whose host is still connecting.
PollConnecting(k, s) ==
    CASE s.conn = "pending" -> Same(k, s)
      [] s.conn = "ok" ->
           [c |-> [SentTo(k, Plus(Iss, 1)) EXCEPT
                     !.state = "SynReceived", !.rtoArmed = TRUE],
            h |-> s, out |-> << Seg(k, Iss, {"SYN", "ACK"}, <<>>) >>]
      [] s.conn = "refused" ->
           [c |-> [k EXCEPT !.state = "Closed"], h |-> s,
            out |-> << Frame({"RST", "ACK"}, 0, k.rcvNxt, 0, <<>>) >>]

\* poll while the handshake with the guest is under way.
PollHandshake(k, s, due, late) ==
    IF ~due THEN Same(k, s)
    ELSE IF late THEN Abort(k, s)
    ELSE [Same(k, s) EXCEPT !.out =
            << Seg(k, Iss, IF k.state = "SynSent" THEN {"SYN"}
                           ELSE {"SYN", "ACK"}, <<>>) >>]

PollConn(k, s, budget, due, late, idle) ==
    IF k.reset THEN Abort(k, s)
    ELSE CASE k.state = "Connecting" -> PollConnecting(k, s)
           [] k.state \in {"SynSent", "SynReceived"} ->
                PollHandshake(k, s, due, late)
           [] k.state = "Established" ->
                PollEstablished(k, s, budget, due, late, idle)
           [] k.state \in {"Closed", "None"} -> Same(k, s)

-----------------------------------------------------------------------------
(* The engine's pass *)

NewHost(conn) ==
    [conn |-> conn, out |-> <<>>, sent |-> 0, closed |-> FALSE,
     failed |-> FALSE, got |-> <<>>, room |-> 0, shut |-> FALSE]

\* A RST for a segment that belongs to no connection.
TcpReset(f) ==
    Frame({"RST", "ACK"}, IF "ACK" \in f.flags THEN f.ack ELSE 0,
          Plus(f.seq, Len(f.data) + Cardinality(f.flags \cap {"SYN", "FIN"})),
          0, <<>>)

Fault == faults < MaxFaults /\ faults' = faults + 1

\* The bound on what a timer or the guest's program adds to what is under way.
Room == Len(fromGuest) + Len(nextPass) + Len(toGuest) < InTransit

\* tcp_open: a connection; or, when the connect fails at once, none and a RST.
TcpOpen(f) ==
    \/ /\ c' = Accept(f)
       /\ h' = NewHost("pending")
       /\ UNCHANGED <<nextPass, faults, broken>>
    \/ /\ c' = NoConn
       /\ h' = NewHost("refused")
       /\ nextPass' = Append(nextPass, TcpReset(f))
       /\ broken' = TRUE
       /\ Fault

\* handle_tcp: a frame of the guest; the reply is held for the next pass.
HandleTcp ==
    /\ fromGuest # <<>>
    /\ fromGuest' = Tail(fromGuest)
    /\ LET f == Head(fromGuest)
           r == Input(c, h, f)
           opens == /\ "SYN" \in f.flags /\ "ACK" \notin f.flags
                    /\ c.state \in {"None", "Closed"}
       IN  \/ opens /\ TcpOpen(f)
           \/ /\ ~opens /\ c.state = "None"
              /\ nextPass' = IF "RST" \in f.flags THEN nextPass
                             ELSE Append(nextPass, TcpReset(f))
              /\ UNCHANGED <<c, h, faults, broken>>
           \/ /\ ~opens /\ c.state # "None"
              /\ c' = r.c
              /\ h' = r.h
              /\ nextPass' = nextPass \o r.out
              /\ broken' = (broken \/ "RST" \in f.flags)
              /\ UNCHANGED faults
    /\ UNCHANGED <<g, toGuest, load>>

\* queue_room
Budget == Sat(QueueLimit - Len(toGuest) - Len(nextPass))

PollReady(due, over) ==
    /\ fromGuest = <<>>
    /\ due => c.rtoArmed /\ Room
    /\ over => c.state = "Closed" /\ ~c.reset

\* poll_tcp, the end of the pass.  over: TIME_WAIT has passed, and a closed
\* connection is removed.
PollTcp(due, late, idle, over) ==
    /\ PollReady(due, over)
    /\ late => due
    /\ UNCHANGED <<g, fromGuest, load>>
    /\ nextPass' = <<>>
    /\ LET r == PollConn(c, h, Budget, due, late, idle)
       IN  /\ idle => r.c.state = "Closed"
           /\ toGuest' = toGuest \o r.out \o nextPass
           /\ h' = r.h
           /\ c' = IF over THEN NoConn ELSE r.c
           /\ broken' = (broken \/ \E i \in DOMAIN r.out :
                                      "RST" \in r.out[i].flags)
    /\ IF late \/ idle THEN Fault ELSE UNCHANGED faults

-----------------------------------------------------------------------------
(* The host's end of the socket (external) *)

\* The connect succeeds, or fails or times out.
HostAnswers(conn) ==
    /\ h.conn = "pending" /\ c.state = "Connecting"
    /\ h' = [h EXCEPT !.conn = conn]
    /\ IF conn = "ok" THEN UNCHANGED faults ELSE Fault
    /\ UNCHANGED <<c, g, nextPass, toGuest, fromGuest, broken, load>>

HostWrites ==
    /\ h.conn = "ok" /\ ~h.closed /\ h.sent < HostBytes
    /\ h' = [h EXCEPT !.out = Append(@, h.sent + 1), !.sent = @ + 1]
    /\ UNCHANGED <<c, g, nextPass, toGuest, fromGuest, faults, broken, load>>

HostCloses ==
    /\ h.conn = "ok" /\ ~h.closed /\ h.sent = HostBytes
    /\ h' = [h EXCEPT !.closed = TRUE]
    /\ UNCHANGED <<c, g, nextPass, toGuest, fromGuest, faults, broken, load>>

\* The host's program reads, and the socket takes another byte of those that
\* wait for it.
HostReads ==
    /\ h.conn = "ok" /\ h.room < HostBuf /\ c.toBackend # <<>>
    /\ h' = [h EXCEPT !.room = @ + 1]
    /\ UNCHANGED <<c, g, nextPass, toGuest, fromGuest, faults, broken, load>>

HostFails ==
    /\ h.conn = "ok" /\ ~h.failed
    /\ h' = [h EXCEPT !.failed = TRUE]
    /\ Fault
    /\ UNCHANGED <<c, g, nextPass, toGuest, fromGuest, broken, load>>

-----------------------------------------------------------------------------
(* The guest's TCP (external).  una counts what it sent and got acknowledged *)
(* and top what it sent, its FIN included; rcv what it received, ours        *)
(* included; edge is the furthest end of the window it ever offered.         *)

NewGuest(st) ==
    [st |-> st, una |-> 0, top |-> 0, win |-> 0, got |-> <<>>, fin |-> FALSE,
     unread |-> 0, shrunk |-> FALSE, edge |-> GuestBuf]

GuestWin(p) == IF p.shrunk THEN 0 ELSE GuestBuf - p.unread
GuestRcv(p) == Len(p.got) + IF p.fin THEN 1 ELSE 0

GuestAck(p) == Plus(Iss, 1 + GuestRcv(p))
GuestSeq(i) == Plus(GuestIss, 1 + i)
GuestPure(p) ==
    Frame({"ACK"}, GuestSeq(p.top), GuestAck(p), GuestWin(p), <<>>)
GuestSynAck(p) ==
    Frame({"SYN", "ACK"}, GuestIss, Plus(Iss, 1), GuestWin(p), <<>>)

GuestSends(f) == fromGuest' = Append(fromGuest, f)

\* The window the guest is about to offer counts for the edge.
Offer(p) ==
    LET end == Len(p.got) + GuestWin(p)
    IN  [p EXCEPT !.edge = IF end > @ THEN end ELSE @]

\* The SYN, sent again until it is answered.
GuestConnects ==
    /\ g.st \in {"idle", "synSent"} /\ Room
    /\ g' = [g EXCEPT !.st = "synSent"]
    /\ GuestSends(Frame({"SYN"}, GuestIss, 0, GuestWin(g), <<>>))
    /\ UNCHANGED <<c, h, nextPass, toGuest, faults, broken, load>>

\* n bytes from the i-th on, new or again, within the window or one byte
\* past a closed one; the FIN rides on the last of them or goes alone.
GuestSendsData(i, n, fin) ==
    /\ g.st = "up" /\ Room
    /\ i \in g.una .. Least(g.top, GuestBytes)
    /\ i + n <= GuestBytes /\ n <= TcpMss
    /\ n + (IF fin THEN 1 ELSE 0) > 0
    /\ fin => i + n = GuestBytes
    /\ i + n <= g.una + (IF g.win = 0 THEN 1 ELSE g.win)
    /\ LET end == i + n + IF fin THEN 1 ELSE 0
       IN  g' = [g EXCEPT !.top = IF end > @ THEN end ELSE @]
    /\ GuestSends(Frame(IF fin THEN {"FIN", "ACK"} ELSE {"ACK"}, GuestSeq(i),
                        GuestAck(g), GuestWin(g),
                        SubSeq(GuestStream, i + 1, i + n)))
    /\ UNCHANGED <<c, h, nextPass, toGuest, faults, broken, load>>

\* The guest takes its window back, short of memory.
GuestShrinks ==
    /\ g.st = "up" /\ ~g.shrunk
    /\ g' = [g EXCEPT !.shrunk = TRUE]
    /\ Fault
    /\ UNCHANGED <<c, h, nextPass, toGuest, fromGuest, broken, load>>

\* The guest's program reads a byte; the window opens and the guest says so.
GuestReads ==
    /\ g.st = "up" /\ (g.unread > 0 \/ g.shrunk)
    /\ g' = Offer([g EXCEPT !.unread = Sat(@ - 1), !.shrunk = FALSE])
    /\ GuestSends(GuestPure(g'))
    /\ UNCHANGED <<c, h, nextPass, toGuest, faults, broken, load>>

\* What a segment with a connection does to the guest's state.
GuestTakes(p, f) ==
    LET acked == p.una + Minus(f.ack, GuestSeq(p.una))
        behind == Minus(GuestAck(p), f.seq)
        fresh == IF behind < Len(f.data) THEN Rest(f.data, behind) ELSE <<>>
        n == IF p.fin THEN 0 ELSE Least(Len(fresh), GuestWin(p))
        p1 == [p EXCEPT !.una = IF acked <= p.top THEN acked ELSE @,
                        !.win = IF acked <= p.top THEN f.win ELSE @,
                        !.got = @ \o First(fresh, n), !.unread = @ + n]
        isFin == "FIN" \in f.flags /\ Plus(f.seq, Len(f.data)) = GuestAck(p1)
        p2 == [p1 EXCEPT !.fin = @ \/ isFin]
    IN  Offer(p2)

\* A frame reaches the guest.
GuestReceives ==
    /\ toGuest # <<>>
    /\ toGuest' = Tail(toGuest)
    /\ UNCHANGED <<c, h, nextPass, faults, broken, load>>
    /\ LET f == Head(toGuest)
           Quiet == UNCHANGED fromGuest
       IN  \/ /\ "RST" \in f.flags
              /\ g' = IF \/ g.st = "synSent" /\ f.ack = GuestSeq(0)
                         \/ g.st = "up" /\ f.seq = GuestAck(g)
                      THEN NewGuest("closed") ELSE g
              /\ Quiet
           \/ /\ "RST" \notin f.flags /\ g.st \in {"idle", "closed"}
              /\ g' = g
              /\ GuestSends(Frame({"RST"}, f.ack, 0, 0, <<>>))
           \/ /\ "RST" \notin f.flags /\ g.st = "listen"
              /\ g' = [g EXCEPT !.st = "synRcvd"]
              /\ GuestSends(GuestSynAck(g'))
           \/ /\ "RST" \notin f.flags /\ g.st = "synRcvd"
              /\ IF "SYN" \in f.flags
                 THEN g' = g /\ GuestSends(GuestSynAck(g))
                 ELSE /\ g' = GuestTakes([g EXCEPT !.st = "up"], f)
                      /\ IF f.data = <<>> /\ "FIN" \notin f.flags THEN Quiet
                         ELSE GuestSends(GuestPure(g'))
           \/ /\ "RST" \notin f.flags /\ g.st = "synSent"
              /\ IF "SYN" \in f.flags /\ f.ack = GuestSeq(0)
                 THEN /\ g' = [g EXCEPT !.st = "up", !.win = f.win]
                      /\ GuestSends(GuestPure(g'))
                 ELSE g' = g /\ Quiet
           \/ /\ "RST" \notin f.flags /\ g.st = "up"
              /\ IF "SYN" \in f.flags
                 THEN g' = g /\ GuestSends(GuestPure(g))
                 ELSE /\ g' = GuestTakes(g, f)
                      /\ IF f.data = <<>> /\ "FIN" \notin f.flags THEN Quiet
                         ELSE GuestSends(GuestPure(g'))

\* The guest's program gives the connection up.
GuestAborts ==
    /\ g.st = "up"
    /\ g' = NewGuest("closed")
    /\ GuestSends(Frame({"RST"}, GuestSeq(g.top), 0, 0, <<>>))
    /\ Fault
    /\ broken' = TRUE
    /\ UNCHANGED <<c, h, nextPass, toGuest, load>>

-----------------------------------------------------------------------------
(* The adapter: a frame of the guest is dropped when the ring is full, one   *)
(* for the guest while its receive DMA is off.                               *)

\* A guest's segment that nothing will make it repeat: no data, no FIN, no
\* SYN, and the connection has nothing outstanding the guest would answer.
OnlyUpdate(f) == f.flags = {"ACK"} /\ f.data = <<>> /\ ~c.rtoArmed

LoseToGuest ==
    /\ toGuest # <<>>
    /\ toGuest' = Tail(toGuest)
    /\ Fault
    /\ UNCHANGED <<c, h, g, nextPass, fromGuest, broken, load>>

LoseFromGuest ==
    /\ fromGuest # <<>>
    /\ OnlyUpdate(Head(fromGuest)) => LossyUpdates
    /\ fromGuest' = Tail(fromGuest)
    /\ Fault
    /\ UNCHANGED <<c, h, g, nextPass, toGuest, broken, load>>

-----------------------------------------------------------------------------
(* The specification *)

Init ==
    /\ load \in Loads
    /\ \/ /\ c = NoConn /\ h = NewHost("pending") /\ g = NewGuest("idle")
          /\ toGuest = <<>>
       \/ /\ c = Open /\ h = NewHost("ok") /\ g = NewGuest("listen")
          /\ toGuest = << Seg(Open, Iss, {"SYN"}, <<>>) >>
    /\ nextPass = <<>> /\ fromGuest = <<>>
    /\ faults = 0
    /\ broken = FALSE

Engine ==
    \/ HandleTcp
    \/ \E due, late, idle, over \in BOOLEAN : PollTcp(due, late, idle, over)

Host ==
    \/ \E conn \in {"ok", "refused"} : HostAnswers(conn)
    \/ HostWrites
    \/ HostCloses
    \/ HostReads
    \/ HostFails

Guest ==
    \/ GuestConnects
    \/ \E i, n \in 0 .. GuestBytes, fin \in BOOLEAN : GuestSendsData(i, n, fin)
    \/ GuestReads
    \/ GuestShrinks
    \/ GuestReceives
    \/ GuestAborts

Next == Engine \/ Host \/ Guest \/ LoseToGuest \/ LoseFromGuest

Spec == Init /\ [][Next]_vars

\* The host answers, writes all it has, closes and reads.
HostGoesOn ==
    \/ HostAnswers("ok")
    \/ HostWrites
    \/ HostCloses
    \/ HostReads

\* The guest's timer: the SYN, the first unacknowledged byte or the FIN.
GuestRetries ==
    \/ GuestConnects
    \/ GuestSendsData(g.una, 1, FALSE)
    \/ GuestSendsData(g.una, 0, TRUE)

\* A poll that changes something: ENABLED <<PollTcp(...)>>_vars, spelled out.
PollMoves(due, over) ==
    /\ PollReady(due, over)
    /\ LET r == PollConn(c, h, Budget, due, FALSE, FALSE)
       IN  over \/ r.c # c \/ r.h # h \/ r.out # <<>> \/ nextPass # <<>>

\* The engine goes on with its passes; a timer that stays armed is due in the
\* end, and TIME_WAIT passes.  The guest takes its frames, reads, and sends
\* what is not acknowledged again; the host answers, reads, writes and closes.
\* The guest does not send faster than the engine drains its ring for ever.
\* The next two are weak fairness of GuestReceives and strong fairness of
\* PollTcp with their guards in place of ENABLED.
Fairness ==
    /\ []<>(fromGuest = <<>>)
    /\ []<>(toGuest = <<>>) \/ []<><<GuestReceives>>_vars
    /\ \A p \in {<<FALSE, FALSE>>, <<TRUE, FALSE>>, <<FALSE, TRUE>>} :
          <>[](~PollMoves(p[1], p[2]))
            \/ []<><<PollTcp(p[1], FALSE, FALSE, p[2])>>_vars
    /\ WF_vars(HostGoesOn) /\ WF_vars(GuestReads) /\ SF_vars(GuestRetries)

FairSpec == Spec /\ Fairness

-----------------------------------------------------------------------------
(* Properties *)

\* How far the connection has come in the stream toward the guest: the bytes
\* acknowledged, the FIN included.
Acked == Minus(c.sndUna, Plus(Iss, 1))

Live == ~broken /\ c.state \in {"Established", "Closed"}

\* Both programs read what the other one wrote, in order, each byte once,
\* whatever was lost, sent again, cut by a window or overtaken (input, poll).
StreamsInOrder ==
    /\ IsPrefix(h.got, GuestStream)
    /\ IsPrefix(g.got, HostStream)

\* The receive buffer toward the backend bounds what is acknowledged, and a
\* byte leaves unacked only when the guest has it: what the guest counts as
\* received is in the host or in to_backend, and what the connection counts
\* as received is in the guest.
AckedIsKept ==
    Live /\ g.st = "up" =>
        /\ g.una <= Len(h.got) + Len(c.toBackend) + (IF c.guestFin THEN 1 ELSE 0)
        /\ Acked <= GuestRcv(g)
        /\ ~c.finSent => Acked + Len(c.unacked) + Len(h.out) = h.sent
        /\ Len(c.toBackend) <= RcvBuf /\ Len(c.unacked) <= SndBuf

\* An end of stream never overtakes data: our FIN goes out when the guest has
\* all of the host's bytes (poll: "IRIX may discard buffered data on a FIN that
\* overtakes it"), and the host's write side is shut when the host has all of
\* the guest's.
EndsLast ==
    /\ c.finSent /\ ~broken /\ g.st = "up" => g.got = HostStream
    /\ h.shut => h.got = GuestStream

\* No data goes past the furthest window the guest has offered, although
\* sndNxt goes back and forth (poll).
WindowKept ==
    g.st = "up" => \A q \in {toGuest, nextPass} : \A i \in DOMAIN q :
        q[i].data # <<>> => Last(q[i].data) <= g.edge

\* A connection nobody resets relays both streams to their ends, closes and
\* is removed.
Completes ==
    <>(broken \/ /\ h.got = GuestStream /\ h.shut
                 /\ g.got = HostStream /\ g.fin
                 /\ c.state = "None")

=============================================================================

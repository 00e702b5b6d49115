-------------------------------- MODULE Tcp --------------------------------
(***************************************************************************)
(* One direction of an established TCP connection of 4.4BSD-Lite2:         *)
(* netinet/tcp_output.c, tcp_input.c, tcp_timer.c and tcp_usrreq.c.        *)
(* A process writes and shuts down its side of A, a process reads at B,    *)
(* and between them segments and acknowledgements are lost, duplicated and *)
(* delayed.  The bytes of the stream are 1, 2, 3, ...                      *)
(*                                                                         *)
(* Timers are running or not; how long they run, the congestion window     *)
(* (any of Cwnds, never less than a segment) and the number of duplicate   *)
(* acknowledgements are choices.  Urgent data, options, keep-alives and    *)
(* giving up after TCP_MAXRXTSHIFT timeouts are left out.                  *)
(***************************************************************************)
EXTENDS TcpReass, FiniteSets

CONSTANTS
  Iss,          \* the first sequence number
  Total,        \* bytes the writer has
  Writes,       \* sizes of a write
  MaxSeg,       \* t_maxseg
  SndHiwat,     \* so_snd.sb_hiwat of A
  RcvHiwat,     \* so_rcv.sb_hiwat of B
  Cwnds,        \* congestion windows
  MaxNet,       \* segments, and acknowledgements, the network holds
  MaxQueue,     \* bound on the reassembly queue
  Shortages,    \* the segments of one tcp_output of A's there may be no mbuf for (0: none)
  AckMbufs,     \* whether there may be an mbuf, and none, for an acknowledgement of B's
  AcksInOrder   \* whether the network delivers acknowledgements in order

ASSUME SizesAssumption ==
  /\ SeqMod \in Nat /\ Iss \in 0 .. SeqMod - 1
  /\ Total \in Nat /\ SndHiwat \in Nat /\ RcvHiwat \in Nat
  /\ MaxSeg \in Nat \ {0} /\ Cwnds \subseteq Nat \ {0} /\ Writes \subseteq Nat
  /\ Shortages \subseteq Nat /\ AckMbufs \subseteq BOOLEAN

(* The network keeps a segment for as long as it likes, so the stream and  *)
(* a window are to fit in half the sequence space: what comes late is told *)
(* from what is new by the sign of a difference.                           *)
ASSUME SpaceAssumption == Total + 1 + RcvHiwat < SeqMod \div 2

VARIABLES
  tp,           \* A's control block: its sending half, and so_snd
  wrote,        \* bytes written
  rp,           \* B's control block: its receiving half, and so_rcv
  read,         \* bytes the reader has got
  eof,          \* the reader has seen the end of the stream
  net,          \* segments on the way to B
  acks,         \* acknowledgements on the way to A
  short         \* history: A's tcp_output was short of mbufs, and TCPT_REXMT has not run since

vars == <<tp, wrote, rp, read, eof, net, acks, short>>

Min2(a, b) == IF a < b THEN a ELSE b
Max2(a, b) == IF a < b THEN b ELSE a

(* The segments the stream can be cut into. *)
Segments ==
  {[seq |-> Add(Iss, k), data |-> [i \in 1 .. n |-> k + i], fin |-> f] :
      k \in 0 .. Total, n \in 0 .. MaxSeg, f \in BOOLEAN}
Acks == [ack : 0 .. SeqMod - 1, win : 0 .. RcvHiwat]

sb_cc == Len(tp.sb)

-----------------------------------------------------------------------------
(* A sends. *)

Init ==
  /\ tp = [t_state |-> "ESTABLISHED", una |-> Iss, nxt |-> Iss, max |-> Iss,
           wnd |-> RcvHiwat, wl2 |-> Iss, sb |-> <<>>,
           rexmt |-> FALSE, persist |-> FALSE, sentfin |-> FALSE]
  /\ rp = [t_state |-> "ESTABLISHED", nxt |-> Iss, adv |-> Add(Iss, RcvHiwat),
           q |-> <<>>, sb |-> <<>>, delack |-> FALSE, acknow |-> FALSE]
  /\ wrote = 0 /\ read = <<>> /\ eof = FALSE
  /\ net = {} /\ acks = <<>> /\ short = FALSE

(* Mutant: a probe of the last byte keeps the FIN bit. *)
DecideProbeFin(t, force, cwnd) ==
  LET cc == Len(t.sb)
      off == Diff(t.nxt, t.una)
      win == Min2(t.wnd, cwnd)
      probe == force /\ win = 0
      room == Min2(cc, IF probe THEN 1 ELSE win) - off
      len == Min2(Max2(room, 0), MaxSeg)
      u == [t EXCEPT !.persist = @ /\ ~(force /\ win > 0),
                     !.rexmt = @ /\ ~(room < 0 /\ win = 0 /\ ~probe),
                     !.nxt = IF room < 0 /\ win = 0 /\ ~probe THEN t.una ELSE @]
      fin == /\ t.t_state = "FIN_WAIT_1"
             /\ ~SEQ_LT(Add(u.nxt, len), Add(t.una, cc))
  IN  [tp |-> u, off |-> off, len |-> len, fin |-> fin, sendalot |-> room > MaxSeg]

(* Mutant: a closed window is not probed. *)
DecideUnforced(t, force, cwnd) ==
  LET cc == Len(t.sb)
      off == Diff(t.nxt, t.una)
      win == Min2(t.wnd, cwnd)
      probe == force /\ win = 0
      room == Min2(cc, win) - off
      len == Min2(Max2(room, 0), MaxSeg)
      u == [t EXCEPT !.persist = @ /\ ~(force /\ win > 0),
                     !.rexmt = @ /\ ~(room < 0 /\ win = 0 /\ ~probe),
                     !.nxt = IF room < 0 /\ win = 0 /\ ~probe THEN t.una ELSE @]
      fin == /\ t.t_state = "FIN_WAIT_1"
             /\ ~(probe /\ off < cc)
             /\ ~SEQ_LT(Add(u.nxt, len), Add(t.una, cc))
  IN  [tp |-> u, off |-> off, len |-> len, fin |-> fin, sendalot |-> room > MaxSeg]

(* tcp_output decides on the next segment: what is in it, and the control  *)
(* block as it stands when that is decided.                                *)
Decide(t, force, cwnd) ==
  LET cc == Len(t.sb)
      off == Diff(t.nxt, t.una)
      win == Min2(t.wnd, cwnd)
      probe == force /\ win = 0
      room == Min2(cc, IF probe THEN 1 ELSE win) - off
      len == Min2(Max2(room, 0), MaxSeg)
      u == [t EXCEPT !.persist = @ /\ ~(force /\ win > 0),
                     !.rexmt = @ /\ ~(room < 0 /\ win = 0 /\ ~probe),
                     !.nxt = IF room < 0 /\ win = 0 /\ ~probe THEN t.una ELSE @]
      fin == /\ t.t_state = "FIN_WAIT_1"
             /\ ~(probe /\ off < cc)
             /\ ~SEQ_LT(Add(u.nxt, len), Add(t.una, cc))
  IN  [tp |-> u, off |-> off, len |-> len, fin |-> fin, sendalot |-> room > MaxSeg]

(* Whether it is worth sending: silly windows are not, a FIN is sent once  *)
(* and then only again from the left edge.  max_sndwnd is RcvHiwat, the    *)
(* first window B offered.                                                 *)
Worth(s, idle, force) ==
  LET u == s.tp IN
  \/ /\ s.len > 0
     /\ \/ s.len = MaxSeg
        \/ idle /\ s.len + s.off >= Len(u.sb)
        \/ force
        \/ s.len >= RcvHiwat \div 2
        \/ SEQ_LT(u.nxt, u.max)
  \/ s.fin /\ (~u.sentfin \/ u.nxt = u.una)

(* The control block after the segment: the retransmit timer runs, except  *)
(* for a probe of a closed window, which only moves snd_max.               *)
Sent(s, force) ==
  LET u == s.tp
      first == IF s.fin /\ u.sentfin /\ u.nxt = u.max THEN Add(u.nxt, -1) ELSE u.nxt
      after == Add(first, s.len + (IF s.fin THEN 1 ELSE 0))
      max == IF SEQ_GT(after, u.max) THEN after ELSE u.max
      starts == ~u.rexmt /\ after # u.una
  IN  [seg |-> [seq |-> first, data |-> SubSeq(u.sb, s.off + 1, s.off + s.len), fin |-> s.fin],
       tp  |-> IF ~force \/ ~u.persist
               THEN [u EXCEPT !.nxt = after, !.max = max, !.sentfin = @ \/ s.fin,
                              !.rexmt = @ \/ starts, !.persist = @ /\ ~starts]
               ELSE [u EXCEPT !.nxt = first,
                              !.max = IF SEQ_GT(Add(first, s.len), @) THEN Add(first, s.len) ELSE @]]

(* One turn of tcp_output.  With nothing worth sending, data and no timer, *)
(* the persist timer is started.  When there is no mbuf for the segment it *)
(* returns at once, without a timer for it and as if nothing had happened  *)
(* (out:, ENOBUFS).  An error of ip_output comes after the timer: it is    *)
(* a segment lost and none for the next.                                   *)
Again(p, idle, force, cwnd, none) ==
  LET s == Decide(p.tp, force, cwnd)
      x == Sent(s, force)
  IN  IF ~p.again THEN p
      ELSE IF ~Worth(s, idle, force)
      THEN [tp |-> [s.tp EXCEPT !.persist = @ \/ (Len(s.tp.sb) > 0 /\ ~s.tp.rexmt)],
            out |-> p.out, again |-> FALSE, nombuf |-> FALSE]
      ELSE IF Len(p.out) + 1 = none
      THEN [tp |-> s.tp, out |-> p.out, again |-> FALSE, nombuf |-> TRUE]
      ELSE [tp |-> x.tp, out |-> Append(p.out, x.seg), again |-> s.sendalot, nombuf |-> FALSE]

(* tcp_output: the control block, the segments sent, and whether it found  *)
(* no mbuf, which it does for the none-th segment.  It goes round again    *)
(* after a full segment, so never more often than there are bytes.         *)
Output(t, force, cwnd, none) ==
  LET pass[k \in 0 .. Total + 1] ==
        IF k = 0 THEN [tp |-> t, out |-> <<>>, again |-> TRUE, nombuf |-> FALSE]
        ELSE Again(pass[k - 1], t.max = t.una, force, cwnd, none)
  IN  pass[Total + 1]

(* ip_output: the network takes what it has room for. *)
Carry(n, segs) ==
  LET with[k \in 0 .. Len(segs)] ==
        IF k = 0 THEN n
        ELSE LET m == with[k - 1] IN
             IF Cardinality(m) < MaxNet THEN m \cup {segs[k]} ELSE m
  IN  with[Len(segs)]

Becomes(t, nombuf) == tp' = t /\ short' = ((short \/ nombuf) /\ ~t.rexmt)

OutputsBut(none, t, force, cwnd) ==
  \E o \in {Output(t, force, cwnd, none)} : Becomes(o.tp, o.nombuf) /\ net' = Carry(net, o.out)
Outputs(t, force, cwnd) == \E none \in Shortages : OutputsBut(none, t, force, cwnd)

(* PRU_SEND, once sosend has found room for the bytes. *)
Write(n) ==
  /\ tp.t_state = "ESTABLISHED" /\ wrote + n <= Total /\ sb_cc + n <= SndHiwat
  /\ wrote' = wrote + n
  /\ \E c \in Cwnds :
       Outputs([tp EXCEPT !.sb = @ \o [i \in 1 .. n |-> wrote + i]], FALSE, c)
  /\ UNCHANGED <<rp, read, eof, acks>>

(* PRU_SHUTDOWN: tcp_usrclosed, then the FIN when it can go. *)
Shutdown ==
  /\ tp.t_state = "ESTABLISHED" /\ wrote = Total
  /\ \E c \in Cwnds : Outputs([tp EXCEPT !.t_state = "FIN_WAIT_1"], FALSE, c)
  /\ UNCHANGED <<wrote, rp, read, eof, acks>>

(* TCPT_REXMT goes off. *)
RexmtTimeout(none) ==
  /\ tp.rexmt
  /\ UNCHANGED <<wrote, rp, read, eof, acks>>
  /\ OutputsBut(none, [tp EXCEPT !.nxt = tp.una], FALSE, MaxSeg)

(* TCPT_PERSIST goes off: tcp_setpersist, then a forced tcp_output. *)
PersistTimeout(none) ==
  /\ tp.persist
  /\ UNCHANGED <<wrote, rp, read, eof, acks>>
  /\ \E c \in Cwnds : OutputsBut(none, tp, TRUE, c)

-----------------------------------------------------------------------------
(* A hears an acknowledgement [ack, win] with no data. *)

(* Header prediction takes it: the window is what it was. *)
Predicted(a, cwnd) ==
  /\ tp.t_state = "ESTABLISHED" /\ tp.nxt = tp.max
  /\ a.win > 0 /\ a.win = tp.wnd /\ cwnd >= tp.wnd
  /\ SEQ_GT(a.ack, tp.una) /\ SEQ_LEQ(a.ack, tp.max)

(* Mutant: any new acknowledgement stops the retransmit timer. *)
AckedStops(t, a) ==
  [t EXCEPT !.una = a.ack,
            !.sb = SubSeq(@, Min2(Diff(a.ack, t.una), Len(@)) + 1, Len(@)),
            !.rexmt = FALSE]

(* sbdrop, snd_una and the retransmit timer. *)
Acked(t, a) ==
  [t EXCEPT !.una = a.ack,
            !.sb = SubSeq(@, Min2(Diff(a.ack, t.una), Len(@)) + 1, Len(@)),
            !.rexmt = a.ack # t.max /\ (@ \/ ~t.persist)]

AckPredicted(a, cwnd) ==
  LET t == Acked(tp, a) IN
  IF t.sb # <<>> THEN Outputs(t, FALSE, cwnd) ELSE Becomes(t, FALSE) /\ UNCHANGED net

(* The general case, and the FIN acknowledged. *)
AckNew(t, a) ==
  LET n == Diff(a.ack, t.una)
      u == Acked(t, a)
  IN  [u EXCEPT !.wnd = @ - Min2(n, Len(t.sb)),
                !.nxt = IF SEQ_LT(@, a.ack) THEN a.ack ELSE @,
                !.t_state = IF @ = "FIN_WAIT_1" /\ n > Len(t.sb) THEN "FIN_WAIT_2" ELSE @]

(* step6: the window, if the acknowledgement is not older than the one it  *)
(* was last taken from.                                                    *)
IsNewWindow(t, a) == SEQ_LT(t.wl2, a.ack) \/ (t.wl2 = a.ack /\ a.win > t.wnd)
Step6(t, a, needoutput, cwnd) ==
  IF IsNewWindow(t, a) THEN Outputs([t EXCEPT !.wnd = a.win, !.wl2 = a.ack], FALSE, cwnd)
  ELSE IF needoutput THEN Outputs(t, FALSE, cwnd)
  ELSE Becomes(t, FALSE) /\ UNCHANGED net

(* A completely duplicate acknowledgement may be the tcprexmtthresh'th:    *)
(* the segment it asks for is sent again and snd_nxt put back; the ones    *)
(* after it let more out.                                                  *)
IsDuplicate(a) == a.ack = tp.una /\ a.win = tp.wnd /\ tp.rexmt
FastRetransmit(a) ==
  \E none \in Shortages :
    LET o == Output([tp EXCEPT !.rexmt = FALSE, !.nxt = a.ack], FALSE, MaxSeg, none) IN
    /\ Becomes([o.tp EXCEPT !.nxt = IF SEQ_GT(tp.nxt, @) THEN tp.nxt ELSE @], o.nombuf)
    /\ net' = Carry(net, o.out)

AckInput(a, cwnd) ==
  IF Predicted(a, cwnd) THEN AckPredicted(a, cwnd)
  ELSE IF SEQ_LEQ(a.ack, tp.una)
  THEN \/ IsDuplicate(a) /\ FastRetransmit(a)
       \/ IsDuplicate(a) /\ Outputs(tp, FALSE, cwnd)
       \/ Step6(tp, a, FALSE, cwnd)
  ELSE IF SEQ_GT(a.ack, tp.max) THEN Outputs(tp, FALSE, cwnd)
  ELSE Step6(AckNew(tp, a), a, a.ack = tp.max, cwnd)

DeliverAck ==
  \E i \in 1 .. Len(acks), c \in Cwnds :
    /\ AcksInOrder => i = 1
    /\ UNCHANGED <<wrote, rp, read, eof>>
    /\ acks' = SubSeq(acks, 1, i - 1) \o SubSeq(acks, i + 1, Len(acks))
    /\ AckInput(acks[i], c)

-----------------------------------------------------------------------------
(* B receives. *)

sbspace(r) == RcvHiwat - Len(r.sb)
Offered(r) == Diff(r.adv, r.nxt)

(* Mutant: the window offered is not noted in rcv_adv. *)
AcknowledgeUnnoted(r, acknow, mbuf) ==
  LET space == sbspace(r)
      more == space - Offered(r)
      win == Max2(IF space < RcvHiwat \div 4 /\ space < MaxSeg THEN 0 ELSE space, Offered(r))
      edge == Add(r.nxt, win)
      worth == acknow \/ r.acknow \/ (space > 0 /\ (more >= 2 * MaxSeg \/ 2 * more >= RcvHiwat))
  IN  IF worth /\ mbuf
      THEN /\ rp' = [r EXCEPT !.delack = FALSE, !.acknow = FALSE]
           /\ acks' = IF Len(acks) < MaxNet
                      THEN Append(acks, [ack |-> r.nxt, win |-> win]) ELSE acks
      ELSE rp' = [r EXCEPT !.acknow = @ \/ acknow] /\ UNCHANGED acks

(* tcp_output with nothing to send but an acknowledgement or a larger      *)
(* window; the right edge of the window never moves left.  Without an mbuf *)
(* TF_ACKNOW stays set.                                                    *)
Acknowledge(r, acknow, mbuf) ==
  LET space == sbspace(r)
      more == space - Offered(r)
      win == Max2(IF space < RcvHiwat \div 4 /\ space < MaxSeg THEN 0 ELSE space, Offered(r))
      edge == Add(r.nxt, win)
      worth == acknow \/ r.acknow \/ (space > 0 /\ (more >= 2 * MaxSeg \/ 2 * more >= RcvHiwat))
  IN  IF worth /\ mbuf
      THEN /\ rp' = [r EXCEPT !.adv = IF win > 0 /\ SEQ_GT(edge, @) THEN edge ELSE @,
                              !.delack = FALSE, !.acknow = FALSE]
           /\ acks' = IF Len(acks) < MaxNet
                      THEN Append(acks, [ack |-> r.nxt, win |-> win]) ELSE acks
      ELSE rp' = [r EXCEPT !.acknow = @ \/ acknow] /\ UNCHANGED acks

(* tcp_reass presents what has become contiguous. *)
Reass(r, ti) ==
  LET q == Insert(r.q, ti)
      n == IF q = r.q THEN 0 ELSE Presented(q, r.nxt)
  IN  IF n = 0 THEN [rp |-> [r EXCEPT !.q = q], fin |-> FALSE]
      ELSE [rp |-> [r EXCEPT !.q = SubSeq(q, n + 1, Len(q)), !.nxt = End(q[n]),
                             !.sb = IF r.t_state = "CLOSE_WAIT" THEN @
                                    ELSE @ \o Bytes(SubSeq(q, 1, n))],
            fin |-> q[n].fin]

InSequence(r, ti) == ti.seq = r.nxt /\ r.q = <<>> /\ r.t_state = "ESTABLISHED"

(* Mutant: a FIN is taken out of order. *)
TCP_REASSAnyFin(r, ti) ==
  IF InSequence(r, ti)
  THEN [rp |-> [r EXCEPT !.nxt = End(ti), !.sb = @ \o ti.data, !.delack = TRUE],
        fin |-> ti.fin, acknow |-> FALSE]
  ELSE LET x == Reass(r, ti) IN [rp |-> x.rp, fin |-> x.fin \/ ti.fin, acknow |-> TRUE]

(* The macro TCP_REASS: the next segment on an empty queue goes straight   *)
(* to the socket buffer, as it does in header prediction.  The flag it     *)
(* gives back is the segment's own, ti_flags.                              *)
TCP_REASS(r, ti) ==
  IF InSequence(r, ti)
  THEN [rp |-> [r EXCEPT !.nxt = End(ti), !.sb = @ \o ti.data, !.delack = TRUE],
        fin |-> ti.fin, acknow |-> FALSE]
  ELSE LET x == Reass(r, ti) IN [rp |-> x.rp, fin |-> x.fin, acknow |-> TRUE]

(* A FIN in sequence: socantrcvmore and CLOSE_WAIT. *)
FinInput(r) == [r EXCEPT !.nxt = Add(@, 1), !.t_state = "CLOSE_WAIT"]

(* tcp_input for a segment with data or a FIN.  What B has already is      *)
(* dropped from its front and what lies beyond the window from its back.   *)
(* tiflags loses the FIN with either; ti_flags keeps it.  Header           *)
(* prediction takes the next segment whole, and does not look at           *)
(* TF_ACKNOW.                                                              *)
DataInput(ti, mbuf) ==
  LET wnd == Max2(sbspace(rp), Offered(rp))
      had == Max2(Diff(rp.nxt, ti.seq), 0)
      oldfin == ti.fin /\ had = Length(ti) + 1
      dup == had > 0 /\ had >= Length(ti) /\ ~oldfin
      new == TrimFront(ti, Min2(had, Length(ti)))
      beyond == Max2(Diff(End(new), Add(rp.nxt, wnd)), 0)
      outside == beyond > 0 /\ beyond >= Length(new) /\ ~(wnd = 0 /\ new.seq = rp.nxt)
      kept == TrimBack(new, beyond)
      tifin == ti.fin /\ ~oldfin /\ beyond = 0
      probed == beyond > 0 /\ beyond >= Length(new)
      predicted == had = 0 /\ beyond = 0
  IN  IF dup \/ outside THEN Acknowledge(rp, TRUE, mbuf)
      ELSE IF Length(kept) = 0 /\ ~tifin THEN Acknowledge(rp, oldfin \/ probed, mbuf)
      ELSE LET x == TCP_REASS(rp, kept)
           IN  IF x.fin THEN Acknowledge(FinInput(x.rp), TRUE, mbuf)
               ELSE IF x.acknow \/ (rp.acknow /\ ~predicted) THEN Acknowledge(x.rp, TRUE, mbuf)
               ELSE rp' = x.rp /\ UNCHANGED acks

(* The network delivers a segment, and may keep a copy of it.  Every copy  *)
(* of a FIN without data that is out of order is queued: MaxQueue bounds   *)
(* how many are.                                                           *)
Fits(ti) == Len(rp.q) < MaxQueue \/ SEQ_LEQ(ti.seq, rp.nxt)
DeliverData(ti, mbuf) ==
  /\ ti \in net /\ net' = net \ {ti} /\ Fits(ti)
  /\ UNCHANGED <<tp, wrote, read, eof, short>>
  /\ DataInput(ti, mbuf)
DeliverCopy(ti, mbuf) ==
  /\ ti \in net /\ UNCHANGED net /\ Fits(ti)
  /\ UNCHANGED <<tp, wrote, read, eof, short>>
  /\ DataInput(ti, mbuf)

(* tcp_fasttimo. *)
FastTimo(mbuf) ==
  /\ rp.delack
  /\ UNCHANGED <<tp, wrote, read, eof, net, short>>
  /\ Acknowledge([rp EXCEPT !.delack = FALSE], TRUE, mbuf)

(* soreceive, then PRU_RCVD: n bytes. *)
Read(n, mbuf) ==
  /\ n <= Len(rp.sb)
  /\ read' = read \o SubSeq(rp.sb, 1, n)
  /\ UNCHANGED <<tp, wrote, eof, net, short>>
  /\ Acknowledge([rp EXCEPT !.sb = SubSeq(@, n + 1, Len(@))], FALSE, mbuf)

(* soreceive finds the buffer empty and SS_CANTRCVMORE set. *)
ReadEof ==
  /\ rp.sb = <<>> /\ rp.t_state = "CLOSE_WAIT" /\ ~eof
  /\ eof' = TRUE
  /\ UNCHANGED <<tp, wrote, rp, read, net, acks, short>>

-----------------------------------------------------------------------------
(* The network loses a segment or an acknowledgement. *)
LoseData(ti) == ti \in net /\ net' = net \ {ti} /\ UNCHANGED <<tp, wrote, rp, read, eof, acks, short>>
LoseAck == acks # <<>> /\ acks' = Tail(acks) /\ UNCHANGED <<tp, wrote, rp, read, eof, net, short>>

Next ==
  \/ \E n \in Writes : Write(n)
  \/ Shutdown
  \/ \E none \in Shortages : RexmtTimeout(none) \/ PersistTimeout(none)
  \/ DeliverAck
  \/ \E ti \in net : LoseData(ti) \/ \E mbuf \in AckMbufs : DeliverData(ti, mbuf) \/ DeliverCopy(ti, mbuf)
  \/ LoseAck
  \/ \E mbuf \in AckMbufs : FastTimo(mbuf) \/ \E n \in 1 .. RcvHiwat : Read(n, mbuf)
  \/ ReadEof

Spec == Init /\ [][Next]_vars

(* Clocks run, the reader reads, no segment stays on the network for ever, *)
(* and the network, however much it loses, does not lose every             *)
(* acknowledgement, or every segment that B can use or has to acknowledge  *)
(* again, and is not full whenever a timer goes off; nor are mbufs always  *)
(* short then, or when B is to acknowledge.  The disabling conditions are  *)
(* written out: ENABLED of an action that calls tcp_output is beyond TLC.  *)
DeliverDue == \E ti \in net : SEQ_LEQ(ti.seq, rp.nxt) /\ DeliverData(ti, TRUE)
Room == Cardinality(net) < MaxNet
Changes(o) == o.tp # tp \/ Carry(net, o.out) # net
TimerDue ==
  \/ tp.rexmt /\ Changes(Output([tp EXCEPT !.nxt = tp.una], FALSE, MaxSeg, 0))
  \/ tp.persist /\ \E c \in Cwnds : Changes(Output(tp, TRUE, c, 0))
Fairness ==
  /\ <>[]~(Room /\ TimerDue) \/ []<><<Room /\ (RexmtTimeout(0) \/ PersistTimeout(0))>>_vars
  /\ []<>~rp.delack \/ []<><<\E mbuf \in AckMbufs : FastTimo(mbuf)>>_vars
  /\ <>[](acks = <<>>) \/ []<><<DeliverAck>>_vars
  /\ <>[](\A ti \in net : SEQ_GT(ti.seq, rp.nxt)) \/ []<><<DeliverDue>>_vars
  /\ []<>(net = {}) \/ []<><<\E ti \in net : LoseData(ti) \/
                                \E mbuf \in AckMbufs : DeliverData(ti, mbuf)>>_vars
  /\ \/ []<>(rp.sb = <<>> /\ (eof \/ rp.t_state = "ESTABLISHED"))
     \/ []<><<ReadEof \/ \E n \in 1 .. RcvHiwat, mbuf \in AckMbufs : Read(n, mbuf)>>_vars
FairSpec == Spec /\ Fairness

-----------------------------------------------------------------------------
(* The types of the control blocks, of so_snd and so_rcv within their      *)
(* limits, and of what is on the wire.                                     *)
TypeOK ==
  /\ tp \in [t_state : {"ESTABLISHED", "FIN_WAIT_1", "FIN_WAIT_2"},
             una : 0 .. SeqMod - 1, nxt : 0 .. SeqMod - 1, max : 0 .. SeqMod - 1,
             wnd : 0 .. RcvHiwat, wl2 : 0 .. SeqMod - 1, sb : Seq(1 .. Total),
             rexmt : BOOLEAN, persist : BOOLEAN, sentfin : BOOLEAN]
  /\ rp \in [t_state : {"ESTABLISHED", "CLOSE_WAIT"}, nxt : 0 .. SeqMod - 1,
             adv : 0 .. SeqMod - 1, q : Seq(Segments), sb : Seq(1 .. Total),
             delack : BOOLEAN, acknow : BOOLEAN]
  /\ sb_cc <= SndHiwat /\ Len(rp.sb) <= RcvHiwat
  /\ wrote \in 0 .. Total /\ read \in Seq(1 .. Total) /\ eof \in BOOLEAN
  /\ net \subseteq Segments /\ acks \in Seq(Acks) /\ short \in BOOLEAN

(* "Drop trailing data (and PUSH and FIN)": B takes the FIN only after the *)
(* last byte of the stream, whatever it cuts off the end of a segment.     *)
FinComesLast == rp.t_state = "CLOSE_WAIT" => Len(read \o rp.sb) = Total

(* What reaches B's socket buffer is the stream A's process wrote, in      *)
(* order, nothing twice and nothing missing; and the reader is told of the *)
(* end of the stream only after the last byte of it.                       *)
StreamIsIntact ==
  LET got == read \o rp.sb IN (\A i \in 1 .. Len(got) : got[i] = i) /\ FinComesLast

(* "The output side is idle when both timers are zero": there is no data,  *)
(* and no FIN, that B has not acknowledged.                                *)
IdleWithoutTimers == tp.sb # <<>> \/ tp.t_state = "FIN_WAIT_1" => tp.rexmt \/ tp.persist

(* tcp_output leaves data, or a FIN, that B has not acknowledged without a *)
(* timer that will send it again only by a shortage of mbufs, and then no  *)
(* longer than until TCPT_REXMT runs again; and its two timers never run   *)
(* together, so tcp_setpersist does not panic.                             *)
NothingIsForgotten == (IdleWithoutTimers \/ short) /\ ~(tp.rexmt /\ tp.persist)

(* Where A's sending ends: snd_max, and a FIN sent as a probe, which is    *)
(* not recorded.  A probe is a FIN only when a shortage kept A from        *)
(* sending it as soon as all data was acknowledged.                        *)
SentEnd ==
  IF short /\ tp.t_state = "FIN_WAIT_1" /\ tp.sb = <<>> /\ ~tp.sentfin THEN Add(tp.max, 1) ELSE tp.max

(* The reassembly queue is sorted, does not overlap and lies ahead of      *)
(* rcv_nxt, and every byte of it is the one of its sequence number.        *)
QueueIsAhead ==
  \A i \in 1 .. Len(rp.q) :
    /\ SEQ_LT(rp.nxt, rp.q[i].seq) /\ SEQ_LEQ(End(rp.q[i]), SentEnd)
    /\ i < Len(rp.q) => SEQ_LEQ(End(rp.q[i]), rp.q[i + 1].seq)
    /\ \A j \in 1 .. Length(rp.q[i]) : rp.q[i].data[j] = Diff(rp.q[i].seq, Iss) + j

(* What A has dropped from its buffer B has, and B has only what A sent:   *)
(* snd_una <= rcv_nxt <= snd_max, across the wrap of the sequence numbers. *)
(* No acknowledgement is of bytes not sent, and what B keeps for later is  *)
(* in order.                                                               *)
EndsAgree ==
  /\ TypeOK /\ QueueIsAhead
  /\ SEQ_LEQ(tp.una, rp.nxt) /\ SEQ_LEQ(rp.nxt, SentEnd)
  /\ SEQ_LEQ(tp.una, tp.nxt) /\ SEQ_LEQ(tp.nxt, tp.max)
  /\ \A i \in 1 .. Len(acks) : SEQ_LEQ(acks[i].ack, rp.nxt)

(* A's idea of B's window never reaches past what B has offered, or, once  *)
(* a probe or the FIN was taken beyond that, past what B has.              *)
WindowIsKept ==
  SEQ_LEQ(Add(tp.una, tp.wnd), IF SEQ_LT(rp.adv, rp.nxt) THEN rp.nxt ELSE rp.adv)

(* After shutdown, the reader gets to the end of the stream and A hears    *)
(* that it did, whatever the network loses, unless A is short of mbufs.    *)
EverythingArrives ==
  tp.t_state = "FIN_WAIT_1" ~> (eof /\ tp.t_state = "FIN_WAIT_2") \/ short
=============================================================================

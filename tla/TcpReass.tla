----------------------------- MODULE TcpReass ------------------------------
(***************************************************************************)
(* Sequence numbers (netinet/tcp_seq.h) and the reassembly queue of        *)
(* tcp_reass (netinet/tcp_input.c), as operators.  A segment is a record   *)
(* with its sequence number seq, its bytes data and its flag fin.          *)
(***************************************************************************)
EXTENDS Integers, Sequences

CONSTANT SeqMod     \* sequence numbers are taken modulo SeqMod (2^32)

Add(a, n) == (a + n) % SeqMod

(* (int)((a) - (b)) *)
Diff(a, b) == LET d == (a - b) % SeqMod IN IF d < SeqMod \div 2 THEN d ELSE d - SeqMod

SEQ_LT(a, b) == Diff(a, b) < 0
SEQ_LEQ(a, b) == Diff(a, b) <= 0
SEQ_GT(a, b) == Diff(a, b) > 0

Length(ti) == Len(ti.data)
End(ti) == Add(ti.seq, Length(ti))

(* m_adj from the front and from the back. *)
TrimFront(ti, n) ==
  [ti EXCEPT !.seq = Add(@, n), !.data = SubSeq(@, n + 1, Len(@))]
TrimBack(ti, n) == [ti EXCEPT !.data = SubSeq(@, 1, Len(@) - n)]

(* Where the walk of a list stops that looks for one of the places. *)
First(places) == CHOOSE n \in places : \A m \in places : n <= m

(* The succeeding segments once ti is in: the ones it covers are dequeued, *)
(* the first it only overlaps is trimmed.                                  *)
Uncovered(ti, q) ==
  LET i(n) == Diff(End(ti), q[n].seq)
      k == First({n \in 1 .. Len(q) + 1 : n > Len(q) \/ i(n) <= 0 \/ i(n) < Length(q[n])})
  IN  IF k <= Len(q) /\ i(k) > 0
      THEN <<TrimFront(q[k], i(k))>> \o SubSeq(q, k + 1, Len(q))
      ELSE SubSeq(q, k, Len(q))

(* The queue with ti in its place, less what it had of it already. *)
Insert(q, ti) ==
  LET p == First({n \in 0 .. Len(q) : n = Len(q) \/ SEQ_GT(q[n + 1].seq, ti.seq)})
      i == IF p = 0 THEN 0 ELSE Diff(End(q[p]), ti.seq)
      new == IF i > 0 THEN TrimFront(ti, i) ELSE ti
  IN  IF i > 0 /\ i >= Length(ti) THEN q
      ELSE SubSeq(q, 1, p) \o <<new>> \o Uncovered(new, SubSeq(q, p + 1, Len(q)))

(* How many segments of the queue follow rcv_nxt without a gap. *)
Presented(q, rcv_nxt) ==
  First({n \in 0 .. Len(q) :
           n = Len(q) \/ q[n + 1].seq # (IF n = 0 THEN rcv_nxt ELSE End(q[n]))})

(* Their bytes. *)
Bytes(q) ==
  LET upto[k \in 0 .. Len(q)] == IF k = 0 THEN <<>> ELSE upto[k - 1] \o q[k].data
  IN  upto[Len(q)]
=============================================================================

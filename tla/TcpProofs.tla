----------------------------- MODULE TcpProofs -----------------------------
(***************************************************************************)
(* The two ends of Tcp together: what B makes of a segment and of a read,  *)
(* then the invariant IInv, which every step of Tcp is shown to keep as    *)
(* long as acknowledgements arrive in order and A finds its mbufs, and the *)
(* properties of Tcp, which follow from it.                                *)
(***************************************************************************)
EXTENDS TcpLemmas

\* Steps are proved by Zenon unless they name another prover.
USE Zenon

-----------------------------------------------------------------------------
(* B: a segment that arrives, and a read. *)

(* The numbers of a segment that arrives: it starts at S and has L bytes.   *)
(* A FIN is within the window.                                             *)
Arrives(st, X, A, D, C, F, S, L, fin) ==
  /\ X \in Nat /\ A \in Nat /\ D \in Nat /\ C \in Nat /\ S \in Nat /\ L \in Nat
  /\ fin \in BOOLEAN /\ F = (IF st = "CLOSE_WAIT" THEN 1 ELSE 0)
  /\ Marks(st, X, A, D, C, F) /\ S + L <= Total
  /\ fin => S + L = Total /\ S + L <= Max2(A, X)

(* rcv_wnd, what of it B has already, what is dropped from its front, and  *)
(* what is beyond the window.                                              *)
Wnd(X, A, C) == Max2(RcvHiwat - C, A - X)
Had(X, S) == Max2(X - S, 0)
Beyond(X, wnd, E) == Max2(E - (X + wnd), 0)

(* A segment is dropped, or empty once it is trimmed, or new and within    *)
(* the window, and then no FIN was taken yet.                              *)
LEMMA TrimNumbers ==
  ASSUME NEW st, NEW X, NEW A, NEW D, NEW C, NEW F, NEW S, NEW L, NEW fin,
         Arrives(st, X, A, D, C, F, S, L, fin),
         NEW wnd, wnd = Wnd(X, A, C), NEW had, had = Had(X, S), NEW cut, cut = Min2(had, L),
         NEW beyond, beyond = Beyond(X, wnd, S + L)
  PROVE  /\ wnd \in Nat /\ X + wnd \in 0 .. Horizon /\ had \in Nat
         /\ cut \in Nat /\ cut <= L /\ beyond \in Nat /\ (fin => beyond = 0)
         /\ \/ had > 0 /\ had >= L /\ ~(fin /\ had = L + 1)
            \/ beyond > 0 /\ beyond >= L - cut /\ ~(wnd = 0 /\ S + cut = X)
            \/ /\ beyond <= L - cut
               /\ \/ (L - cut) - beyond = 0 /\ ~(fin /\ ~(fin /\ had = L + 1) /\ beyond = 0)
                  \/ st # "CLOSE_WAIT" /\ X <= S + cut /\ (S + L) - beyond <= D + RcvHiwat
<1>1. /\ X = D + C + F /\ D + C <= Total /\ C <= RcvHiwat /\ A <= D + RcvHiwat + F
      /\ (st = "CLOSE_WAIT" => D + C = Total)
      /\ X \in Nat /\ A \in Nat /\ D \in Nat /\ C \in Nat /\ S \in Nat /\ L \in Nat
      /\ fin \in BOOLEAN /\ F = (IF st = "CLOSE_WAIT" THEN 1 ELSE 0)
      /\ S + L <= Total /\ (fin => S + L = Total /\ S + L <= Max2(A, X))
  BY DEF Arrives, Marks
<1>2. /\ RcvHiwat \in Nat /\ Total \in Nat /\ Horizon = Total + 1 + RcvHiwat /\ Horizon \in Nat
  BY Sizes
<1> HIDE DEF Horizon
<1>3. wnd = RcvHiwat - C /\ wnd \in Nat /\ X + wnd = D + RcvHiwat + F /\ X + wnd \in 0 .. Horizon
  BY <1>1, <1>2, SMT DEF Wnd, Max2
<1>4. /\ had \in Nat /\ (had = 0 \/ had = X - S) /\ X - S <= had
  BY <1>1, SMT DEF Had, Max2
<1>5. cut \in Nat /\ cut <= L /\ (cut = had \/ cut = L) /\ cut <= had
  BY <1>1, <1>4, SMT DEF Min2
<1>6. /\ beyond \in Nat /\ (beyond = 0 \/ beyond = (S + L) - (X + wnd))
      /\ (S + L) - (X + wnd) <= beyond
  BY <1>1, <1>3, SMT DEF Beyond, Max2
<1>7. fin => beyond = 0
  BY <1>1, <1>2, <1>3, <1>6, SMT DEF Max2
<1>8. ASSUME ~(had > 0 /\ had >= L /\ ~(fin /\ had = L + 1)),
             ~(beyond > 0 /\ beyond >= L - cut /\ ~(wnd = 0 /\ S + cut = X))
      PROVE  /\ beyond <= L - cut
             /\ \/ (L - cut) - beyond = 0 /\ ~(fin /\ ~(fin /\ had = L + 1) /\ beyond = 0)
                \/ st # "CLOSE_WAIT" /\ X <= S + cut /\ (S + L) - beyond <= D + RcvHiwat
  <2>1. beyond <= L - cut
    BY <1>1, <1>3, <1>4, <1>5, <1>6, <1>8, SMT
  <2>2. CASE fin /\ had = L + 1
    <3>1. cut = L /\ beyond = 0
      BY <1>1, <1>4, <1>5, <1>7, <2>2, SMT
    <3> QED BY <1>1, <2>1, <2>2, <3>1, SMT
  <2>3. CASE ~(fin /\ had = L + 1)
    <3>1. had = 0 \/ had < L
      BY <1>1, <1>4, <1>8, <2>3, SMT
    <3>2. cut = had
      BY <1>1, <1>4, <1>5, <3>1, SMT
    <3>3. X <= S + cut
      BY <1>1, <1>4, <3>2, SMT
    <3>4. st # "CLOSE_WAIT"
      BY <1>1, <1>2, <1>5, <3>1, <3>2, <3>3, SMT
    <3>5. (S + L) - beyond <= D + RcvHiwat
      BY <1>1, <1>2, <1>3, <1>6, <3>4, SMT
    <3> QED BY <2>1, <3>3, <3>4, <3>5
  <2> QED BY <2>2, <2>3
<1> QED BY <1>3, <1>4, <1>5, <1>6, <1>7, <1>8

(* Acknowledgements heard, when B's block goes on with the same rcv_adv. *)
LEMMA HeardGoes ==
  ASSUME NEW r, NEW d, NEW k, NEW m, NEW u, NEW e, Heard(r, d, k, m, u, e),
         NEW s, Receiver(s, d, m), s.adv = r.adv, Pos(r.nxt) <= Pos(s.nxt)
  PROVE  Heard(s, d, k, m, u, e) /\ Right(r) <= Right(s)
<1>1. /\ Receiver(r, d, m) /\ u \in Nat /\ e \in Nat /\ Chain(k, u, e, Pos(r.nxt), Right(r))
  BY DEF Heard
<1>2. r \in RPs /\ s \in RPs
  BY <1>1, ReceiverFacts
<1>3. /\ Pos(r.nxt) \in Nat /\ Pos(s.nxt) \in Nat /\ Right(r) \in Nat /\ Right(s) \in Nat
      /\ Pos(r.adv) \in Nat
      /\ Pos(s.nxt) <= Right(s) /\ Pos(r.adv) <= Right(s)
      /\ Right(r) = Pos(r.nxt) \/ Right(r) = Pos(r.adv)
  BY <1>2, RPFacts
<1>4. Right(r) <= Right(s)
  <2> HIDE DEF Right, Pos
  <2> QED BY <1>3, SMT
<1>5. Chain(k, u, e, Pos(s.nxt), Right(s))
  <2> HIDE DEF Right, Pos
  <2> QED BY <1>1, <1>3, <1>4, ChainWider
<1> QED BY <1>1, <1>4, <1>5 DEF Heard

(* A step of B's: what it makes of B's block and of the acknowledgements. *)
Answers(m, u, e) == Heard(rp', read, acks', m, u, e) /\ Right(rp) <= Right(rp')

(* An acknowledgement on top of what B's block has become. *)
LEMMA AnswersGo ==
  ASSUME NEW m, NEW u, NEW e, Heard(rp, read, acks, m, u, e),
         NEW s, Heard(s, read, acks, m, u, e), Right(rp) <= Right(s),
         NEW acknow \in BOOLEAN, NEW mbuf \in BOOLEAN, Acknowledge(s, acknow, mbuf)
  PROVE  Answers(m, u, e)
<1>1. Heard(rp', read, acks', m, u, e) /\ Right(s) <= Right(rp')
  BY AcknowledgeStep
<1>2. rp \in RPs /\ s \in RPs /\ rp' \in RPs
  BY <1>1, ReceiverFacts DEF Heard
<1>3. Right(rp) \in Nat /\ Right(s) \in Nat /\ Right(rp') \in Nat
  BY <1>2, RPFacts
<1>4. Right(rp) <= Right(rp')
  <2> DEFINE x == Right(rp)
             y == Right(s)
             z == Right(rp')
  <2>1. x \in Nat /\ y \in Nat /\ z \in Nat /\ x <= y /\ y <= z
    BY <1>1, <1>3
  <2> HIDE DEF x, y, z
  <2>2. x <= z
    BY <2>1, SMT
  <2> QED BY <2>2 DEF x, z
<1> QED BY <1>1, <1>4 DEF Answers

(* What TCP_REASS took is acknowledged, with the FIN if it is its turn. *)
LEMMA TakenAnswers ==
  ASSUME NEW m, NEW u, NEW e, Heard(rp, read, acks, m, u, e),
         NEW x, Taken(rp, read, m, x.rp, x.fin),
         NEW mbuf \in BOOLEAN, NEW now \in BOOLEAN,
         IF x.fin THEN Acknowledge(FinInput(x.rp), TRUE, mbuf)
         ELSE IF now THEN Acknowledge(x.rp, TRUE, mbuf)
         ELSE rp' = x.rp /\ UNCHANGED acks
  PROVE  Answers(m, u, e)
<1>1. /\ Receiver(x.rp, read, m) /\ x.rp.t_state = "ESTABLISHED" /\ x.rp.adv = rp.adv
      /\ Pos(rp.nxt) <= Pos(x.rp.nxt)
      /\ x.fin => Pos(x.rp.nxt) = Total /\ Total + 1 <= m
  BY DEF Taken
<1>2. Heard(x.rp, read, acks, m, u, e) /\ Right(rp) <= Right(x.rp)
  BY <1>1, HeardGoes
<1>3. CASE x.fin
  <2>1. /\ Receiver(FinInput(x.rp), read, m) /\ FinInput(x.rp).adv = rp.adv
        /\ Pos(x.rp.nxt) <= Pos(FinInput(x.rp).nxt)
    BY <1>1, <1>3, FinKeeps
  <2>2. Pos(rp.nxt) \in Nat /\ Pos(x.rp.nxt) \in Nat /\ Pos(FinInput(x.rp).nxt) \in Nat
    <3>1. rp \in RPs /\ x.rp \in RPs /\ FinInput(x.rp) \in RPs
      BY <1>1, <2>1, ReceiverFacts DEF Heard
    <3> QED BY <3>1, RPFacts
  <2>3. Pos(rp.nxt) <= Pos(FinInput(x.rp).nxt)
    <3> DEFINE f == FinInput(x.rp)
    <3>1. Pos(x.rp.nxt) <= Pos(f.nxt) /\ Pos(f.nxt) \in Nat
      BY <2>1, <2>2
    <3> HIDE DEF f, Pos
    <3>2. Pos(rp.nxt) <= Pos(f.nxt)
      BY <1>1, <2>2, <3>1, SMT
    <3> QED BY <3>2 DEF f
  <2>4. Heard(FinInput(x.rp), read, acks, m, u, e) /\ Right(rp) <= Right(FinInput(x.rp))
    BY <2>1, <2>3, HeardGoes
  <2>5. Acknowledge(FinInput(x.rp), TRUE, mbuf)
    BY <1>3
  <2> QED BY <2>4, <2>5, AnswersGo
<1>4. CASE ~x.fin /\ now
  BY <1>2, <1>4, AnswersGo
<1>5. CASE ~x.fin /\ ~now
  BY <1>2, <1>5 DEF Answers
<1> QED BY <1>3, <1>4, <1>5

(* tcp_input for a segment with data or a FIN. *)
LEMMA DataInputAnswers ==
  ASSUME WellOrdered, NEW m, NEW u, NEW e, Heard(rp, read, acks, m, u, e),
         NEW ti \in Pieces, Reach(ti) <= m, ti.fin => Stop(ti) <= Right(rp),
         NEW mbuf \in BOOLEAN, DataInput(ti, mbuf)
  PROVE  Answers(m, u, e)
<1> DEFINE wnd == Max2(sbspace(rp), Offered(rp))
           had == Max2(Diff(rp.nxt, ti.seq), 0)
           cut == Min2(had, Length(ti))
           oldfin == ti.fin /\ had = Length(ti) + 1
           dup == had > 0 /\ had >= Length(ti) /\ ~oldfin
           new == TrimFront(ti, cut)
           beyond == Max2(Diff(End(new), Add(rp.nxt, wnd)), 0)
           outside == beyond > 0 /\ beyond >= Length(new) /\ ~(wnd = 0 /\ new.seq = rp.nxt)
           kept == TrimBack(new, beyond)
           tifin == ti.fin /\ ~oldfin /\ beyond = 0
           probed == beyond > 0 /\ beyond >= Length(new)
           x == TCP_REASS(rp, kept)
           now == x.acknow \/ (rp.acknow /\ ~(had = 0 /\ beyond = 0))
           X == Pos(rp.nxt)
           A == Pos(rp.adv)
           D == Len(read)
           C == Len(rp.sb)
           S == Pos(ti.seq)
           L == Len(ti.data)
<1>1. Receiver(rp, read, m)
  BY DEF Heard
<1>2. /\ rp \in RPs /\ D \in Nat /\ m \in Nat
      /\ Marks(rp.t_state, X, A, D, C, GotFin(rp))
  BY <1>1, ReceiverFacts
<1>3. /\ rp.nxt \in Numbers /\ rp.adv \in Numbers /\ X \in Nat /\ A \in Nat /\ C \in Nat
      /\ rp.t_state \in {"ESTABLISHED", "CLOSE_WAIT"}
  BY <1>2, RPFacts
<1>4. /\ ti.seq \in Numbers /\ S \in Nat /\ L \in Nat /\ ti.fin \in BOOLEAN /\ S + L <= Total
      /\ Stop(ti) = S + L /\ Length(ti) = L /\ (ti.fin => Stop(ti) = Total)
  BY PieceFacts
<1>5. Arrives(rp.t_state, X, A, D, C, GotFin(rp), S, L, ti.fin)
  BY <1>2, <1>3, <1>4 DEF Arrives, Right, GotFin
<1>6. wnd = Wnd(X, A, C) /\ had = Had(X, S) /\ cut = Min2(had, L)
  BY <1>3, <1>4, DiffPos DEF Wnd, Had, sbspace, Offered
<1> DEFINE far == Beyond(X, wnd, S + L)
<1> HIDE DEF wnd, had, cut, far
<1>7. /\ wnd \in Nat /\ X + wnd \in 0 .. Horizon /\ had \in Nat
      /\ cut \in Nat /\ cut <= L /\ far \in Nat /\ (ti.fin => far = 0)
      /\ \/ had > 0 /\ had >= L /\ ~(ti.fin /\ had = L + 1)
         \/ far > 0 /\ far >= L - cut /\ ~(wnd = 0 /\ S + cut = X)
         \/ /\ far <= L - cut
            /\ \/ (L - cut) - far = 0 /\ ~(ti.fin /\ ~(ti.fin /\ had = L + 1) /\ far = 0)
               \/ rp.t_state # "CLOSE_WAIT" /\ X <= S + cut /\ (S + L) - far <= D + RcvHiwat
  <2> HIDE DEF X, A, D, C, S, L
  <2>1. far = Beyond(X, wnd, S + L)
    BY DEF far
  <2> QED BY <1>5, <1>6, <2>1, TrimNumbers, SMT
<1>8. /\ new \in Pieces /\ Pos(new.seq) = S + cut /\ Len(new.data) = L - cut
      /\ Stop(new) = Stop(ti) /\ new.fin = ti.fin
  BY <1>7, FrontPiece
<1>9. /\ new.seq \in Numbers /\ Length(new) = L - cut /\ End(new) \in Numbers
      /\ Pos(End(new)) = S + L
  BY <1>4, <1>8, PieceFacts
<1> HIDE DEF new
<1>10. Add(rp.nxt, wnd) \in Numbers /\ Pos(Add(rp.nxt, wnd)) = X + wnd
  <2>1. wnd \in Int
    BY <1>7, SMT
  <2> QED BY <1>3, <1>7, <2>1, AddPos
<1>11. beyond = far
  BY <1>9, <1>10, DiffPos DEF far, Beyond
<1>12. new.seq = rp.nxt <=> S + cut = X
  BY <1>3, <1>8, <1>9, SamePlace
<1> HIDE DEF beyond
<1>13. CASE dup \/ outside
  <2>1. Acknowledge(rp, TRUE, mbuf)
    BY <1>13 DEF DataInput, wnd, had, cut, new, beyond
  <2>2. Right(rp) <= Right(rp)
    <3>1. Right(rp) \in Nat
      BY <1>2, RPFacts
    <3> HIDE DEF Right
    <3> QED BY <3>1, SMT
  <2> QED BY <2>1, <2>2, AnswersGo
<1>14. CASE ~(dup \/ outside) /\ (Length(kept) = 0 /\ ~tifin)
  <2>1. Acknowledge(rp, oldfin \/ probed, mbuf) /\ (oldfin \/ probed) \in BOOLEAN
    BY <1>14 DEF DataInput, wnd, had, cut, new, beyond
  <2>2. Right(rp) <= Right(rp)
    <3>1. Right(rp) \in Nat
      BY <1>2, RPFacts
    <3> HIDE DEF Right
    <3> QED BY <3>1, SMT
  <2> QED BY <2>1, <2>2, AnswersGo
<1>15. CASE ~(dup \/ outside) /\ ~(Length(kept) = 0 /\ ~tifin)
  <2>1. /\ far <= L - cut
        /\ \/ (L - cut) - far = 0 /\ ~(ti.fin /\ ~(ti.fin /\ had = L + 1) /\ far = 0)
           \/ rp.t_state # "CLOSE_WAIT" /\ X <= S + cut /\ (S + L) - far <= D + RcvHiwat
    BY <1>4, <1>7, <1>9, <1>11, <1>12, <1>15
  <2>2. beyond \in Nat /\ beyond <= Len(new.data) /\ (new.fin => beyond = 0)
    BY <1>7, <1>8, <1>11, <2>1
  <2>3. /\ kept \in Pieces /\ kept.seq = new.seq /\ Len(kept.data) = Len(new.data) - beyond
        /\ Stop(kept) = Stop(new) - beyond /\ kept.fin = new.fin
    BY <1>8, <2>2, BackPiece
  <2>4. Length(kept) = (L - cut) - far
    BY <1>8, <1>11, <2>3, PieceFacts
  <2>5. rp.t_state # "CLOSE_WAIT" /\ X <= S + cut /\ (S + L) - far <= D + RcvHiwat
    BY <1>4, <1>11, <1>15, <2>1, <2>4
  <2>6. Reach(kept) <= m
    <3>1. Stop(kept) = Stop(ti) - far /\ kept.fin = ti.fin
      BY <1>8, <1>11, <2>3
    <3>2. Stop(ti) \in Nat /\ Stop(kept) \in Nat
      BY <2>3, PieceFacts
    <3> DEFINE E == Stop(ti)
               K == Stop(kept)
    <3>3. IF ti.fin THEN E + 1 <= m /\ far = 0 ELSE E <= m
      BY <1>7 DEF Reach
    <3>4. E \in Nat /\ K \in Nat /\ K = E - far
      BY <3>1, <3>2
    <3> HIDE DEF E, K
    <3>5. IF ti.fin THEN K + 1 <= m ELSE K <= m
      BY <1>2, <1>7, <3>3, <3>4, SMT
    <3> QED BY <3>1, <3>5 DEF Reach, K
  <2>7. Fitting(rp, read, m, kept)
    BY <1>3, <1>4, <1>8, <1>11, <2>3, <2>5, <2>6 DEF Fitting
  <2> HIDE DEF kept
  <2>8. Taken(rp, read, m, x.rp, x.fin)
    BY <1>1, <2>7, TakesFitting
  <2>9. IF x.fin THEN Acknowledge(FinInput(x.rp), TRUE, mbuf)
        ELSE IF now THEN Acknowledge(x.rp, TRUE, mbuf)
        ELSE rp' = x.rp /\ UNCHANGED acks
    BY <1>15 DEF DataInput, wnd, had, cut, new, beyond, kept
  <2>10. now \in BOOLEAN
    OBVIOUS
  <2> HIDE DEF x, now
  <2> QED BY <2>8, <2>9, <2>10, TakenAnswers
<1> QED BY <1>13, <1>14, <1>15

(* Reading, and the window update that follows. *)
LEMMA ReadAnswers ==
  \A m, u, e : \A n \in Nat, mbuf \in BOOLEAN :
    Heard(rp, read, acks, m, u, e) /\ Read(n, mbuf) =>
      Heard(rp', read', acks', m, u, e) /\ Right(rp) <= Right(rp')
(* soreceive: the first n bytes of so_rcv go to the reader. *)
<1>1. ASSUME NEW r, NEW d, NEW m, Receiver(r, d, m), NEW n \in Nat, n <= Len(r.sb)
      PROVE  /\ Receiver([r EXCEPT !.sb = SubSeq(@, n + 1, Len(@))], d \o SubSeq(r.sb, 1, n), m)
             /\ [r EXCEPT !.sb = SubSeq(@, n + 1, Len(@))].nxt = r.nxt
             /\ [r EXCEPT !.sb = SubSeq(@, n + 1, Len(@))].adv = r.adv
  <2> USE <1>1
  <2> DEFINE c == SubSeq(r.sb, n + 1, Len(r.sb))
             b == SubSeq(r.sb, 1, n)
             s == [r EXCEPT !.sb = SubSeq(@, n + 1, Len(@))]
             d2 == d \o b
  <2>1. /\ r \in RPs /\ d \in Seq(1 .. Total) /\ Len(d) \in Nat /\ m \in 0 .. Total + 1 /\ m \in Nat
        /\ InOrder(r, d) /\ Pos(r.nxt) <= m
        /\ Marks(r.t_state, Pos(r.nxt), Pos(r.adv), Len(d), Len(r.sb), GotFin(r))
        /\ Ordered(r.q, Pos(r.nxt) + 1, Len(d) + RcvHiwat, m)
    BY ReceiverFacts
  <2>2. /\ r.sb \in Seq(1 .. Total) /\ Len(r.sb) \in Nat /\ Pos(r.nxt) \in Nat /\ Pos(r.adv) \in Nat
        /\ GotFin(r) \in {0, 1}
    BY <2>1, RPFacts
  <2>3. /\ \A i \in 1 .. Len(d) : d[i] = i
        /\ \A i \in 1 .. Len(r.sb) : r.sb[i] = Len(d) + i
    BY <2>1 DEF InOrder
  <2>4. IsRest(c, r.sb, n)
    BY <2>2, Rest
  <2>5. c \in Seq(1 .. Total) /\ Len(c) = Len(r.sb) - n
    BY <2>4 DEF IsRest
  <2>6. \A i \in 1 .. Len(c) : c[i] = (Len(d) + n) + i
    <3> DEFINE D == Len(d)
               a == r.sb
    <3>1. D \in Nat /\ IsRest(c, a, n) /\ \A i \in 1 .. Len(a) : a[i] = D + i
      BY <2>1, <2>3, <2>4
    <3> HIDE DEF D, a, c
    <3>2. \A i \in 1 .. Len(c) : c[i] = (D + n) + i
      BY <3>1, RestStream, SMT
    <3> QED BY <3>2 DEF D
  <2>7. /\ b \in Seq(1 .. Total) /\ Len(b) = n /\ \A i \in 1 .. Len(b) : b[i] = (0 + Len(d)) + i
    <3>1. 1 \in Nat /\ 1 <= 1 /\ 1 <= n + 1 /\ (n + 1) - 1 = n
      BY SMT
    <3>2. b \in Seq(1 .. Total)
      BY <2>2, <3>1, Part
    <3>3. Len(b) = n
      BY <2>2, <3>1, Part, SMT
    <3>4. \A i \in 1 .. (n + 1) - 1 : b[i] = r.sb[(1 - 1) + i]
      BY <2>2, <3>1, Part, SMT
    <3>5. \A i \in 1 .. n : (1 - 1) + i = i /\ i \in 1 .. Len(r.sb) /\ Len(d) + i = (0 + Len(d)) + i
      BY <2>1, <2>2, SMT
    <3> QED BY <2>3, <3>1, <3>2, <3>3, <3>4, <3>5
  <2> HIDE DEF c, b
  <2>8. \A i \in 1 .. Len(d) : d[i] = 0 + i
    <3>1. \A i \in 1 .. Len(d) : i = 0 + i
      BY <2>1, SMT
    <3> QED BY <2>3, <3>1
  <2>9. /\ d2 \in Seq(1 .. Total) /\ Len(d2) = Len(d) + Len(b)
        /\ \A i \in 1 .. Len(d2) : d2[i] = 0 + i
    <3>1. 0 \in Nat
      BY SMT
    <3> QED BY <2>1, <2>7, <2>8, <3>1, StreamMore
  <2>10. Len(d2) = Len(d) + n /\ Len(d2) \in Nat
    BY <2>7, <2>9, LenProperties
  <2> HIDE DEF d2
  <2>11. \A i \in 1 .. Len(d2) : d2[i] = i
    <3>1. \A i \in 1 .. Len(d2) : 0 + i = i
      BY <2>10, SMT
    <3> QED BY <2>9, <3>1
  <2>12. s \in RPs /\ s.sb = c /\ s.q = r.q /\ s.nxt = r.nxt /\ s.adv = r.adv /\ s.t_state = r.t_state
    BY <2>1, <2>5 DEF RPs, c
  <2> HIDE DEF s
  <2>13. InOrder(s, d2)
    BY <2>6, <2>10, <2>11, <2>12 DEF InOrder
  <2>14. GotFin(s) = GotFin(r)
    BY <2>12 DEF GotFin
  <2>15. Marks(s.t_state, Pos(s.nxt), Pos(s.adv), Len(d2), Len(s.sb), GotFin(s))
    <3> DEFINE X == Pos(r.nxt)
               A == Pos(r.adv)
               F == GotFin(r)
    <3>1. /\ X = Len(d) + Len(r.sb) + F /\ Len(d) + Len(r.sb) <= Total /\ Len(r.sb) <= RcvHiwat
          /\ (r.t_state = "CLOSE_WAIT" => Len(d) + Len(r.sb) = Total) /\ A <= Len(d) + RcvHiwat + F
      BY <2>1 DEF Marks
    <3>2. X \in Nat /\ A \in Nat /\ F \in {0, 1}
      BY <2>2
    <3> HIDE DEF X, A, F
    <3>3. /\ X = Len(d2) + Len(c) + F /\ Len(d2) + Len(c) = Len(d) + Len(r.sb)
          /\ Len(c) <= RcvHiwat /\ A <= Len(d2) + RcvHiwat + F
      <4> DEFINE D == Len(d)
                 C == Len(r.sb)
                 D2 == Len(d2)
                 C2 == Len(c)
      <4>1. D \in Nat /\ C \in Nat /\ D2 = D + n /\ C2 = C - n /\ RcvHiwat \in Nat
        BY <2>1, <2>2, <2>5, <2>10, Sizes
      <4>2. X = D + C + F /\ C <= RcvHiwat /\ A <= D + RcvHiwat + F
        BY <3>1
      <4> HIDE DEF D, C, D2, C2
      <4>3. X = D2 + C2 + F /\ D2 + C2 = D + C /\ C2 <= RcvHiwat /\ A <= D2 + RcvHiwat + F
        BY <3>2, <4>1, <4>2, SMT
      <4> QED BY <4>3 DEF D, C, D2, C2
    <3> QED BY <2>12, <2>14, <3>1, <3>3 DEF Marks, X, A, F
  <2>16. Ordered(s.q, Pos(s.nxt) + 1, Len(d2) + RcvHiwat, m)
    <3> DEFINE lo == Pos(r.nxt) + 1
               hi == Len(d) + RcvHiwat
               hi2 == Len(d2) + RcvHiwat
    <3>1. lo \in Nat /\ hi \in Nat /\ hi2 \in Nat /\ lo <= lo /\ hi <= hi2 /\ m <= m
      <4> HIDE DEF Pos
      <4> QED BY <2>1, <2>2, <2>10, Sizes, SMT
    <3>2. Ordered(r.q, lo, hi, m)
      BY <2>1
    <3> HIDE DEF lo, hi, hi2
    <3>3. Ordered(r.q, lo, hi2, m)
      BY <2>1, <3>1, <3>2, OrderedWider
    <3> QED BY <2>12, <3>3 DEF lo, hi2
  <2>17. Receiver(s, d2, m)
    BY <2>1, <2>9, <2>12, <2>13, <2>15, <2>16 DEF Receiver
  <2> QED BY <2>12, <2>17 DEF s, d2, b
<1> QED
  <2> TAKE m, u, e
  <2> TAKE n \in Nat, mbuf \in BOOLEAN
  <2> HAVE Heard(rp, read, acks, m, u, e) /\ Read(n, mbuf)
  <2> DEFINE s == [rp EXCEPT !.sb = SubSeq(@, n + 1, Len(@))]
             d == read \o SubSeq(rp.sb, 1, n)
  <2>1. Receiver(s, d, m) /\ s.nxt = rp.nxt /\ s.adv = rp.adv
    BY <1>1 DEF Heard, Read
  <2>2. Acknowledge(s, FALSE, mbuf) /\ read' = d
    BY DEF Read
  <2> HIDE DEF s, d
  <2>3. Right(s) = Right(rp)
    BY <2>1 DEF Right
  <2>4. Heard(s, d, acks, m, u, e)
    BY <2>1, <2>3 DEF Heard
  <2>5. Heard(rp', d, acks', m, u, e) /\ Right(s) <= Right(rp')
    BY <2>2, <2>4, AcknowledgeStep
  <2> QED BY <2>2, <2>3, <2>5

-----------------------------------------------------------------------------
(* The invariant.  A's control block has its numbers in order, a timer for *)
(* what is not acknowledged and no more in so_snd than fits.  B has an     *)
(* initial stretch of the stream, and in its queue pieces of what A sent.  *)
(* Every segment on the network is such a piece.  The acknowledgements on  *)
(* their way are ordered, in place and in right edge, between what A has   *)
(* heard of and what B would say now.                                      *)

Side(t, w) == Sender(t, w) /\ Timed(t) /\ Len(t.sb) <= SndHiwat

IInv ==
  /\ Side(tp, wrote)
  /\ Receiver(rp, read, Pos(tp.max))
  /\ Wire(net, rp, Pos(tp.max))
  /\ Chain(acks, Pos(tp.una), Pos(tp.una) + tp.wnd, Pos(rp.nxt), Right(rp))
  /\ eof \in BOOLEAN /\ short = FALSE

(* The places in A's control block. *)
LEMMA SenderPlaces ==
  ASSUME NEW t, NEW w, Sender(t, w)
  PROVE  /\ t \in TPs /\ w \in 0 .. Total /\ w \in Nat /\ Pos(t.max) \in 0 .. Total + 1
         /\ Pos(t.una) \in Nat /\ Pos(t.max) \in Nat
         /\ Pos(t.una) + t.wnd \in Nat
<1>1. t \in TPs /\ w \in 0 .. Total /\ Pos(t.max) \in Nat /\ t.wnd \in Nat /\ Pos(t.una) \in Nat
  BY TPFacts DEF Sender
<1>2. IF t.sentfin THEN Pos(t.max) = w + 1 ELSE Pos(t.max) <= w
  BY DEF Sender, Books
<1> HIDE DEF Pos
<1>3. Pos(t.max) \in 0 .. Total + 1 /\ w \in Nat /\ Pos(t.una) + t.wnd \in Nat
  BY <1>1, <1>2, Sizes, SMT
<1> QED BY <1>1, <1>3

(* A step of A's: what is to be shown of it. *)
LEMMA SenderStep ==
  ASSUME WellOrdered
  PROVE  \A out \in Seq(Pieces) :
           IInv /\ UNCHANGED <<rp, read, eof>> /\ Side(tp', wrote') /\ Pos(tp.max) <= Pos(tp'.max)
             /\ Chain(acks', Pos(tp'.una), Pos(tp'.una) + tp'.wnd, Pos(rp.nxt), Right(rp))
             /\ AllGoOut(out, tp') /\ (net' = net \/ net' = Carry(net, out)) /\ short' = FALSE =>
             IInv'
(* The network takes no more than the segments sent. *)
<1>1. ASSUME NEW S, NEW n \in SUBSET S, NEW segs \in Seq(S)
      PROVE  Carry(n, segs) \subseteq n \cup {segs[k] : k \in 1 .. Len(segs)}
  <2> DEFINE l == Len(segs)
             U == SUBSET (n \cup {segs[k] : k \in 1 .. l})
             G(k, m) == IF Cardinality(m) < MaxNet THEN m \cup {segs[k]} ELSE m
             F == [ks \in (1 .. l) \X U |-> G(ks[1], ks[2])]
             Is(f) == f = [k \in 0 .. l |-> IF k = 0 THEN n ELSE G(k, f[k - 1])]
             with == CHOOSE f : Is(f)
  <2>1. Carry(n, segs) = with[l]
    BY DEF Carry
  <2>2. l \in Nat
    BY LenProperties
  <2>3. n \in U
    OBVIOUS
  <2>4. \A k \in 1 .. l : \A m \in U : G(k, m) \in U
    <3> SUFFICES ASSUME NEW k \in 1 .. l, NEW m \in U PROVE G(k, m) \in U
      OBVIOUS
    <3>1. CASE Cardinality(m) < MaxNet
      BY <3>1
    <3>2. CASE ~(Cardinality(m) < MaxNet)
      BY <3>2
    <3> QED BY <3>1, <3>2
  <2> HIDE DEF l, U, G
  <2>5. \A k \in 1 .. l : \A s \in U : F[<<k, s>>] = G(k, s)
    OBVIOUS
  <2> HIDE DEF F
  <2>6. \A k \in 1 .. l : \A s \in U : F[<<k, s>>] \in U
    BY <2>4, <2>5
  <2>7. PICK f \in [0 .. l -> U] : IsLoop(f, F, n, l)
    BY <2>2, <2>3, <2>6, LoopExists
  <2>8. f[0] = n /\ \A k \in 1 .. l : f[k] = F[<<k, f[k - 1]>>]
    BY <2>7 DEF IsLoop
  <2>9. \A k \in 0 .. l : k # 0 => k \in 1 .. l /\ k - 1 \in 0 .. l
    BY <2>2, SMT
  <2>10. Is(f)
    <3>1. ASSUME NEW k \in 0 .. l PROVE f[k] = IF k = 0 THEN n ELSE G(k, f[k - 1])
      <4>1. CASE k = 0
        BY <2>8, <4>1
      <4>2. CASE k # 0
        BY <2>5, <2>8, <2>9, <4>2
      <4> QED BY <4>1, <4>2
    <3> DEFINE g == [k \in 0 .. l |-> IF k = 0 THEN n ELSE G(k, f[k - 1])]
    <3>2. DOMAIN f = 0 .. l /\ DOMAIN g = 0 .. l /\ f = [k \in 0 .. l |-> f[k]]
      OBVIOUS
    <3>3. f = g
      BY <3>1, <3>2
    <3> QED BY <3>3
  <2>11. Is(with)
    BY <2>10
  <2> HIDE DEF with
  <2>12. with[0] = n /\ \A k \in 1 .. l : with[k] = G(k, with[k - 1])
    <3>1. 0 \in 0 .. l /\ \A k \in 1 .. l : k \in 0 .. l /\ k # 0
      BY <2>2, SMT
    <3> QED BY <2>11, <3>1
  <2> DEFINE T == {k \in Nat : k <= l => with[k] \in U}
  <2>13. 0 \in T
    BY <2>3, <2>12, SMT
  <2>14. ASSUME NEW k \in T PROVE k + 1 \in T
    <3> SUFFICES ASSUME k + 1 <= l PROVE with[k + 1] \in U
      BY SMT
    <3>1. k + 1 \in 1 .. l /\ (k + 1) - 1 = k /\ k <= l
      BY <2>2, SMT
    <3>2. with[k] \in U
      BY <3>1
    <3> QED BY <2>4, <2>12, <3>1, <3>2
  <2>15. T = Nat
    <3>1. T \subseteq Nat
      OBVIOUS
    <3> HIDE DEF T
    <3> QED BY <2>13, <2>14, <3>1, NatSetInduction
  <2>16. with[l] \in U
    <3>1. l <= l
      BY <2>2, SMT
    <3> QED BY <2>2, <2>15, <3>1
  <2> QED BY <2>1, <2>16 DEF U, l
(* What tcp_output sends on the wire. *)
<1>2. ASSUME NEW n, NEW r \in RPs, NEW t \in TPs, Wire(n, r, Pos(t.max)),
             Pos(t.una) + t.wnd <= Right(r), NEW out \in Seq(Pieces), AllGoOut(out, t)
      PROVE  Wire(Carry(n, out), r, Pos(t.max))
  <2> USE <1>2
  <2> SUFFICES ASSUME NEW s \in Carry(n, out)
               PROVE  s \in Pieces /\ Reach(s) <= Pos(t.max) /\ (s.fin => Stop(s) <= Right(r))
    BY DEF Wire
  <2>1. n \in SUBSET Pieces
    BY DEF Wire
  <2>2. s \in n \/ \E k \in 1 .. Len(out) : s = out[k]
    BY <2>1, <1>1, SMT
  <2>3. CASE s \in n
    BY <2>3 DEF Wire
  <2>4. ASSUME NEW k \in 1 .. Len(out), s = out[k]
        PROVE  s \in Pieces /\ Reach(s) <= Pos(t.max) /\ (s.fin => Stop(s) <= Right(r))
    <3>1. s \in Pieces /\ Reach(s) <= Pos(t.max) /\ (s.fin => Stop(s) <= Pos(t.una) + t.wnd)
      BY <2>4 DEF AllGoOut, GoesOut
    <3>2. Stop(s) \in Nat /\ Pos(t.una) \in Nat /\ t.wnd \in Nat /\ Right(r) \in Nat
      BY <3>1, PieceFacts, TPFacts, RPFacts
    <3>3. Stop(s) <= Pos(t.una) + t.wnd => Stop(s) <= Right(r)
      <4> HIDE DEF Stop, Right, Pos
      <4> QED BY <3>2, SMT
    <3> QED BY <3>1, <3>3
  <2> QED BY <2>2, <2>3, <2>4
<1> QED
  <2> TAKE out \in Seq(Pieces)
  <2> HAVE IInv /\ UNCHANGED <<rp, read, eof>> /\ Side(tp', wrote') /\ Pos(tp.max) <= Pos(tp'.max)
             /\ Chain(acks', Pos(tp'.una), Pos(tp'.una) + tp'.wnd, Pos(rp.nxt), Right(rp))
             /\ AllGoOut(out, tp') /\ (net' = net \/ net' = Carry(net, out)) /\ short' = FALSE
  <2> DEFINE m == Pos(tp.max)
             m2 == Pos(tp'.max)
  <2>1. /\ Sender(tp, wrote) /\ Receiver(rp, read, m) /\ Wire(net, rp, m) /\ eof \in BOOLEAN
        /\ Sender(tp', wrote')
    BY DEF IInv, Side
  <2>2. /\ m \in 0 .. Total + 1 /\ m2 \in 0 .. Total + 1 /\ m \in Nat /\ m2 \in Nat /\ tp' \in TPs
        /\ m <= m2
    BY <2>1, SenderPlaces
  <2>3. rp \in RPs /\ Right(rp) <= Right(rp)
    <3>1. rp \in RPs
      BY <2>1 DEF Receiver
    <3>2. Right(rp) \in Nat
      BY <3>1, RPFacts
    <3> HIDE DEF Right
    <3>3. Right(rp) <= Right(rp)
      BY <3>2, SMT
    <3> QED BY <3>1, <3>3
  <2>4. Receiver(rp, read, m2)
    <3> HIDE DEF m, m2
    <3> QED BY <2>1, <2>2, ReceiverMax
  <2>5. Wire(net, rp, m2)
    <3> HIDE DEF m, m2
    <3> QED BY <2>1, <2>2, <2>3, WireMore
  <2>6. Wire(net', rp, m2)
    <3>1. CASE net' = net
      BY <2>5, <3>1
    <3>2. CASE net' = Carry(net, out)
      <4>1. Pos(tp'.una) + tp'.wnd <= Right(rp)
        BY DEF Chain
      <4>2. Wire(Carry(net, out), rp, m2)
        BY <2>2, <2>3, <2>5, <4>1, <1>2
      <4> QED BY <3>2, <4>2
    <3> QED BY <3>1, <3>2
  <2>7. rp' = rp /\ read' = read /\ eof' = eof /\ short' = FALSE
    OBVIOUS
  <2>8. Receiver(rp', read', m2) /\ Wire(net', rp', m2)
        /\ Chain(acks', Pos(tp'.una), Pos(tp'.una) + tp'.wnd, Pos(rp'.nxt), Right(rp'))
    BY <2>4, <2>6, <2>7
  <2> QED BY <2>1, <2>7, <2>8 DEF IInv

(* The window and the place of tcp_output's control block are those of the *)
(* one it was called with.                                                 *)
LEMMA OutputStep ==
  ASSUME WellOrdered, Shortages = {0}, IInv, UNCHANGED <<rp, read, eof>>,
         NEW t, Sender(t, wrote'), Len(t.sb) <= SndHiwat, Pos(tp.max) <= Pos(t.max),
         Chain(acks', Pos(t.una), Pos(t.una) + t.wnd, Pos(rp.nxt), Right(rp)),
         NEW force \in BOOLEAN, Ready(t, force), NEW cwnd \in Nat \ {0},
         Outputs(t, force, cwnd)
  PROVE  IInv'
<1> DEFINE o == Output(t, force, cwnd, 0)
<1>1. tp' = o.tp /\ net' = Carry(net, o.out) /\ short' = ((short \/ o.nombuf) /\ ~o.tp.rexmt)
  BY DEF Outputs, OutputsBut, Becomes
<1>2. OutputIs(t, wrote', force, o)
  BY OutputKeeps
<1> HIDE DEF o
<1>0. short' = FALSE
  BY <1>1, <1>2 DEF OutputIs, IInv
<1>3. /\ o.out \in Seq(Pieces) /\ Sender(tp', wrote') /\ Keeps(tp', t) /\ AllGoOut(o.out, tp')
      /\ Timed(tp')
  BY <1>1, <1>2 DEF OutputIs, Timely
<1>4. tp'.una = t.una /\ tp'.wnd = t.wnd /\ tp'.sb = t.sb /\ Pos(t.max) <= Pos(tp'.max)
  BY <1>3 DEF Keeps
<1>5. Side(tp', wrote')
  BY <1>3, <1>4 DEF Side
<1>6. Pos(tp.max) <= Pos(tp'.max)
  <2>1. Pos(tp.max) \in Nat /\ Pos(t.max) \in Nat /\ Pos(tp'.max) \in Nat
    BY <1>3, SenderPlaces DEF IInv, Side
  <2> HIDE DEF Pos
  <2> QED BY <1>4, <2>1, SMT
<1>7. Chain(acks', Pos(tp'.una), Pos(tp'.una) + tp'.wnd, Pos(rp.nxt), Right(rp))
  BY <1>4
<1> QED BY <1>0, <1>1, <1>3, <1>5, <1>6, <1>7, SenderStep

(* What the invariant says of A. *)
LEMMA SideFacts ==
  ASSUME IInv
  PROVE  /\ Sender(tp, wrote) /\ Timed(tp) /\ Len(tp.sb) <= SndHiwat
         /\ tp \in TPs /\ wrote \in 0 .. Total /\ wrote \in Nat
         /\ \A i \in 1 .. Len(tp.sb) : tp.sb[i] = Pos(tp.una) + i
         /\ Books(tp.t_state, Pos(tp.wl2), Pos(tp.una), Pos(tp.nxt), Pos(tp.max), tp.wnd,
                  Len(tp.sb), wrote, tp.rexmt, tp.persist, tp.sentfin)
         /\ Chain(acks, Pos(tp.una), Pos(tp.una) + tp.wnd, Pos(rp.nxt), Right(rp))
         /\ Pos(tp.max) <= Pos(tp.max)
<1>1. Sender(tp, wrote) /\ Timed(tp) /\ Len(tp.sb) <= SndHiwat
  BY DEF IInv, Side
<1>2. wrote \in Nat /\ Pos(tp.max) \in Nat
  BY <1>1, SenderPlaces
<1>3. Pos(tp.max) <= Pos(tp.max)
  <2> HIDE DEF Pos
  <2> QED BY <1>2, SMT
<1> QED BY <1>1, <1>2, <1>3 DEF Sender, IInv

(* TCPT_REXMT keeps the invariant. *)
LEMMA RexmtStep ==
  ASSUME WellOrdered, Shortages = {0}, IInv, RexmtTimeout(0)
  PROVE  IInv'
<1> DEFINE t == [tp EXCEPT !.nxt = tp.una]
<1>1. tp.rexmt /\ UNCHANGED <<wrote, rp, read, eof, acks>> /\ Outputs(t, FALSE, MaxSeg)
  BY DEF RexmtTimeout, Outputs
<1>2. tp \in TPs /\ wrote \in 0 .. Total /\ Len(tp.sb) <= SndHiwat
      /\ \A i \in 1 .. Len(tp.sb) : tp.sb[i] = Pos(tp.una) + i
  BY SideFacts
<1>3. /\ tp.una \in Numbers /\ tp.max \in Numbers /\ tp.rexmt \in BOOLEAN
      /\ Pos(tp.una) \in Nat /\ Pos(tp.nxt) \in Nat /\ Pos(tp.max) \in Nat /\ tp.wnd \in Nat
  BY <1>2, TPFacts
<1>4. /\ t \in TPs /\ t.t_state = tp.t_state /\ t.una = tp.una /\ t.nxt = tp.una
      /\ t.max = tp.max /\ t.wnd = tp.wnd /\ t.wl2 = tp.wl2 /\ t.sb = tp.sb
      /\ t.rexmt = tp.rexmt /\ t.persist = tp.persist /\ t.sentfin = tp.sentfin
  BY <1>2, <1>3 DEF TPs
<1> HIDE DEF t
<1>5. Books(t.t_state, Pos(t.wl2), Pos(t.una), Pos(t.nxt), Pos(t.max), t.wnd, Len(t.sb), wrote,
            t.rexmt, t.persist, t.sentfin)
  <2>1. Books(tp.t_state, Pos(tp.wl2), Pos(tp.una), Pos(tp.nxt), Pos(tp.max), tp.wnd,
              Len(tp.sb), wrote, tp.rexmt, tp.persist, tp.sentfin)
    BY SideFacts
  <2>2. Pos(tp.una) <= Pos(tp.nxt) /\ Pos(tp.nxt) <= Pos(tp.max)
    BY <2>1 DEF Books
  <2>3. Pos(tp.una) <= Pos(tp.una) /\ Pos(tp.una) <= Pos(tp.max)
        /\ Pos(tp.una) <= Pos(tp.una) + tp.wnd
    <3> HIDE DEF Pos
    <3> QED BY <1>3, <2>2, SMT
  <2>4. Books(tp.t_state, Pos(tp.wl2), Pos(tp.una), Pos(tp.una), Pos(tp.max), tp.wnd,
              Len(tp.sb), wrote, tp.rexmt, tp.persist, tp.sentfin)
    <3> HIDE DEF Pos
    <3> QED BY <2>1, <2>3 DEF Books
  <2> QED BY <1>4, <2>4
<1>6. Sender(t, wrote')
  BY <1>1, <1>2, <1>4, <1>5 DEF Sender
<1>7. Ready(t, FALSE)
  BY DEF Ready
<1>8. MaxSeg \in Nat \ {0}
  BY SizesAssumption
<1>9. /\ Chain(acks', Pos(t.una), Pos(t.una) + t.wnd, Pos(rp.nxt), Right(rp))
      /\ Pos(tp.max) <= Pos(t.max) /\ Len(t.sb) <= SndHiwat
  BY <1>1, <1>4, SideFacts
<1> QED BY <1>1, <1>6, <1>7, <1>8, <1>9, OutputStep

(* TCPT_PERSIST does: only bytes, never the FIN alone, are left to it. *)
LEMMA PersistStep ==
  ASSUME WellOrdered, Shortages = {0}, IInv, PersistTimeout(0)
  PROVE  IInv'
<1>1. PICK c \in Cwnds : Outputs(tp, TRUE, c)
  BY DEF PersistTimeout, Outputs
<1>2. tp.persist /\ UNCHANGED <<wrote, rp, read, eof, acks>>
  BY DEF PersistTimeout
<1>3. Sender(tp, wrote') /\ Len(tp.sb) <= SndHiwat /\ Pos(tp.max) <= Pos(tp.max)
      /\ Chain(acks', Pos(tp.una), Pos(tp.una) + tp.wnd, Pos(rp.nxt), Right(rp))
  BY <1>2, SideFacts
<1>4. Ready(tp, TRUE)
  <2>1. ~(tp.t_state = "FIN_WAIT_1" /\ Len(tp.sb) = 0)
    BY <1>2, SideFacts DEF Timed, Books
  <2>2. Len(tp.sb) \in Nat
    BY SideFacts, TPFacts
  <2>3. Len(tp.sb) # 0 => Len(tp.sb) > 0
    BY <2>2, SMT
  <2> QED BY <1>2, <2>1, <2>3 DEF Ready
<1>5. c \in Nat \ {0}
  BY SizesAssumption
<1> QED BY <1>1, <1>2, <1>3, <1>4, <1>5, OutputStep

(* PRU_SHUTDOWN does. *)
LEMMA ShutdownStep ==
  ASSUME WellOrdered, Shortages = {0}, IInv, Shutdown
  PROVE  IInv'
<1> DEFINE t == [tp EXCEPT !.t_state = "FIN_WAIT_1"]
<1>1. PICK c \in Cwnds : Outputs(t, FALSE, c)
  BY DEF Shutdown
<1>2. tp.t_state = "ESTABLISHED" /\ wrote = Total /\ UNCHANGED <<wrote, rp, read, eof, acks>>
  BY DEF Shutdown
<1>3. tp \in TPs /\ wrote \in 0 .. Total /\ Len(tp.sb) <= SndHiwat
      /\ \A i \in 1 .. Len(tp.sb) : tp.sb[i] = Pos(tp.una) + i
  BY SideFacts
<1>4. /\ t \in TPs /\ t.t_state = "FIN_WAIT_1" /\ t.una = tp.una /\ t.nxt = tp.nxt
      /\ t.max = tp.max /\ t.wnd = tp.wnd /\ t.wl2 = tp.wl2 /\ t.sb = tp.sb
      /\ t.rexmt = tp.rexmt /\ t.persist = tp.persist /\ t.sentfin = tp.sentfin
  BY <1>3 DEF TPs
<1> HIDE DEF t
<1>5. Books("FIN_WAIT_1", Pos(tp.wl2), Pos(tp.una), Pos(tp.nxt), Pos(tp.max), tp.wnd,
            Len(tp.sb), wrote, tp.rexmt, tp.persist, tp.sentfin)
  <2>1. Books("ESTABLISHED", Pos(tp.wl2), Pos(tp.una), Pos(tp.nxt), Pos(tp.max), tp.wnd,
              Len(tp.sb), wrote, tp.rexmt, tp.persist, tp.sentfin)
    BY <1>2, SideFacts
  <2> HIDE DEF Pos
  <2> QED BY <1>2, <2>1 DEF Books
<1>6. Sender(t, wrote')
  BY <1>2, <1>3, <1>4, <1>5 DEF Sender
<1>7. Ready(t, FALSE)
  BY DEF Ready
<1>8. c \in Nat \ {0}
  BY SizesAssumption
<1>9. /\ Chain(acks', Pos(t.una), Pos(t.una) + t.wnd, Pos(rp.nxt), Right(rp))
      /\ Pos(tp.max) <= Pos(t.max) /\ Len(t.sb) <= SndHiwat
  BY <1>2, <1>4, SideFacts
<1> QED BY <1>1, <1>2, <1>6, <1>7, <1>8, <1>9, OutputStep

(* PRU_SEND does. *)
LEMMA WriteStep ==
  ASSUME WellOrdered, Shortages = {0}, IInv, NEW n \in Writes, Write(n)
  PROVE  IInv'
<1> DEFINE b == [i \in 1 .. n |-> wrote + i]
           t == [tp EXCEPT !.sb = @ \o b]
           U == Pos(tp.una)
           cc == Len(tp.sb)
<1>1. PICK c \in Cwnds : Outputs(t, FALSE, c)
  BY DEF Write
<1>2. /\ tp.t_state = "ESTABLISHED" /\ wrote + n <= Total /\ cc + n <= SndHiwat
      /\ wrote' = wrote + n /\ UNCHANGED <<rp, read, eof, acks>>
  BY DEF Write, sb_cc
<1>3. tp \in TPs /\ wrote \in 0 .. Total /\ wrote \in Nat
      /\ \A i \in 1 .. cc : tp.sb[i] = U + i
  BY SideFacts
<1>4. tp.sb \in Seq(1 .. Total) /\ cc \in Nat /\ U \in Nat
      /\ Pos(tp.nxt) \in Nat /\ Pos(tp.max) \in Nat /\ tp.wnd \in Nat
  BY <1>3, TPFacts
<1>5. n \in Nat
  BY SizesAssumption
<1>6. b \in Seq(1 .. Total) /\ Len(b) = n
  <2>1. \A i \in 1 .. n : wrote + i \in 1 .. Total
    BY <1>2, <1>3, <1>5, Sizes, SMT
  <2>2. b \in [1 .. n -> 1 .. Total]
    BY <2>1
  <2> HIDE DEF b
  <2>3. b \in Seq(1 .. Total) /\ DOMAIN b = 1 .. n
    BY <1>5, <2>2, FunctionIsSeq
  <2>4. b \in Seq(1 .. Total) /\ DOMAIN b = 1 .. n /\ DOMAIN b = 1 .. Len(b) /\ Len(b) \in Nat
    BY <2>3, LenProperties
  <2>5. Len(b) = n
    BY <1>5, <2>4, SMT
  <2> QED BY <2>4, <2>5
<1>7. Books("ESTABLISHED", Pos(tp.wl2), U, Pos(tp.nxt), Pos(tp.max), tp.wnd, cc, wrote,
            tp.rexmt, tp.persist, tp.sentfin)
  BY <1>2, SideFacts
<1> HIDE DEF U, cc
<1>8. U + cc = wrote /\ ~tp.sentfin /\ Pos(tp.max) <= wrote
  BY <1>7 DEF Books
<1>9. \A i \in 1 .. Len(b) : b[i] = (U + cc) + i
  <2>1. \A i \in 1 .. n : b[i] = wrote + i
    OBVIOUS
  <2> HIDE DEF b
  <2> QED BY <1>6, <1>8, <2>1
<1> HIDE DEF b
<1>10. /\ tp.sb \o b \in Seq(1 .. Total) /\ Len(tp.sb \o b) = cc + n
       /\ \A i \in 1 .. Len(tp.sb \o b) : (tp.sb \o b)[i] = U + i
  <2>1. /\ tp.sb \o b \in Seq(1 .. Total) /\ Len(tp.sb \o b) = Len(tp.sb) + Len(b)
        /\ \A i \in 1 .. Len(tp.sb \o b) : (tp.sb \o b)[i] = U + i
    BY <1>3, <1>4, <1>6, <1>9, StreamMore DEF cc
  <2> QED BY <1>6, <2>1 DEF cc
<1>11. t = [tp EXCEPT !.sb = tp.sb \o b]
  BY <1>3 DEF TPs
<1> HIDE DEF t
<1>12. /\ t \in TPs /\ t.t_state = tp.t_state /\ t.una = tp.una /\ t.nxt = tp.nxt
       /\ t.max = tp.max /\ t.wnd = tp.wnd /\ t.wl2 = tp.wl2 /\ t.sb = tp.sb \o b
       /\ t.rexmt = tp.rexmt /\ t.persist = tp.persist /\ t.sentfin = tp.sentfin
  BY <1>3, <1>10, <1>11 DEF TPs
<1>13. Books("ESTABLISHED", Pos(tp.wl2), U, Pos(tp.nxt), Pos(tp.max), tp.wnd, cc + n, wrote',
             tp.rexmt, tp.persist, tp.sentfin)
  <2> DEFINE N == Pos(tp.nxt)
             M == Pos(tp.max)
  <2>1. N <= M /\ (N <= U + tp.wnd \/ (N = wrote + 1 /\ wrote <= U + tp.wnd))
    BY <1>7 DEF Books
  <2>2. N \in Nat /\ M \in Nat /\ M <= wrote
    BY <1>4, <1>8
  <2> HIDE DEF N, M
  <2>3. U + (cc + n) = wrote + n /\ M <= wrote + n /\ N <= U + tp.wnd
    BY <1>3, <1>4, <1>5, <1>8, <2>1, <2>2, SMT
  <2>4. U + (cc + n) = wrote' /\ Pos(tp.max) <= wrote' /\ Pos(tp.nxt) <= U + tp.wnd
    BY <1>2, <2>3 DEF N, M
  <2> HIDE DEF Pos
  <2> QED BY <1>7, <1>8, <2>4 DEF Books
<1>14. Sender(t, wrote')
  <2>1. wrote' \in 0 .. Total
    BY <1>2, <1>3, <1>5, Sizes, SMT
  <2>2. Books(t.t_state, Pos(t.wl2), Pos(t.una), Pos(t.nxt), Pos(t.max), t.wnd, Len(t.sb),
              wrote', t.rexmt, t.persist, t.sentfin)
    BY <1>2, <1>10, <1>12, <1>13 DEF U
  <2>3. \A i \in 1 .. Len(t.sb) : t.sb[i] = Pos(t.una) + i
    BY <1>10, <1>12 DEF U
  <2> QED BY <1>12, <2>1, <2>2, <2>3 DEF Sender
<1>15. Ready(t, FALSE)
  BY DEF Ready
<1>16. c \in Nat \ {0}
  BY SizesAssumption
<1>17. /\ Chain(acks', Pos(t.una), Pos(t.una) + t.wnd, Pos(rp.nxt), Right(rp))
       /\ Pos(tp.max) <= Pos(t.max) /\ Len(t.sb) <= SndHiwat
  BY <1>2, <1>10, <1>12, SideFacts
<1> QED BY <1>1, <1>2, <1>14, <1>15, <1>16, <1>17, OutputStep

(* An acknowledgement of something new, at the place A, that says win. *)
NewAck(st, L, U, N, M, wnd, cc, w, rexmt, persist, sentfin, A, win, L2) ==
  /\ st \in States /\ L \in Nat /\ U \in Nat /\ N \in Nat /\ M \in Nat /\ wnd \in Nat
  /\ cc \in Nat /\ w \in Nat /\ rexmt \in BOOLEAN /\ persist \in BOOLEAN /\ sentfin \in BOOLEAN
  /\ A \in Nat /\ win \in Nat /\ L2 \in Nat
  /\ Books(st, L, U, N, M, wnd, cc, w, rexmt, persist, sentfin)
  /\ U < A /\ A <= M /\ U + wnd <= A + win /\ L2 <= A

(* Acked, in places: the new control block has una at the place, the rest  *)
(* of so_snd, and the retransmit timer if something is still out.          *)
AckedIs(t, a, u) ==
  /\ u.una = a.ack
  /\ u.sb \in Seq(1 .. Total) /\ Len(u.sb) = Len(t.sb) - Min2(Pos(a.ack) - Pos(t.una), Len(t.sb))
  /\ \A i \in 1 .. Len(u.sb) : u.sb[i] = Pos(a.ack) + i
  /\ u.rexmt = (Pos(a.ack) # Pos(t.max) /\ (t.rexmt \/ ~t.persist))

(* What A knows of an acknowledgement a that comes next. *)
Comes(a) ==
  /\ a \in AckSet /\ Pos(tp.una) <= Pos(a.ack) /\ Pos(a.ack) <= Pos(tp.max)
  /\ Pos(tp.una) + tp.wnd <= Edge(a)
  /\ Chain(acks', Pos(tp.una), Pos(tp.una) + tp.wnd, Pos(rp.nxt), Right(rp))
  /\ Chain(acks', Pos(a.ack), Edge(a), Pos(rp.nxt), Right(rp))

(* A step of A's that sends nothing. *)
LEMMA QuietStep ==
  ASSUME WellOrdered, IInv, UNCHANGED <<rp, read, eof>>, net' = net, short' = FALSE,
         Side(tp', wrote'), Pos(tp.max) <= Pos(tp'.max),
         Chain(acks', Pos(tp'.una), Pos(tp'.una) + tp'.wnd, Pos(rp.nxt), Right(rp))
  PROVE  IInv'
<1> DEFINE out == <<>>
<1>1. out \in Seq(Pieces) /\ AllGoOut(out, tp')
  <2>1. <<>> \in Seq(Pieces) /\ Len(<<>>) = 0
    BY EmptySeq
  <2>2. 1 .. 0 = {}
    BY SMT
  <2> QED BY <2>1, <2>2 DEF AllGoOut
<1> HIDE DEF out
<1> QED BY <1>1, SenderStep

(* Without the first acknowledgement. *)
LEMMA FirstComes ==
  ASSUME IInv, acks # <<>>, NEW b \in Seq(AckSet), Len(b) = Len(acks) - 1,
         \A i \in 1 .. Len(b) : b[i] = acks[i + 1], acks' = b
  PROVE  Comes(acks[1])
<1>1. /\ tp \in TPs /\ Chain(acks, Pos(tp.una), Pos(tp.una) + tp.wnd, Pos(rp.nxt), Right(rp))
  BY SideFacts
<1>2. Pos(tp.una) \in Nat /\ Pos(tp.max) \in Nat /\ tp.wnd \in Nat
  BY <1>1, TPFacts
<1>3. rp \in RPs /\ Pos(rp.nxt) <= Pos(tp.max)
  BY ReceiverFacts DEF IInv
<1>4. Pos(rp.nxt) \in Nat /\ Right(rp) \in Nat
  BY <1>3, RPFacts
<1> DEFINE u == Pos(tp.una)
           e == Pos(tp.una) + tp.wnd
           n == Pos(rp.nxt)
           R == Right(rp)
<1>5. u \in Nat /\ e \in Nat /\ n \in Nat /\ R \in Nat
  <2>1. e \in Nat
    <3> HIDE DEF Pos
    <3> QED BY <1>2, SMT
  <2> QED BY <1>2, <1>4, <2>1
<1>6. Chain(acks, u, e, n, R) /\ acks \in Seq(AckSet)
  BY <1>1 DEF Chain
<1>7. Len(acks) # 0
  <2>1. Len(acks) \in Nat \ {0}
    BY <1>6, EmptySeq
  <2> QED BY <2>1
<1> HIDE DEF u, e, n, R
<1>8. /\ acks[1] \in AckSet /\ u <= Pos(acks[1].ack) /\ e <= Edge(acks[1])
      /\ Pos(acks[1].ack) <= n
      /\ Chain(b, u, e, n, R) /\ Chain(b, Pos(acks[1].ack), Edge(acks[1]), n, R)
  BY <1>5, <1>6, <1>7, ChainRest
<1>9. Pos(acks[1].ack) \in Nat
  BY <1>8, AckFacts
<1>10. Pos(acks[1].ack) <= Pos(tp.max)
  <2>1. n <= Pos(tp.max)
    BY <1>3 DEF n
  <2> HIDE DEF Pos
  <2> QED BY <1>2, <1>5, <1>8, <1>9, <2>1, SMT
<1> QED BY <1>8, <1>10 DEF Comes, u, e, n, R

(* An acknowledgement delivered in its turn. *)
LEMMA DeliverAckStep ==
  ASSUME WellOrdered, Shortages = {0}
  PROVE  AcksInOrder /\ IInv /\ DeliverAck =>
           IInv'
(* What it makes of A's numbers. *)
<1>1. ASSUME NEW st, NEW L, NEW U, NEW N, NEW M, NEW wnd, NEW cc, NEW w, NEW rexmt, NEW persist,
             NEW sentfin, NEW A, NEW win, NEW L2,
             NewAck(st, L, U, N, M, wnd, cc, w, rexmt, persist, sentfin, A, win, L2)
      PROVE  Books(IF st = "FIN_WAIT_1" /\ A - U > cc THEN "FIN_WAIT_2" ELSE st, L2, A,
                   IF N < A THEN A ELSE N, M, win, cc - Min2(A - U, cc), w,
                   A # M /\ (rexmt \/ ~persist), persist, sentfin)
  <2> USE <1>1
  <2>0. /\ st \in States /\ L \in Nat /\ U \in Nat /\ N \in Nat /\ M \in Nat /\ wnd \in Nat
        /\ cc \in Nat /\ w \in Nat /\ rexmt \in BOOLEAN /\ persist \in BOOLEAN
        /\ sentfin \in BOOLEAN /\ A \in Nat /\ win \in Nat /\ L2 \in Nat
        /\ Books(st, L, U, N, M, wnd, cc, w, rexmt, persist, sentfin)
        /\ U < A /\ A <= M /\ U + wnd <= A + win /\ L2 <= A
    BY DEF NewAck
  <2> DEFINE st2 == IF st = "FIN_WAIT_1" /\ A - U > cc THEN "FIN_WAIT_2" ELSE st
             N2 == IF N < A THEN A ELSE N
             cc2 == cc - Min2(A - U, cc)
             rexmt2 == A # M /\ (rexmt \/ ~persist)
  <2>1. /\ U <= N /\ N <= M
        /\ (st = "FIN_WAIT_2" => cc = 0 /\ U = w + 1)
        /\ (st # "FIN_WAIT_2" => U + cc = w)
        /\ (sentfin => M = w + 1 /\ st # "ESTABLISHED") /\ (~sentfin => M <= w)
        /\ (st # "ESTABLISHED" => w = Total)
        /\ N <= U + wnd \/ (N = w + 1 /\ w <= U + wnd)
        /\ ~(rexmt /\ persist) /\ (rexmt \/ N = U)
    BY <2>0 DEF Books
  <2>2. st # "FIN_WAIT_2"
    <3> SUFFICES ASSUME st = "FIN_WAIT_2" PROVE FALSE
      OBVIOUS
    <3>1. U = w + 1
      BY <2>1
    <3>2. M <= w + 1
      BY <2>0, <2>1, SMT
    <3> QED BY <2>0, <3>1, <3>2, SMT
  <2>3. U + cc = w
    BY <2>1, <2>2
  <2>4. N2 \in Nat /\ A <= N2 /\ N2 <= M /\ (N2 = A \/ N2 = N)
    BY <2>0, <2>1, SMT
  <2>5. A - U > cc => sentfin /\ A = w + 1 /\ cc2 = 0
    <3> SUFFICES ASSUME A - U > cc PROVE sentfin /\ A = w + 1 /\ cc2 = 0
      OBVIOUS
    <3>1. A > w
      BY <2>0, <2>3, SMT
    <3>2. sentfin
      <4>1. ~(M <= w)
        BY <2>0, <3>1, SMT
      <4> QED BY <2>1, <4>1
    <3>3. M = w + 1
      BY <2>1, <3>2
    <3>4. A = w + 1 /\ cc2 = 0
      BY <2>0, <3>1, <3>3, SMT DEF Min2
    <3> QED BY <3>2, <3>4
  <2>6. ~(A - U > cc) => A + cc2 = w
    BY <2>0, <2>3, SMT DEF Min2
  <2>7. IF st2 = "FIN_WAIT_2" THEN cc2 = 0 /\ A = w + 1 ELSE A + cc2 = w
    <3>1. CASE A - U > cc
      <4>1. st = "FIN_WAIT_1"
        BY <2>0, <2>1, <2>2, <2>5, <3>1 DEF States
      <4> QED BY <2>5, <3>1, <4>1
    <3>2. CASE ~(A - U > cc)
      BY <2>2, <2>6, <3>2
    <3> QED BY <3>1, <3>2
  <2>8. (st2 = "ESTABLISHED") = (st = "ESTABLISHED")
    OBVIOUS
  <2>9. N2 <= A + win \/ (N2 = w + 1 /\ w <= A + win)
    BY <2>0, <2>1, <2>4, SMT
  <2>10. ~(rexmt2 /\ persist)
    BY <2>1
  <2>11. rexmt2 \/ N2 = A
    <3>1. CASE A = M
      BY <2>0, <2>4, <3>1, SMT
    <3>2. CASE A # M /\ ~(rexmt \/ ~persist)
      <4>1. N = U
        BY <2>1, <3>2
      <4> QED BY <2>0, <4>1, SMT
    <3> QED BY <3>1, <3>2
  <2>12. A # M => A < M
    BY <2>0, SMT
  <2> HIDE DEF st2, N2, cc2
  <2>13. Books(st2, L2, A, N2, M, win, cc2, w, rexmt2, persist, sentfin)
    BY <2>0, <2>1, <2>4, <2>7, <2>8, <2>9, <2>10, <2>11, <2>12 DEF Books
  <2> QED BY <2>13 DEF st2, N2, cc2
(* Acked gives such a block. *)
<1>2. ASSUME NEW t \in TPs, NEW a \in AckSet, Pos(t.una) < Pos(a.ack),
             \A i \in 1 .. Len(t.sb) : t.sb[i] = Pos(t.una) + i
      PROVE  /\ AckedIs(t, a, Acked(t, a)) /\ Acked(t, a) \in TPs
             /\ Acked(t, a).t_state = t.t_state /\ Acked(t, a).nxt = t.nxt
             /\ Acked(t, a).max = t.max /\ Acked(t, a).wnd = t.wnd /\ Acked(t, a).wl2 = t.wl2
             /\ Acked(t, a).persist = t.persist /\ Acked(t, a).sentfin = t.sentfin
  <2> USE <1>2
  <2> DEFINE u == Acked(t, a)
             A == Pos(a.ack)
             U == Pos(t.una)
             k == Min2(A - U, Len(t.sb))
             b == SubSeq(t.sb, k + 1, Len(t.sb))
             x == a.ack # t.max /\ (t.rexmt \/ ~t.persist)
  <2>1. /\ t.una \in Numbers /\ t.max \in Numbers /\ U \in Nat /\ t.sb \in Seq(1 .. Total)
        /\ Len(t.sb) \in Nat
    BY TPFacts
  <2>2. a.ack \in Numbers /\ A \in Nat
    BY AckFacts
  <2>3. Diff(a.ack, t.una) = A - U
    BY <2>1, <2>2, DiffPos
  <2>4. u = [t EXCEPT !.una = a.ack, !.sb = b, !.rexmt = x]
    <3>1. u = [t EXCEPT !.una = a.ack,
                        !.sb = SubSeq(@, Min2(A - U, Len(@)) + 1, Len(@)),
                        !.rexmt = a.ack # t.max /\ (@ \/ ~t.persist)]
      BY <2>3 DEF Acked
    <3> HIDE DEF u, A, U
    <3> QED BY <3>1 DEF TPs
  <2> HIDE DEF A, U
  <2>5. k \in Nat /\ k <= Len(t.sb) /\ (k = Len(t.sb) \/ U + k = A)
    <3>1. U < A
      BY DEF U, A
    <3> QED BY <2>1, <2>2, <3>1, SMT DEF Min2
  <2> HIDE DEF k
  <2>6. /\ b \in Seq(1 .. Total) /\ Len(b) = Len(t.sb) - k
        /\ \A i \in 1 .. Len(b) : b[i] = (U + k) + i
    <3>1. \A i \in 1 .. Len(t.sb) : t.sb[i] = U + i
      BY DEF U
    <3>2. IsRest(b, t.sb, k)
      BY <2>1, <2>5, Rest
    <3> HIDE DEF b
    <3>3. \A i \in 1 .. Len(b) : b[i] = (U + k) + i
      BY <2>1, <2>5, <3>1, <3>2, RestStream, SMT
    <3> QED BY <3>2, <3>3 DEF IsRest
  <2> HIDE DEF b
  <2>7. \A i \in 1 .. Len(b) : b[i] = A + i
    <3>1. CASE U + k = A
      BY <2>6, <3>1
    <3>2. CASE k = Len(t.sb)
      <4>1. Len(b) = 0
        BY <2>1, <2>6, <3>2, SMT
      <4>2. 1 .. Len(b) = {}
        BY <4>1, SMT
      <4> QED BY <4>2
    <3> QED BY <2>5, <3>1, <3>2
  <2>8. x \in BOOLEAN /\ x = (Pos(a.ack) # Pos(t.max) /\ (t.rexmt \/ ~t.persist))
    BY <2>1, <2>2, SamePlace
  <2> HIDE DEF x, u
  <2>9. /\ u \in TPs /\ u.una = a.ack /\ u.sb = b /\ u.rexmt = x
        /\ u.t_state = t.t_state /\ u.nxt = t.nxt /\ u.max = t.max /\ u.wnd = t.wnd
        /\ u.wl2 = t.wl2 /\ u.persist = t.persist /\ u.sentfin = t.sentfin
    BY <2>2, <2>4, <2>6, <2>8 DEF TPs
  <2>10. AckedIs(t, a, u)
    BY <2>6, <2>7, <2>8, <2>9 DEF AckedIs, A, U, k
  <2> QED BY <2>9, <2>10 DEF u
(* The numbers of an acknowledgement of something new. *)
<1>3. ASSUME IInv, NEW a, Comes(a), Pos(tp.una) < Pos(a.ack), NEW L2 \in Nat, L2 <= Pos(a.ack)
      PROVE  Books(IF tp.t_state = "FIN_WAIT_1" /\ Pos(a.ack) - Pos(tp.una) > Len(tp.sb)
                     THEN "FIN_WAIT_2" ELSE tp.t_state,
                   L2, Pos(a.ack), IF Pos(tp.nxt) < Pos(a.ack) THEN Pos(a.ack) ELSE Pos(tp.nxt),
                   Pos(tp.max), a.win,
                   Len(tp.sb) - Min2(Pos(a.ack) - Pos(tp.una), Len(tp.sb)), wrote,
                   Pos(a.ack) # Pos(tp.max) /\ (tp.rexmt \/ ~tp.persist), tp.persist, tp.sentfin)
  <2> USE <1>3
  <2>1. /\ tp \in TPs /\ wrote \in Nat
        /\ Books(tp.t_state, Pos(tp.wl2), Pos(tp.una), Pos(tp.nxt), Pos(tp.max), tp.wnd,
                 Len(tp.sb), wrote, tp.rexmt, tp.persist, tp.sentfin)
    BY SideFacts
  <2>2. a \in AckSet /\ Pos(a.ack) <= Pos(tp.max) /\ Pos(tp.una) + tp.wnd <= Edge(a)
    BY DEF Comes
  <2>3. Pos(a.ack) \in Nat /\ a.win \in Nat /\ Edge(a) = Pos(a.ack) + a.win
    BY <2>2, AckFacts
  <2>4. /\ tp.t_state \in States /\ Pos(tp.una) \in Nat /\ Pos(tp.nxt) \in Nat
        /\ Pos(tp.max) \in Nat /\ Pos(tp.wl2) \in Nat /\ tp.wnd \in Nat /\ Len(tp.sb) \in Nat
        /\ tp.rexmt \in BOOLEAN /\ tp.persist \in BOOLEAN /\ tp.sentfin \in BOOLEAN
    BY <2>1, TPFacts DEF States
  <2> HIDE DEF Pos
  <2>5. NewAck(tp.t_state, Pos(tp.wl2), Pos(tp.una), Pos(tp.nxt), Pos(tp.max), tp.wnd, Len(tp.sb),
               wrote, tp.rexmt, tp.persist, tp.sentfin, Pos(a.ack), a.win, L2)
    BY <2>1, <2>2, <2>3, <2>4 DEF NewAck
  <2> QED BY <2>5, <1>1, SMT
(* An acknowledgement that header prediction takes keeps the invariant. *)
<1>4. ASSUME IInv, UNCHANGED <<wrote, rp, read, eof>>, NEW a, Comes(a), NEW c \in Nat \ {0},
             Predicted(a, c), AckPredicted(a, c)
      PROVE  IInv'
  <2> USE <1>4
  <2> DEFINE t == Acked(tp, a)
             A == Pos(a.ack)
             U == Pos(tp.una)
  <2>1. /\ tp \in TPs /\ wrote \in 0 .. Total /\ Len(tp.sb) <= SndHiwat
        /\ \A i \in 1 .. Len(tp.sb) : tp.sb[i] = Pos(tp.una) + i
        /\ Books(tp.t_state, Pos(tp.wl2), Pos(tp.una), Pos(tp.nxt), Pos(tp.max), tp.wnd,
                 Len(tp.sb), wrote, tp.rexmt, tp.persist, tp.sentfin)
    BY SideFacts
  <2>2. a \in AckSet /\ A <= Pos(tp.max) /\ Chain(acks', A, Edge(a), Pos(rp.nxt), Right(rp))
    BY DEF Comes
  <2>3. a.ack \in Numbers /\ A \in Nat /\ Edge(a) = A + a.win
    BY <2>2, AckFacts
  <2>4. /\ tp.una \in Numbers /\ U \in Nat /\ Pos(tp.max) \in Nat /\ Pos(tp.wl2) \in Nat
        /\ tp.wnd \in Nat /\ Len(tp.sb) \in Nat
    BY <2>1, TPFacts
  <2>5. tp.t_state = "ESTABLISHED" /\ tp.nxt = tp.max /\ a.win = tp.wnd /\ U < A
    <3>1. SEQ_GT(a.ack, tp.una) <=> A > U
      BY <2>3, <2>4, SeqPos
    <3>2. tp.t_state = "ESTABLISHED" /\ tp.nxt = tp.max /\ a.win = tp.wnd /\ A > U
      BY <3>1 DEF Predicted
    <3> HIDE DEF A, U
    <3>3. U < A
      BY <2>3, <2>4, <3>2, SMT
    <3> QED BY <3>2, <3>3
  <2>6. /\ AckedIs(tp, a, t) /\ t \in TPs /\ t.t_state = tp.t_state /\ t.nxt = tp.nxt
        /\ t.max = tp.max /\ t.wnd = tp.wnd /\ t.wl2 = tp.wl2
        /\ t.persist = tp.persist /\ t.sentfin = tp.sentfin
    BY <2>1, <2>2, <2>5, <1>2
  <2>7. Pos(tp.wl2) <= A
    <3>1. Pos(tp.wl2) <= U
      BY <2>1 DEF Books
    <3> HIDE DEF A, U, Pos
    <3> QED BY <2>3, <2>4, <2>5, <3>1, SMT
  <2> HIDE DEF t
  <2>8. Sender(t, wrote')
    <3>1. Books("ESTABLISHED", Pos(tp.wl2), A, IF Pos(tp.max) < A THEN A ELSE Pos(tp.max),
                Pos(tp.max), tp.wnd, Len(tp.sb) - Min2(A - U, Len(tp.sb)), wrote,
                A # Pos(tp.max) /\ (tp.rexmt \/ ~tp.persist), tp.persist, tp.sentfin)
      <4>1. Books(IF tp.t_state = "FIN_WAIT_1" /\ Pos(a.ack) - Pos(tp.una) > Len(tp.sb)
                    THEN "FIN_WAIT_2" ELSE tp.t_state,
                  Pos(tp.wl2), Pos(a.ack),
                  IF Pos(tp.nxt) < Pos(a.ack) THEN Pos(a.ack) ELSE Pos(tp.nxt),
                  Pos(tp.max), a.win,
                  Len(tp.sb) - Min2(Pos(a.ack) - Pos(tp.una), Len(tp.sb)), wrote,
                  Pos(a.ack) # Pos(tp.max) /\ (tp.rexmt \/ ~tp.persist), tp.persist, tp.sentfin)
        BY <2>4, <2>5, <2>7, <1>3
      <4>2. (IF tp.t_state = "FIN_WAIT_1" /\ Pos(a.ack) - Pos(tp.una) > Len(tp.sb)
               THEN "FIN_WAIT_2" ELSE tp.t_state) = "ESTABLISHED"
        BY <2>5
      <4> QED BY <2>5, <4>1, <4>2
    <3>2. (IF Pos(tp.max) < A THEN A ELSE Pos(tp.max)) = Pos(tp.max)
      <4> HIDE DEF Pos, A
      <4> QED BY <2>2, <2>3, <2>4, SMT
    <3>3. Books(t.t_state, Pos(t.wl2), Pos(t.una), Pos(t.nxt), Pos(t.max), t.wnd, Len(t.sb), wrote,
                t.rexmt, t.persist, t.sentfin)
      BY <2>5, <2>6, <3>1, <3>2 DEF AckedIs
    <3>4. \A i \in 1 .. Len(t.sb) : t.sb[i] = Pos(t.una) + i
      BY <2>6 DEF AckedIs
    <3> QED BY <2>1, <2>6, <3>3, <3>4 DEF Sender
  <2>9. Len(t.sb) <= SndHiwat
    <3>1. Len(t.sb) = Len(tp.sb) - Min2(A - U, Len(tp.sb))
      BY <2>6 DEF AckedIs
    <3>2. Len(t.sb) \in Nat
      BY <2>6, TPFacts
    <3> HIDE DEF A, U
    <3> QED BY <2>1, <2>3, <2>4, <2>5, <3>1, <3>2, Sizes, SMT DEF Min2
  <2>10. Chain(acks', Pos(t.una), Pos(t.una) + t.wnd, Pos(rp.nxt), Right(rp))
    BY <2>2, <2>3, <2>5, <2>6 DEF AckedIs
  <2>11. Pos(tp.max) <= Pos(t.max)
    BY <2>6, SideFacts
  <2>12. CASE t.sb # <<>>
    <3>1. Outputs(t, FALSE, c)
      BY <2>12 DEF AckPredicted, t
    <3>2. Ready(t, FALSE)
      BY DEF Ready
    <3> QED BY <2>8, <2>9, <2>10, <2>11, <3>1, <3>2, OutputStep
  <2>13. CASE t.sb = <<>>
    <3>1. tp' = t /\ net' = net /\ short' = FALSE
      BY <2>13 DEF AckPredicted, Becomes, IInv, t
    <3>2. Timed(t)
      <4>1. Len(t.sb) = 0
        BY <2>13, EmptySeq
      <4>2. ~(0 > 0)
        BY SMT
      <4> QED BY <2>5, <2>6, <4>1, <4>2 DEF Timed
    <3>3. Side(tp', wrote')
      BY <2>8, <2>9, <3>1, <3>2 DEF Side
    <3>5. /\ Pos(tp.max) <= Pos(tp'.max)
          /\ Chain(acks', Pos(tp'.una), Pos(tp'.una) + tp'.wnd, Pos(rp.nxt), Right(rp))
      BY <2>10, <2>11, <3>1
    <3> QED BY <3>1, <3>3, <3>5, QuietStep
  <2> QED BY <2>12, <2>13
(* The general case of an acknowledgement of something new does. *)
<1>5. ASSUME IInv, UNCHANGED <<wrote, rp, read, eof>>, NEW a, Comes(a), NEW c \in Nat \ {0},
             Pos(tp.una) < Pos(a.ack), NEW needoutput, Step6(AckNew(tp, a), a, needoutput, c)
      PROVE  IInv'
  <2> USE <1>5
  <2> DEFINE u == Acked(tp, a)
             A == Pos(a.ack)
             U == Pos(tp.una)
             N == Pos(tp.nxt)
             cc == Len(tp.sb)
             v == AckNew(tp, a)
             nxt == IF SEQ_LT(tp.nxt, a.ack) THEN a.ack ELSE tp.nxt
             st == IF tp.t_state = "FIN_WAIT_1" /\ A - U > cc THEN "FIN_WAIT_2" ELSE tp.t_state
             t == [v EXCEPT !.wnd = a.win, !.wl2 = a.ack]
  <2>1. /\ tp \in TPs /\ wrote \in 0 .. Total /\ Len(tp.sb) <= SndHiwat
        /\ \A i \in 1 .. Len(tp.sb) : tp.sb[i] = Pos(tp.una) + i
        /\ Books(tp.t_state, Pos(tp.wl2), Pos(tp.una), Pos(tp.nxt), Pos(tp.max), tp.wnd,
                 Len(tp.sb), wrote, tp.rexmt, tp.persist, tp.sentfin)
    BY SideFacts
  <2>2. a \in AckSet /\ A <= Pos(tp.max) /\ Chain(acks', A, Edge(a), Pos(rp.nxt), Right(rp))
    BY DEF Comes
  <2>3. a.ack \in Numbers /\ A \in Nat /\ Edge(a) = A + a.win /\ a.win \in 0 .. RcvHiwat
    BY <2>2, AckFacts
  <2>4. /\ tp.una \in Numbers /\ tp.nxt \in Numbers /\ tp.wl2 \in Numbers
        /\ U \in Nat /\ N \in Nat /\ Pos(tp.max) \in Nat /\ Pos(tp.wl2) \in Nat
        /\ tp.wnd \in Nat /\ cc \in Nat
        /\ tp.t_state \in {"ESTABLISHED", "FIN_WAIT_1", "FIN_WAIT_2"}
    BY <2>1, TPFacts
  <2>6. /\ AckedIs(tp, a, u) /\ u \in TPs /\ u.t_state = tp.t_state /\ u.nxt = tp.nxt
        /\ u.max = tp.max /\ u.wl2 = tp.wl2
        /\ u.persist = tp.persist /\ u.sentfin = tp.sentfin
    BY <2>1, <2>2, <1>2
  <2>7. u.una = a.ack
    BY <2>6 DEF AckedIs
  <2>8. v = [u EXCEPT !.wnd = u.wnd - Min2(A - U, cc), !.nxt = nxt, !.t_state = st]
    <3>1. Diff(a.ack, tp.una) = A - U
      BY <2>3, <2>4, DiffPos
    <3>2. v = [u EXCEPT !.wnd = @ - Min2(A - U, cc),
                        !.nxt = IF SEQ_LT(@, a.ack) THEN a.ack ELSE @,
                        !.t_state = IF @ = "FIN_WAIT_1" /\ A - U > cc THEN "FIN_WAIT_2" ELSE @]
      BY <3>1 DEF AckNew
    <3> HIDE DEF u, v, A, U, cc
    <3> QED BY <2>6, <3>2 DEF TPs
  <2> HIDE DEF u, v, A, U, cc, N
  <2>9. st \in {"ESTABLISHED", "FIN_WAIT_1", "FIN_WAIT_2"}
    BY <2>4
  <2>10. nxt \in Numbers /\ Pos(nxt) = IF N < A THEN A ELSE N
    <3>1. SEQ_LT(tp.nxt, a.ack) <=> N < A
      BY <2>3, <2>4, SeqPos DEF N, A
    <3> QED BY <2>3, <2>4, <3>1 DEF N, A
  <2> HIDE DEF st, nxt
  <2>11. /\ v.t_state = st /\ v.una = u.una /\ v.nxt = nxt /\ v.max = u.max /\ v.wl2 = u.wl2
         /\ v.sb = u.sb /\ v.rexmt = u.rexmt /\ v.persist = u.persist /\ v.sentfin = u.sentfin
    BY <2>6, <2>8 DEF TPs
  <2>12. /\ t \in TPs /\ t.t_state = st /\ t.una = a.ack /\ t.nxt = nxt /\ t.max = tp.max
         /\ t.wl2 = a.ack /\ t.wnd = a.win /\ t.sb = u.sb /\ t.rexmt = u.rexmt
         /\ t.persist = tp.persist /\ t.sentfin = tp.sentfin
    <3> DEFINE x == [u EXCEPT !.wnd = u.wnd - Min2(A - U, cc), !.nxt = nxt, !.t_state = st]
               y == [x EXCEPT !.wnd = a.win, !.wl2 = a.ack]
    <3>1. t = y
      BY <2>8
    <3>2. /\ x.t_state = st /\ x.una = u.una /\ x.nxt = nxt /\ x.max = u.max /\ x.wl2 = u.wl2
          /\ x.sb = u.sb /\ x.rexmt = u.rexmt /\ x.persist = u.persist /\ x.sentfin = u.sentfin
      BY <2>6 DEF TPs
    <3>3. /\ y.t_state = st /\ y.una = u.una /\ y.nxt = nxt /\ y.max = u.max
          /\ y.wl2 = a.ack /\ y.wnd = a.win /\ y.sb = u.sb /\ y.rexmt = u.rexmt
          /\ y.persist = u.persist /\ y.sentfin = u.sentfin
      BY <2>6 DEF TPs
    <3>4. y \in TPs
      BY <2>3, <2>6, <2>9, <2>10 DEF TPs
    <3> HIDE DEF t, x, y
    <3> QED BY <2>6, <2>7, <3>1, <3>3, <3>4
  <2>13. Sender(t, wrote')
    <3>1. A <= A
      BY <2>3, SMT
    <3>2. Books(IF tp.t_state = "FIN_WAIT_1" /\ Pos(a.ack) - Pos(tp.una) > Len(tp.sb)
                  THEN "FIN_WAIT_2" ELSE tp.t_state,
                A, Pos(a.ack), IF Pos(tp.nxt) < Pos(a.ack) THEN Pos(a.ack) ELSE Pos(tp.nxt),
                Pos(tp.max), a.win,
                Len(tp.sb) - Min2(Pos(a.ack) - Pos(tp.una), Len(tp.sb)), wrote,
                Pos(a.ack) # Pos(tp.max) /\ (tp.rexmt \/ ~tp.persist), tp.persist, tp.sentfin)
      <4>1. A <= Pos(a.ack)
        BY <3>1 DEF A
      <4> QED BY <2>3, <4>1, <1>3
    <3>3. Books(st, A, A, Pos(nxt), Pos(tp.max), a.win, Len(u.sb), wrote, u.rexmt, tp.persist,
                tp.sentfin)
      BY <2>6, <2>10, <3>2 DEF AckedIs, st, A, U, N, cc
    <3> HIDE DEF t
    <3>4. Books(t.t_state, Pos(t.wl2), Pos(t.una), Pos(t.nxt), Pos(t.max), t.wnd, Len(t.sb), wrote,
                t.rexmt, t.persist, t.sentfin)
      BY <2>12, <3>3 DEF A
    <3>5. \A i \in 1 .. Len(t.sb) : t.sb[i] = Pos(t.una) + i
      BY <2>6, <2>12 DEF AckedIs
    <3> QED BY <2>1, <2>12, <3>4, <3>5 DEF Sender
  <2>14. Len(t.sb) <= SndHiwat
    <3> HIDE DEF t
    <3>1. Len(t.sb) = cc - Min2(A - U, cc)
      BY <2>6, <2>12 DEF AckedIs, A, U, cc
    <3>2. Len(t.sb) \in Nat /\ cc <= SndHiwat
      BY <2>1, <2>12, TPFacts DEF cc
    <3>3. U < A
      BY DEF U, A
    <3> QED BY <2>3, <2>4, <3>1, <3>2, <3>3, Sizes, SMT DEF Min2
  <2>15. /\ Chain(acks', Pos(t.una), Pos(t.una) + t.wnd, Pos(rp.nxt), Right(rp))
         /\ Pos(tp.max) <= Pos(t.max)
    <3> HIDE DEF t
    <3> QED BY <2>2, <2>3, <2>12, SideFacts DEF A
  <2>16. IsNewWindow(v, a)
    <3>1. Pos(tp.wl2) < A
      <4>1. Pos(tp.wl2) <= U /\ U < A
        BY <2>1 DEF Books, U, A
      <4> HIDE DEF Pos
      <4> QED BY <2>3, <2>4, <4>1, SMT
    <3>2. SEQ_LT(tp.wl2, a.ack)
      BY <2>3, <2>4, <3>1, SeqPos DEF A
    <3> QED BY <2>6, <2>11, <3>2 DEF IsNewWindow
  <2>17. Outputs(t, FALSE, c)
    BY <2>16 DEF Step6, v
  <2>18. Ready(t, FALSE)
    BY DEF Ready
  <2> HIDE DEF t
  <2> QED BY <2>13, <2>14, <2>15, <2>17, <2>18, OutputStep
(* An acknowledgement of nothing new may open the window. *)
<1>6. ASSUME IInv, UNCHANGED <<wrote, rp, read, eof>>, NEW a, Comes(a), NEW c \in Nat \ {0},
             a.ack = tp.una, Step6(tp, a, FALSE, c)
      PROVE  IInv'
  <2> USE <1>6
  <2> DEFINE t == [tp EXCEPT !.wnd = a.win, !.wl2 = a.ack]
             U == Pos(tp.una)
  <2>1. /\ tp \in TPs /\ wrote \in 0 .. Total /\ Len(tp.sb) <= SndHiwat
        /\ \A i \in 1 .. Len(tp.sb) : tp.sb[i] = Pos(tp.una) + i
        /\ Books(tp.t_state, Pos(tp.wl2), Pos(tp.una), Pos(tp.nxt), Pos(tp.max), tp.wnd,
                 Len(tp.sb), wrote, tp.rexmt, tp.persist, tp.sentfin)
        /\ Sender(tp, wrote) /\ Timed(tp) /\ Pos(tp.max) <= Pos(tp.max)
    BY SideFacts
  <2>2. /\ a \in AckSet /\ U + tp.wnd <= Edge(a)
        /\ Chain(acks', U, U + tp.wnd, Pos(rp.nxt), Right(rp))
        /\ Chain(acks', Pos(a.ack), Edge(a), Pos(rp.nxt), Right(rp))
    BY DEF Comes
  <2>3. a.ack \in Numbers /\ Edge(a) = Pos(a.ack) + a.win /\ a.win \in 0 .. RcvHiwat /\ a.win \in Nat
    BY <2>2, AckFacts
  <2>4. /\ U \in Nat /\ Pos(tp.nxt) \in Nat /\ tp.wnd \in Nat
    BY <2>1, TPFacts
  <2>5. CASE IsNewWindow(tp, a)
    <3>1. /\ t \in TPs /\ t.t_state = tp.t_state /\ t.una = tp.una /\ t.nxt = tp.nxt
          /\ t.max = tp.max /\ t.wl2 = tp.una /\ t.wnd = a.win /\ t.sb = tp.sb
          /\ t.rexmt = tp.rexmt /\ t.persist = tp.persist /\ t.sentfin = tp.sentfin
      BY <2>1, <2>3 DEF TPs
    <3>2. Outputs(t, FALSE, c)
      BY <2>5 DEF Step6
    <3> HIDE DEF t
    <3>3. Books(tp.t_state, U, U, Pos(tp.nxt), Pos(tp.max), a.win,
                Len(tp.sb), wrote, tp.rexmt, tp.persist, tp.sentfin)
      <4>1. U + tp.wnd <= U + a.win
        BY <2>2, <2>3
      <4>2. /\ U <= U
            /\ \A x \in Nat : x <= U + tp.wnd => x <= U + a.win
        <5> HIDE DEF U
        <5> QED BY <2>3, <2>4, <4>1, SMT
      <4>3. wrote \in Nat
        BY <2>1, Sizes, SMT
      <4>4. /\ Pos(tp.nxt) <= U + tp.wnd => Pos(tp.nxt) <= U + a.win
            /\ wrote <= U + tp.wnd => wrote <= U + a.win
        BY <2>4, <4>2, <4>3
      <4> HIDE DEF Pos
      <4> QED BY <2>1, <4>2, <4>4 DEF Books
    <3>4. Sender(t, wrote')
      BY <2>1, <3>1, <3>3 DEF Sender
    <3>5. /\ Chain(acks', Pos(t.una), Pos(t.una) + t.wnd, Pos(rp.nxt), Right(rp))
          /\ Pos(tp.max) <= Pos(t.max) /\ Len(t.sb) <= SndHiwat
      BY <2>1, <2>2, <2>3, <3>1
    <3>6. Ready(t, FALSE)
      BY DEF Ready
    <3> QED BY <3>2, <3>4, <3>5, <3>6, OutputStep
  <2>6. CASE ~IsNewWindow(tp, a)
    <3>1. tp' = tp /\ net' = net /\ short' = FALSE
      BY <2>6 DEF Step6, Becomes, IInv
    <3>2. Side(tp', wrote')
      BY <2>1, <3>1 DEF Side
    <3>3. /\ Pos(tp.max) <= Pos(tp'.max)
          /\ Chain(acks', Pos(tp'.una), Pos(tp'.una) + tp'.wnd, Pos(rp.nxt), Right(rp))
      BY <2>1, <2>2, <3>1
    <3> QED BY <3>1, <3>2, <3>3, QuietStep
  <2> QED BY <2>5, <2>6
(* The fast retransmission: tcp_output from the left edge without the      *)
(* retransmit timer starts it again if snd_nxt is to be put back.          *)
<1>7. ASSUME IInv, UNCHANGED <<wrote, rp, read, eof>>, NEW a, Comes(a),
             a.ack = tp.una, FastRetransmit(a)
      PROVE  IInv'
  <2> USE <1>7
  <2> DEFINE t == [tp EXCEPT !.rexmt = FALSE, !.nxt = a.ack]
             o == Output(t, FALSE, MaxSeg, 0)
             v == o.tp
             n == IF SEQ_GT(tp.nxt, v.nxt) THEN tp.nxt ELSE v.nxt
             x == [v EXCEPT !.nxt = n]
             U == Pos(tp.una)
             N == Pos(tp.nxt)
             M == Pos(tp.max)
             cc == Len(tp.sb)
             wnd == tp.wnd
  <2>1. /\ tp \in TPs /\ wrote \in 0 .. Total /\ wrote \in Nat /\ Len(tp.sb) <= SndHiwat
        /\ \A i \in 1 .. Len(tp.sb) : tp.sb[i] = Pos(tp.una) + i
        /\ Books(tp.t_state, Pos(tp.wl2), U, N, M, wnd, cc, wrote, tp.rexmt, tp.persist, tp.sentfin)
    BY SideFacts
  <2>2. Chain(acks', U, U + tp.wnd, Pos(rp.nxt), Right(rp))
    BY DEF Comes
  <2>3. /\ tp.una \in Numbers /\ tp.nxt \in Numbers /\ tp.persist \in BOOLEAN
        /\ U \in Nat /\ N \in Nat /\ M \in Nat /\ wnd \in Nat /\ cc \in Nat
        /\ tp.t_state \in {"ESTABLISHED", "FIN_WAIT_1", "FIN_WAIT_2"}
    BY <2>1, TPFacts
  <2>4. /\ t \in TPs /\ t.t_state = tp.t_state /\ t.una = tp.una /\ t.nxt = tp.una
        /\ t.max = tp.max /\ t.wl2 = tp.wl2 /\ t.wnd = tp.wnd /\ t.sb = tp.sb
        /\ t.rexmt = FALSE /\ t.persist = tp.persist /\ t.sentfin = tp.sentfin
    BY <2>1, <2>3 DEF TPs
  <2>5. /\ U <= N /\ N <= M
        /\ (tp.t_state = "FIN_WAIT_2" => cc = 0 /\ U = wrote + 1)
        /\ (tp.t_state # "FIN_WAIT_2" => U + cc = wrote)
        /\ (tp.sentfin => M = wrote + 1 /\ tp.t_state # "ESTABLISHED") /\ (~tp.sentfin => M <= wrote)
        /\ (N <= U + wnd \/ (N = wrote + 1 /\ wrote <= U + wnd))
    BY <2>1 DEF Books
  <2> HIDE DEF t
  <2>6. Sender(t, wrote)
    <3>1. U <= U /\ U <= M /\ U <= U + wnd
      <4> HIDE DEF U, M, N, wnd
      <4> QED BY <2>3, <2>5, SMT
    <3>2. Books(tp.t_state, Pos(tp.wl2), U, U, M, wnd, cc, wrote, FALSE, tp.persist, tp.sentfin)
      <4> HIDE DEF U, N, M, wnd, cc
      <4> QED BY <2>1, <3>1 DEF Books
    <3> QED BY <2>1, <2>4, <3>2 DEF Sender
  <2>7. OutputIs(t, wrote, FALSE, o)
    <3>1. MaxSeg \in Nat \ {0} /\ Ready(t, FALSE)
      BY SizesAssumption DEF Ready
    <3> QED BY <2>6, <3>1, OutputKeeps
  <2> HIDE DEF o
  <2>8. v \in TPs /\ o.nombuf = FALSE /\ o.out \in Seq(Pieces) /\ Sender(v, wrote) /\ Keeps(v, t)
        /\ AllGoOut(o.out, v) /\ Timely(v, FALSE)
    BY <2>7 DEF OutputIs
  <2>9. /\ v.una = tp.una /\ v.wnd = tp.wnd /\ v.wl2 = tp.wl2 /\ v.sb = tp.sb
        /\ v.t_state = tp.t_state /\ M <= Pos(v.max)
    BY <2>4, <2>8 DEF Keeps
  <2>10. tp' = [v EXCEPT !.nxt = IF SEQ_GT(tp.nxt, @) THEN tp.nxt ELSE @]
         /\ net' = Carry(net, o.out) /\ short' = FALSE
    BY <2>8 DEF FastRetransmit, Becomes, IInv, o, t
  <2> HIDE DEF v
  <2>11. tp' = x
    BY <2>8, <2>10 DEF TPs
  <2>12. v.nxt \in Numbers /\ Pos(v.nxt) \in Nat /\ Pos(v.max) \in Nat
    BY <2>8, TPFacts
  <2>13. n \in Numbers /\ Pos(n) = IF N > Pos(v.nxt) THEN N ELSE Pos(v.nxt)
    <3>1. SEQ_GT(tp.nxt, v.nxt) <=> N > Pos(v.nxt)
      BY <2>3, <2>12, SeqPos
    <3> QED BY <2>3, <2>12, <3>1
  <2> HIDE DEF n
  <2>14. /\ x \in TPs /\ x.t_state = v.t_state /\ x.una = v.una /\ x.nxt = n
         /\ x.max = v.max /\ x.wl2 = v.wl2 /\ x.wnd = v.wnd /\ x.sb = v.sb
         /\ x.rexmt = v.rexmt /\ x.persist = v.persist /\ x.sentfin = v.sentfin
    BY <2>8, <2>13 DEF TPs
  <2> HIDE DEF x
  <2>15. /\ Books(tp.t_state, Pos(tp.wl2), U, Pos(v.nxt), Pos(v.max), wnd, cc, wrote, v.rexmt,
                  v.persist, v.sentfin)
    BY <2>8, <2>9 DEF Sender
  <2>16. N > Pos(v.nxt) => v.rexmt
    <3> SUFFICES ASSUME N > Pos(v.nxt) PROVE v.rexmt
      OBVIOUS
    <3>1. U <= Pos(v.nxt)
      BY <2>15 DEF Books
    <3>2. U < M /\ U < N
      <4> HIDE DEF U, M, N, Pos
      <4> QED BY <2>3, <2>5, <2>12, <3>1, SMT
    <3>3. CASE cc = 0
      <4>1. tp.t_state = "FIN_WAIT_1"
        <5>1. tp.t_state # "FIN_WAIT_2"
          <6> SUFFICES ASSUME tp.t_state = "FIN_WAIT_2" PROVE FALSE
            OBVIOUS
          <6>1. U = wrote + 1 /\ (M = wrote + 1 \/ M <= wrote)
            BY <2>5
          <6> HIDE DEF U, M
          <6> QED BY <2>1, <2>3, <3>2, <6>1, SMT
        <5>2. tp.t_state # "ESTABLISHED"
          <6> SUFFICES ASSUME tp.t_state = "ESTABLISHED" PROVE FALSE
            OBVIOUS
          <6>1. U + cc = wrote /\ M <= wrote
            BY <2>5, <5>1
          <6> HIDE DEF U, M, cc
          <6> QED BY <2>1, <2>3, <3>2, <3>3, <6>1, SMT
        <5> QED BY <2>3, <5>1, <5>2
      <4> QED BY <2>8, <2>9, <3>3, <4>1 DEF Timely, Timed
    <3>4. CASE cc # 0
      <4>1. U + cc = wrote
        BY <2>5, <3>4
      <4>2. wnd > 0 /\ cc > 0
        <5> HIDE DEF U, M, N, wnd, cc
        <5> QED BY <2>1, <2>3, <2>5, <3>2, <3>4, <4>1, SMT
      <4>3. U < Pos(v.max)
        <5> HIDE DEF U, M, Pos
        <5> QED BY <2>3, <2>9, <2>12, <3>2, SMT
      <4> QED BY <2>8, <2>9, <4>2, <4>3 DEF Timely
    <3> QED BY <3>3, <3>4
  <2>17. Books(tp.t_state, Pos(tp.wl2), U, Pos(n), Pos(v.max), wnd, cc, wrote, v.rexmt,
               v.persist, v.sentfin)
    <3>1. CASE N > Pos(v.nxt)
      <4>1. Pos(n) = N /\ v.rexmt
        BY <2>13, <2>16, <3>1
      <4>2. N <= Pos(v.max)
        <5> HIDE DEF M, N, Pos
        <5> QED BY <2>3, <2>5, <2>9, <2>12, SMT
      <4> HIDE DEF U, N, M, Pos, cc, wnd
      <4> QED BY <2>5, <2>15, <4>1, <4>2 DEF Books
    <3>2. CASE ~(N > Pos(v.nxt))
      BY <2>13, <2>15, <3>2
    <3> QED BY <3>1, <3>2
  <2>18. Side(tp', wrote')
    <3>1. Sender(x, wrote)
      <4>1. Books(x.t_state, Pos(x.wl2), Pos(x.una), Pos(x.nxt), Pos(x.max), x.wnd, Len(x.sb),
                  wrote, x.rexmt, x.persist, x.sentfin)
        BY <2>9, <2>14, <2>17
      <4> QED BY <2>1, <2>9, <2>14, <4>1 DEF Sender
    <3>2. Timed(x)
      BY <2>8, <2>14 DEF Timely, Timed
    <3> QED BY <2>1, <2>9, <2>11, <2>14, <3>1, <3>2 DEF Side
  <2>19. AllGoOut(o.out, tp')
    BY <2>8, <2>11, <2>14 DEF AllGoOut, GoesOut
  <2>20. /\ Pos(tp.max) <= Pos(tp'.max)
         /\ Chain(acks', Pos(tp'.una), Pos(tp'.una) + tp'.wnd, Pos(rp.nxt), Right(rp))
    BY <2>2, <2>9, <2>11, <2>14
  <2> QED BY <2>8, <2>10, <2>18, <2>19, <2>20, SenderStep
(* Any acknowledgement that comes in order does. *)
<1>8. ASSUME IInv, UNCHANGED <<wrote, rp, read, eof>>, NEW a, Comes(a), NEW c \in Nat \ {0},
             AckInput(a, c)
      PROVE  IInv'
  <2> USE <1>8
  <2>1. a \in AckSet /\ Pos(tp.una) <= Pos(a.ack) /\ Pos(a.ack) <= Pos(tp.max)
    BY DEF Comes
  <2>2. a.ack \in Numbers /\ tp.una \in Numbers /\ tp.max \in Numbers
        /\ Pos(a.ack) \in Nat /\ Pos(tp.una) \in Nat /\ Pos(tp.max) \in Nat
    BY <2>1, AckFacts, SideFacts, TPFacts
  <2>3. CASE Predicted(a, c)
    <3>1. AckPredicted(a, c)
      BY <2>3 DEF AckInput
    <3> QED BY <2>3, <3>1, <1>4
  <2>4. CASE ~Predicted(a, c) /\ SEQ_LEQ(a.ack, tp.una)
    <3>1. a.ack = tp.una
      <4>1. Pos(a.ack) <= Pos(tp.una)
        BY <2>2, <2>4, SeqPos
      <4>2. Pos(a.ack) = Pos(tp.una)
        <5> HIDE DEF Pos
        <5> QED BY <2>1, <2>2, <4>1, SMT
      <4> QED BY <2>2, <4>2, SamePlace
    <3>2. \/ FastRetransmit(a)
          \/ Outputs(tp, FALSE, c)
          \/ Step6(tp, a, FALSE, c)
      BY <2>4 DEF AckInput
    <3>3. CASE FastRetransmit(a)
      BY <3>1, <3>3, <1>7
    <3>4. CASE Outputs(tp, FALSE, c)
      <4>1. /\ Sender(tp, wrote') /\ Len(tp.sb) <= SndHiwat /\ Pos(tp.max) <= Pos(tp.max)
            /\ Chain(acks', Pos(tp.una), Pos(tp.una) + tp.wnd, Pos(rp.nxt), Right(rp))
        BY SideFacts DEF Comes
      <4>2. Ready(tp, FALSE)
        BY DEF Ready
      <4> QED BY <3>4, <4>1, <4>2, OutputStep
    <3>5. CASE Step6(tp, a, FALSE, c)
      BY <3>1, <3>5, <1>6
    <3> QED BY <3>2, <3>3, <3>4, <3>5
  <2>5. CASE ~Predicted(a, c) /\ ~SEQ_LEQ(a.ack, tp.una)
    <3>1. Pos(tp.una) < Pos(a.ack)
      <4>1. ~(Pos(a.ack) <= Pos(tp.una))
        BY <2>2, <2>5, SeqPos
      <4> HIDE DEF Pos
      <4> QED BY <2>1, <2>2, <4>1, SMT
    <3>2. ~SEQ_GT(a.ack, tp.max)
      <4>1. ~(Pos(a.ack) > Pos(tp.max))
        <5> HIDE DEF Pos
        <5> QED BY <2>1, <2>2, SMT
      <4> QED BY <2>2, <4>1, SeqPos
    <3>3. Step6(AckNew(tp, a), a, a.ack = tp.max, c)
      BY <2>5, <3>2 DEF AckInput
    <3> QED BY <3>1, <3>3, <1>5
  <2> QED BY <2>3, <2>4, <2>5
<1> QED
  <2> HAVE AcksInOrder /\ IInv /\ DeliverAck
  <2>1. PICK i \in 1 .. Len(acks), c \in Cwnds :
          /\ AcksInOrder => i = 1
          /\ UNCHANGED <<wrote, rp, read, eof>>
          /\ acks' = SubSeq(acks, 1, i - 1) \o SubSeq(acks, i + 1, Len(acks))
          /\ AckInput(acks[i], c)
    BY DEF DeliverAck
  <2>2. i = 1
    BY <2>1
  <2>3. acks \in Seq(AckSet)
    BY SideFacts DEF Chain
  <2>4. Len(acks) \in Nat
    BY <2>3, LenProperties
  <2> DEFINE l == Len(acks)
             b == SubSeq(acks, 2, l)
             z == SubSeq(acks, 1, 0)
  <2>5. /\ 1 \in Nat /\ 0 \in Nat /\ 2 \in Nat /\ 1 <= 1 /\ 0 <= l /\ 1 <= 0 + 1
        /\ 1 <= 2 /\ l <= l /\ 2 <= l + 1 /\ (0 + 1) - 1 = 0 /\ (l + 1) - 2 = l - 1 /\ l # 0
    BY <2>2, <2>4, SMT
  <2>6. l \in Nat /\ l <= Len(acks) /\ 0 <= Len(acks)
    BY <2>4, <2>5
  <2>7. z = <<>>
    <3>1. z \in Seq(AckSet)
      BY <2>3, <2>5, <2>6, Part
    <3>2. Len(z) = (0 + 1) - 1
      BY <2>3, <2>5, <2>6, Part, SMT
    <3>3. z # <<>> => Len(z) \in Nat \ {0}
      BY <3>1, EmptySeq
    <3> QED BY <2>5, <3>2, <3>3
  <2> HIDE DEF l
  <2>8. b \in Seq(AckSet)
    BY <2>3, <2>5, <2>6, Part
  <2>9. Len(b) = (l + 1) - 2
    BY <2>3, <2>5, <2>6, Part, SMT
  <2>10. \A k \in 1 .. (l + 1) - 2 : b[k] = acks[(2 - 1) + k]
    BY <2>3, <2>5, <2>6, Part, SMT
  <2> HIDE DEF b, z
  <2>11. \A k \in 1 .. Len(b) : b[k] = acks[k + 1]
    <3>1. \A k \in 1 .. Len(b) : k \in 1 .. (l + 1) - 2 /\ (2 - 1) + k = k + 1
      BY <2>6, <2>9, SMT
    <3> QED BY <2>10, <3>1
  <2>12. acks' = b
    <3>1. 1 - 1 = 0 /\ 1 + 1 = 2
      BY SMT
    <3>2. acks' = z \o b
      BY <2>1, <2>2, <3>1 DEF z, b, l
    <3> QED BY <2>7, <2>8, <3>2, ConcatEmptySeq
  <2>13. acks # <<>> /\ Len(b) = Len(acks) - 1
    BY <2>5, <2>9, EmptySeq DEF l
  <2>14. Comes(acks[1])
    BY <2>8, <2>11, <2>12, <2>13, FirstComes
  <2>15. c \in Nat \ {0}
    BY SizesAssumption
  <2> QED BY <2>1, <2>2, <2>14, <2>15, <1>8

(* One that is lost. *)
LEMMA LoseAckStep ==
  ASSUME WellOrdered, IInv, LoseAck
  PROVE  IInv'
<1>1. acks # <<>> /\ acks' = Tail(acks) /\ UNCHANGED <<tp, wrote, rp, read, eof, net>>
      /\ short' = FALSE
  BY DEF LoseAck, IInv
<1>2. /\ acks \in Seq(AckSet) /\ Sender(tp, wrote) /\ Timed(tp) /\ Len(tp.sb) <= SndHiwat
      /\ Pos(tp.max) <= Pos(tp.max)
  BY SideFacts DEF Chain
<1>3. /\ Tail(acks) \in Seq(AckSet) /\ Len(Tail(acks)) = Len(acks) - 1
      /\ \A i \in 1 .. Len(Tail(acks)) : Tail(acks)[i] = acks[i + 1]
  BY <1>1, <1>2, TailProperties
<1>4. Comes(acks[1])
  BY <1>1, <1>3, FirstComes
<1>5. Chain(acks', Pos(tp.una), Pos(tp.una) + tp.wnd, Pos(rp.nxt), Right(rp))
  BY <1>4 DEF Comes
<1>6. Side(tp', wrote')
  BY <1>1, <1>2 DEF Side
<1>7. Pos(tp.max) <= Pos(tp'.max) /\ net' = net
  BY <1>1, <1>2
<1>8. Chain(acks', Pos(tp'.una), Pos(tp'.una) + tp'.wnd, Pos(rp.nxt), Right(rp))
  BY <1>1, <1>5
<1>9. UNCHANGED <<rp, read, eof>>
  BY <1>1
<1> QED BY <1>1, <1>6, <1>7, <1>8, <1>9, QuietStep

(* A step of B's or of the network: what is to be shown of it. *)
LEMMA ReceiverStep ==
  ASSUME IInv, UNCHANGED <<tp, wrote, short>>, eof' \in BOOLEAN, net' \subseteq net,
         Heard(rp', read', acks', Pos(tp.max), Pos(tp.una), Pos(tp.una) + tp.wnd),
         Right(rp) <= Right(rp')
  PROVE  IInv'
<1>1. /\ Side(tp, wrote) /\ Receiver(rp, read, Pos(tp.max)) /\ Wire(net, rp, Pos(tp.max))
  BY DEF IInv
<1>2. /\ Receiver(rp', read', Pos(tp.max))
      /\ Chain(acks', Pos(tp.una), Pos(tp.una) + tp.wnd, Pos(rp'.nxt), Right(rp'))
  BY DEF Heard
<1>3. rp \in RPs /\ rp' \in RPs /\ Pos(tp.max) \in Nat
  BY <1>1, <1>2, ReceiverFacts
<1>4. Wire(net', rp, Pos(tp.max))
  BY <1>1 DEF Wire
<1>5. Pos(tp.max) <= Pos(tp.max)
  BY SideFacts
<1>6. Wire(net', rp', Pos(tp.max))
  <2> HIDE DEF Pos, Right
  <2> QED BY <1>3, <1>4, <1>5, WireMore
<1>7. Pos(tp.max)' = Pos(tp.max) /\ Pos(tp.una)' = Pos(tp.una) /\ (tp.wnd)' = tp.wnd
      /\ short' = FALSE
  BY DEF IInv
<1> QED BY <1>1, <1>2, <1>6, <1>7 DEF IInv

(* What the invariant says of B. *)
LEMMA HeardNow ==
  ASSUME IInv
  PROVE  /\ Heard(rp, read, acks, Pos(tp.max), Pos(tp.una), Pos(tp.una) + tp.wnd)
         /\ Right(rp) <= Right(rp) /\ eof \in BOOLEAN /\ rp \in RPs
<1>1. Sender(tp, wrote) /\ Receiver(rp, read, Pos(tp.max))
  BY DEF IInv, Side
<1>2. Pos(tp.una) \in Nat /\ Pos(tp.una) + tp.wnd \in Nat
  BY <1>1, SenderPlaces
<1>3. rp \in RPs
  BY <1>1, ReceiverFacts
<1>4. Right(rp) \in Nat
  BY <1>3, RPFacts
<1>5. Right(rp) <= Right(rp)
  <2> HIDE DEF Right
  <2> QED BY <1>4, SMT
<1> QED BY <1>1, <1>2, <1>3, <1>5 DEF IInv, Heard

(* A segment delivered, and the network may keep a copy. *)
LEMMA DeliverStep ==
  ASSUME WellOrdered, IInv, NEW ti \in net, UNCHANGED <<tp, wrote, read, eof, short>>,
         net' \subseteq net, NEW mbuf \in BOOLEAN, DataInput(ti, mbuf)
  PROVE  IInv' /\ Right(rp) <= Right(rp')
<1>1. Heard(rp, read, acks, Pos(tp.max), Pos(tp.una), Pos(tp.una) + tp.wnd) /\ eof \in BOOLEAN
  BY HeardNow
<1>2. ti \in Pieces /\ Reach(ti) <= Pos(tp.max) /\ (ti.fin => Stop(ti) <= Right(rp))
  BY DEF IInv, Wire
<1>3. Answers(Pos(tp.max), Pos(tp.una), Pos(tp.una) + tp.wnd)
  BY <1>1, <1>2, DataInputAnswers
<1>4. /\ Heard(rp', read', acks', Pos(tp.max), Pos(tp.una), Pos(tp.una) + tp.wnd)
      /\ Right(rp) <= Right(rp')
  BY <1>3 DEF Answers
<1> QED BY <1>1, <1>4, ReceiverStep

(* tcp_fasttimo. *)
LEMMA FastTimoStep ==
  ASSUME IInv, NEW mbuf \in BOOLEAN, FastTimo(mbuf)
  PROVE  IInv' /\ Right(rp) <= Right(rp')
<1> DEFINE s == [rp EXCEPT !.delack = FALSE]
           m == Pos(tp.max)
           u == Pos(tp.una)
           e == Pos(tp.una) + tp.wnd
<1>1. Heard(rp, read, acks, m, u, e) /\ eof \in BOOLEAN /\ rp \in RPs /\ Right(rp) <= Right(rp)
  BY HeardNow
<1>2. UNCHANGED <<tp, wrote, read, eof, net, short>> /\ Acknowledge(s, TRUE, mbuf)
  BY DEF FastTimo
<1>3. /\ s \in RPs /\ s.t_state = rp.t_state /\ s.nxt = rp.nxt /\ s.adv = rp.adv
      /\ s.q = rp.q /\ s.sb = rp.sb
  BY <1>1 DEF RPs
<1> HIDE DEF s
<1>4. Right(s) = Right(rp)
  BY <1>3 DEF Right
<1>5. Receiver(rp, read, m) => Receiver(s, read, m)
  BY <1>1, <1>3 DEF Receiver, InOrder, GotFin
<1> HIDE DEF m, u, e
<1>6. Heard(s, read, acks, m, u, e)
  BY <1>1, <1>3, <1>4, <1>5 DEF Heard
<1>7. Answers(m, u, e)
  BY <1>1, <1>2, <1>4, <1>6, AnswersGo
<1>8. Heard(rp', read, acks', m, u, e) /\ Right(rp) <= Right(rp')
  BY <1>7 DEF Answers
<1>9. net' \subseteq net /\ eof' \in BOOLEAN /\ read' = read
  BY <1>1, <1>2
<1> QED BY <1>2, <1>8, <1>9, ReceiverStep DEF m, u, e

(* The reader takes n bytes. *)
LEMMA ReadStep ==
  ASSUME IInv, NEW n \in 1 .. RcvHiwat, NEW mbuf \in BOOLEAN, Read(n, mbuf)
  PROVE  IInv' /\ Right(rp) <= Right(rp')
<1>1. Heard(rp, read, acks, Pos(tp.max), Pos(tp.una), Pos(tp.una) + tp.wnd) /\ eof \in BOOLEAN
  BY HeardNow
<1>2. UNCHANGED <<tp, wrote, eof, net, short>>
  BY DEF Read
<1>3. n \in Nat
  BY Sizes, SMT
<1>4. /\ Heard(rp', read', acks', Pos(tp.max), Pos(tp.una), Pos(tp.una) + tp.wnd)
      /\ Right(rp) <= Right(rp')
  BY <1>1, <1>3, ReadAnswers
<1>5. net' \subseteq net /\ eof' \in BOOLEAN
  BY <1>1, <1>2
<1> QED BY <1>2, <1>4, <1>5, ReceiverStep

(* Neither end does anything. *)
LEMMA IdleStep ==
  ASSUME IInv, UNCHANGED <<tp, wrote, rp, read, acks, short>>, eof' \in BOOLEAN, net' \subseteq net
  PROVE  IInv'
<1>1. /\ Heard(rp, read, acks, Pos(tp.max), Pos(tp.una), Pos(tp.una) + tp.wnd)
      /\ Right(rp) <= Right(rp)
  BY HeardNow
<1>2. /\ Heard(rp', read', acks', Pos(tp.max), Pos(tp.una), Pos(tp.una) + tp.wnd)
      /\ Right(rp) <= Right(rp')
  BY <1>1
<1> QED BY <1>2, ReceiverStep

(* Every step keeps the invariant, and the right edge of the window B has  *)
(* offered does not move left.                                             *)
LEMMA NextKeeps ==
  ASSUME WellOrdered, AcksInOrder, Shortages = {0}, IInv, [Next]_vars
  PROVE  IInv' /\ Right(rp) <= Right(rp')
<1>0. AckMbufs \subseteq BOOLEAN
  BY SizesAssumption
<1>1. eof \in BOOLEAN /\ Right(rp) <= Right(rp)
  BY HeardNow
<1>2. ASSUME NEW n \in Writes, Write(n) PROVE IInv' /\ rp' = rp
  BY <1>2, WriteStep DEF Write
<1>3. CASE Shutdown
  BY <1>1, <1>3, ShutdownStep DEF Shutdown
<1>4. CASE RexmtTimeout(0)
  BY <1>1, <1>4, RexmtStep DEF RexmtTimeout
<1>5. CASE PersistTimeout(0)
  BY <1>1, <1>5, PersistStep DEF PersistTimeout
<1>6. CASE DeliverAck
  <2>1. rp' = rp
    BY <1>6 DEF DeliverAck
  <2> QED BY <1>1, <1>6, <2>1, DeliverAckStep
<1>7. ASSUME NEW ti \in net, NEW mbuf \in AckMbufs, DeliverData(ti, mbuf)
      PROVE  IInv' /\ Right(rp) <= Right(rp')
  <2>1. net' \subseteq net /\ UNCHANGED <<tp, wrote, read, eof, short>> /\ DataInput(ti, mbuf)
    BY <1>7 DEF DeliverData
  <2> QED BY <1>0, <2>1, DeliverStep
<1>8. ASSUME NEW ti \in net, NEW mbuf \in AckMbufs, DeliverCopy(ti, mbuf)
      PROVE  IInv' /\ Right(rp) <= Right(rp')
  <2>1. net' \subseteq net /\ UNCHANGED <<tp, wrote, read, eof, short>> /\ DataInput(ti, mbuf)
    BY <1>8 DEF DeliverCopy
  <2> QED BY <1>0, <2>1, DeliverStep
<1>9. ASSUME NEW ti \in net, LoseData(ti) PROVE IInv' /\ Right(rp) <= Right(rp')
  <2>1. net' \subseteq net /\ UNCHANGED <<tp, wrote, rp, read, acks, short>> /\ eof' \in BOOLEAN
    BY <1>1, <1>9 DEF LoseData
  <2> QED BY <1>1, <2>1, IdleStep
<1>10. CASE LoseAck
  BY <1>1, <1>10, LoseAckStep DEF LoseAck
<1>11. ASSUME NEW mbuf \in AckMbufs, FastTimo(mbuf) PROVE IInv' /\ Right(rp) <= Right(rp')
  BY <1>0, <1>11, FastTimoStep
<1>12. ASSUME NEW n \in 1 .. RcvHiwat, NEW mbuf \in AckMbufs, Read(n, mbuf)
       PROVE  IInv' /\ Right(rp) <= Right(rp')
  BY <1>0, <1>12, ReadStep
<1>13. CASE ReadEof
  <2>1. net' \subseteq net /\ UNCHANGED <<tp, wrote, rp, read, acks, short>> /\ eof' \in BOOLEAN
    BY <1>13 DEF ReadEof
  <2> QED BY <1>1, <2>1, IdleStep
<1>14. CASE UNCHANGED vars
  <2>1. net' \subseteq net /\ UNCHANGED <<tp, wrote, rp, read, acks, short>> /\ eof' \in BOOLEAN
    BY <1>1, <1>14 DEF vars
  <2> QED BY <1>1, <2>1, IdleStep
<1> QED BY <1>1, <1>2, <1>3, <1>4, <1>5, <1>6, <1>7, <1>8, <1>9, <1>10, <1>11, <1>12, <1>13, <1>14
        DEF Next

(* The connection as it is established. *)
LEMMA InitKeeps ==
  ASSUME Init
  PROVE  IInv
<1>1. /\ tp = [t_state |-> "ESTABLISHED", una |-> Iss, nxt |-> Iss, max |-> Iss,
               wnd |-> RcvHiwat, wl2 |-> Iss, sb |-> <<>>,
               rexmt |-> FALSE, persist |-> FALSE, sentfin |-> FALSE]
      /\ rp = [t_state |-> "ESTABLISHED", nxt |-> Iss, adv |-> Add(Iss, RcvHiwat),
               q |-> <<>>, sb |-> <<>>, delack |-> FALSE, acknow |-> FALSE]
      /\ wrote = 0 /\ read = <<>> /\ eof = FALSE /\ net = {} /\ acks = <<>>
      /\ short = FALSE
  BY DEF Init
<1>2. Iss \in Numbers /\ Pos(Iss) = 0
  BY IssIsFirst, PosAdd
<1>3. /\ RcvHiwat \in 0 .. Horizon /\ RcvHiwat \in 0 .. RcvHiwat /\ 0 \in 0 .. Total
      /\ 0 \in 0 .. Total + 1
      /\ 0 + 0 = 0 /\ 0 <= 0 /\ 0 + RcvHiwat = RcvHiwat /\ 0 <= RcvHiwat /\ 0 <= SndHiwat
      /\ 0 <= 0 + RcvHiwat /\ 0 + 0 + 0 = 0 /\ 0 + 0 <= Total /\ RcvHiwat <= 0 + RcvHiwat + 0
      /\ Max2(RcvHiwat, 0) = RcvHiwat /\ RcvHiwat <= RcvHiwat /\ ~(0 > 0) /\ 1 .. 0 = {}
  <2> HIDE DEF Horizon
  <2> QED BY Sizes, SMT DEF Max2
<1>4. Add(Iss, RcvHiwat) \in Numbers /\ Pos(Add(Iss, RcvHiwat)) = RcvHiwat
  BY <1>3, PosAdd
<1>5. /\ <<>> \in Seq(1 .. Total) /\ <<>> \in Seq(Pieces) /\ <<>> \in Seq(AckSet) /\ Len(<<>>) = 0
  BY EmptySeq
<1>6. /\ tp \in TPs /\ tp.t_state = "ESTABLISHED" /\ tp.una = Iss /\ tp.nxt = Iss /\ tp.max = Iss
      /\ tp.wnd = RcvHiwat /\ tp.wl2 = Iss /\ tp.sb = <<>> /\ tp.rexmt = FALSE
      /\ tp.persist = FALSE /\ tp.sentfin = FALSE
  BY <1>1, <1>2, <1>3, <1>5 DEF TPs
<1>7. /\ rp \in RPs /\ rp.t_state = "ESTABLISHED" /\ rp.nxt = Iss /\ rp.adv = Add(Iss, RcvHiwat)
      /\ rp.q = <<>> /\ rp.sb = <<>>
  BY <1>1, <1>2, <1>4, <1>5 DEF RPs
<1>8. Books("ESTABLISHED", 0, 0, 0, 0, RcvHiwat, 0, 0, FALSE, FALSE, FALSE)
  BY <1>3 DEF Books
<1>9. Side(tp, wrote)
  BY <1>1, <1>2, <1>3, <1>5, <1>6, <1>8 DEF Side, Sender, Timed
<1>10. GotFin(rp) = 0 /\ InOrder(rp, read)
  BY <1>1, <1>3, <1>5, <1>7 DEF GotFin, InOrder
<1>11. Marks("ESTABLISHED", 0, RcvHiwat, 0, 0, 0)
  BY <1>3 DEF Marks
<1>12. Ordered(<<>>, 0 + 1, 0 + RcvHiwat, 0)
  BY <1>3, <1>5 DEF Ordered
<1>13. Receiver(rp, read, Pos(tp.max))
  BY <1>1, <1>2, <1>3, <1>4, <1>5, <1>6, <1>7, <1>10, <1>11, <1>12 DEF Receiver
<1>14. Wire(net, rp, Pos(tp.max))
  BY <1>1 DEF Wire
<1>15. Right(rp) = RcvHiwat
  BY <1>2, <1>3, <1>4, <1>7 DEF Right
<1>16. Chain(<<>>, 0, 0 + RcvHiwat, 0, RcvHiwat)
  BY <1>3, <1>5 DEF Chain
<1> QED BY <1>1, <1>2, <1>6, <1>7, <1>9, <1>13, <1>14, <1>15, <1>16 DEF IInv

(* The invariant gives the types. *)
LEMMA InvTypes ==
  ASSUME IInv
  PROVE  TypeOK
<1>1. /\ tp \in TPs /\ Len(tp.sb) <= SndHiwat /\ wrote \in 0 .. Total
      /\ acks \in Seq(AckSet)
  BY SideFacts DEF Chain
<1>2. /\ Receiver(rp, read, Pos(tp.max)) /\ Wire(net, rp, Pos(tp.max)) /\ eof \in BOOLEAN
      /\ short \in BOOLEAN
  BY DEF IInv
<1>3. rp \in RPs /\ read \in Seq(1 .. Total) /\ Len(rp.sb) <= RcvHiwat
  BY <1>2, ReceiverFacts DEF Marks
<1>4. Numbers \subseteq 0 .. SeqMod - 1
  BY NumberIsPlace
<1>5. AckSet \subseteq Acks
  BY <1>4 DEF AckSet, Acks
<1>6. acks \in Seq(Acks)
  BY <1>1, <1>5, SeqMonotonic
<1>7. Pieces \subseteq Segments
  BY PieceIsSegment
<1>8. \A q \in Seq(Pieces) : q \in Seq(Segments)
  BY <1>7, SeqMonotonic
<1>9. net \subseteq Segments
  BY <1>2, <1>7 DEF Wire
<1>10. tp \in [t_state : {"ESTABLISHED", "FIN_WAIT_1", "FIN_WAIT_2"},
               una : 0 .. SeqMod - 1, nxt : 0 .. SeqMod - 1, max : 0 .. SeqMod - 1,
               wnd : 0 .. RcvHiwat, wl2 : 0 .. SeqMod - 1, sb : Seq(1 .. Total),
               rexmt : BOOLEAN, persist : BOOLEAN, sentfin : BOOLEAN]
  BY <1>1, <1>4 DEF TPs
<1>11. rp \in [t_state : {"ESTABLISHED", "CLOSE_WAIT"}, nxt : 0 .. SeqMod - 1,
               adv : 0 .. SeqMod - 1, q : Seq(Segments), sb : Seq(1 .. Total),
               delack : BOOLEAN, acknow : BOOLEAN]
  BY <1>3, <1>4, <1>8 DEF RPs
<1> QED BY <1>1, <1>2, <1>3, <1>6, <1>9, <1>10, <1>11 DEF TypeOK, sb_cc

(* What B has is the stream. *)
LEMMA InvStream ==
  ASSUME IInv
  PROVE  StreamIsIntact
<1> DEFINE d == read
           c == rp.sb
           D == Len(read)
<1>1. /\ rp \in RPs /\ d \in Seq(1 .. Total) /\ D \in Nat /\ InOrder(rp, read)
      /\ Marks(rp.t_state, Pos(rp.nxt), Pos(rp.adv), D, Len(c), GotFin(rp))
  BY ReceiverFacts DEF IInv
<1>2. c \in Seq(1 .. Total) /\ Len(c) \in Nat
  BY <1>1, RPFacts
<1>3. rp.t_state = "CLOSE_WAIT" => D + Len(c) = Total
  BY <1>1 DEF Marks
<1>4. (\A i \in 1 .. Len(d) : d[i] = i) /\ \A i \in 1 .. Len(c) : c[i] = D + i
  BY <1>1 DEF InOrder
<1>5. 0 \in Nat /\ (\A i \in 1 .. Len(d) : 0 + i = i) /\ 0 + D = D
  BY <1>1, SMT
<1>6. (\A i \in 1 .. Len(d) : d[i] = 0 + i) /\ \A i \in 1 .. Len(c) : c[i] = (0 + Len(d)) + i
  BY <1>4, <1>5
<1> HIDE DEF d, c
<1>7. /\ Len(d \o c) = Len(d) + Len(c)
      /\ \A i \in 1 .. Len(d \o c) : (d \o c)[i] = 0 + i
  BY <1>1, <1>2, <1>5, <1>6, StreamMore
<1>8. Len(d \o c) \in Nat
  BY <1>1, <1>2, <1>7, SMT DEF d
<1>9. \A i \in 1 .. Len(d \o c) : (d \o c)[i] = i
  <2>1. \A i \in 1 .. Len(d \o c) : 0 + i = i
    BY <1>8, SMT
  <2> QED BY <1>7, <2>1
<1> QED BY <1>3, <1>7, <1>9 DEF StreamIsIntact, FinComesLast, d, c

(* A timer runs. *)
LEMMA InvTimers ==
  ASSUME IInv
  PROVE  NothingIsForgotten
<1>1. /\ tp \in TPs /\ Timed(tp)
      /\ Books(tp.t_state, Pos(tp.wl2), Pos(tp.una), Pos(tp.nxt), Pos(tp.max), tp.wnd,
               Len(tp.sb), wrote, tp.rexmt, tp.persist, tp.sentfin)
  BY SideFacts
<1>2. tp.sb \in Seq(1 .. Total)
  BY <1>1, TPFacts
<1>3. tp.sb # <<>> => Len(tp.sb) > 0
  <2>1. tp.sb # <<>> => Len(tp.sb) \in Nat \ {0}
    BY <1>2, EmptySeq
  <2>2. Len(tp.sb) \in Nat \ {0} => Len(tp.sb) > 0
    BY SMT
  <2> QED BY <2>1, <2>2
<1>4. tp.sb = <<>> => Len(tp.sb) = 0
  BY EmptySeq
<1> QED BY <1>1, <1>3, <1>4 DEF NothingIsForgotten, IdleWithoutTimers, Timed, Books

(* The reassembly queue. *)
LEMMA InvQueue ==
  ASSUME IInv
  PROVE  QueueIsAhead
<1>1. Receiver(rp, read, Pos(tp.max)) /\ tp \in TPs
  BY SideFacts DEF IInv
<1>2. rp \in RPs /\ Ordered(rp.q, Pos(rp.nxt) + 1, Len(read) + RcvHiwat, Pos(tp.max))
  BY <1>1, ReceiverFacts
<1>3. rp.nxt \in Numbers /\ Pos(rp.nxt) \in Nat /\ tp.max \in Numbers /\ Pos(tp.max) \in Nat
  BY <1>1, <1>2, RPFacts, TPFacts
<1> SUFFICES ASSUME NEW i \in 1 .. Len(rp.q)
             PROVE  /\ SEQ_LT(rp.nxt, rp.q[i].seq) /\ SEQ_LEQ(End(rp.q[i]), tp.max)
                    /\ i < Len(rp.q) => SEQ_LEQ(End(rp.q[i]), rp.q[i + 1].seq)
                    /\ \A j \in 1 .. Length(rp.q[i]) :
                         rp.q[i].data[j] = Diff(rp.q[i].seq, Iss) + j
  BY DEF QueueIsAhead, SentEnd, IInv
<1> DEFINE s == rp.q[i]
<1>4. /\ s \in Pieces /\ Pos(rp.nxt) + 1 <= Pos(s.seq) /\ Reach(s) <= Pos(tp.max)
      /\ Len(rp.q) \in Nat
  BY <1>2, OrderedFacts
<1>5. /\ s.seq \in Numbers /\ Pos(s.seq) \in Nat /\ End(s) \in Numbers /\ Pos(End(s)) = Stop(s)
      /\ Stop(s) \in Nat /\ Reach(s) \in Nat /\ Reach(s) >= Stop(s) /\ Length(s) = Len(s.data)
      /\ \A j \in 1 .. Len(s.data) : s.data[j] = Pos(s.seq) + j
  BY <1>4, PieceFacts
<1>6. SEQ_LT(rp.nxt, s.seq)
  <2>1. Pos(rp.nxt) < Pos(s.seq)
    <3> HIDE DEF Pos, s
    <3> QED BY <1>3, <1>4, <1>5, SMT
  <2> QED BY <1>3, <1>5, <2>1, SeqPos
<1>7. SEQ_LEQ(End(s), tp.max)
  <2>1. Stop(s) <= Pos(tp.max)
    <3> HIDE DEF Pos, s, Stop, Reach
    <3> QED BY <1>3, <1>4, <1>5, SMT
  <2> QED BY <1>3, <1>5, <2>1, SeqPos
<1>8. ASSUME i < Len(rp.q) PROVE SEQ_LEQ(End(s), rp.q[i + 1].seq)
  <2>1. i + 1 \in 1 .. Len(rp.q) /\ i < i + 1
    BY <1>4, <1>8, SMT
  <2>2. Stop(s) <= Pos(rp.q[i + 1].seq)
    BY <1>2, <2>1 DEF Ordered
  <2>3. rp.q[i + 1].seq \in Numbers
    BY <1>2, <2>1, OrderedFacts
  <2> QED BY <1>5, <2>2, <2>3, SeqPos
<1>9. \A j \in 1 .. Length(s) : s.data[j] = Diff(s.seq, Iss) + j
  BY <1>5 DEF Pos
<1> QED BY <1>6, <1>7, <1>8, <1>9

(* The places of the two ends. *)
LEMMA InvEnds ==
  ASSUME IInv
  PROVE  EndsAgree
<1>1. /\ tp \in TPs
      /\ Books(tp.t_state, Pos(tp.wl2), Pos(tp.una), Pos(tp.nxt), Pos(tp.max), tp.wnd,
               Len(tp.sb), wrote, tp.rexmt, tp.persist, tp.sentfin)
      /\ Chain(acks, Pos(tp.una), Pos(tp.una) + tp.wnd, Pos(rp.nxt), Right(rp))
  BY SideFacts
<1>2. rp \in RPs /\ Pos(rp.nxt) <= Pos(tp.max)
  BY ReceiverFacts DEF IInv
<1>3. tp.una \in Numbers /\ tp.nxt \in Numbers /\ tp.max \in Numbers /\ rp.nxt \in Numbers
  BY <1>1, <1>2, TPFacts, RPFacts
<1>4. /\ Pos(tp.una) <= Pos(tp.nxt) /\ Pos(tp.nxt) <= Pos(tp.max) /\ Pos(tp.una) <= Pos(rp.nxt)
  BY <1>1 DEF Books, Chain
<1>5. /\ SEQ_LEQ(tp.una, rp.nxt) /\ SEQ_LEQ(rp.nxt, tp.max)
      /\ SEQ_LEQ(tp.una, tp.nxt) /\ SEQ_LEQ(tp.nxt, tp.max)
  BY <1>2, <1>3, <1>4, SeqPos
<1>6. ASSUME NEW i \in 1 .. Len(acks) PROVE SEQ_LEQ(acks[i].ack, rp.nxt)
  <2>1. Pos(acks[i].ack) <= Pos(rp.nxt) /\ acks \in Seq(AckSet)
    BY <1>1 DEF Chain
  <2>2. acks[i] \in AckSet
    BY <2>1, ElementOfSeq
  <2>3. acks[i].ack \in Numbers
    BY <2>2, AckFacts
  <2> QED BY <1>3, <2>1, <2>3, SeqPos
<1>7. SentEnd = tp.max
  BY DEF SentEnd, IInv
<1> QED BY <1>5, <1>6, <1>7, InvTypes, InvQueue DEF EndsAgree

(* The window. *)
LEMMA InvWindow ==
  ASSUME IInv
  PROVE  WindowIsKept
<1>1. tp \in TPs /\ Chain(acks, Pos(tp.una), Pos(tp.una) + tp.wnd, Pos(rp.nxt), Right(rp))
  BY SideFacts
<1>2. rp \in RPs
  BY HeardNow
<1>3. /\ tp.una \in Numbers /\ Pos(tp.una) \in Nat /\ tp.wnd \in Nat
      /\ rp.nxt \in Numbers /\ rp.adv \in Numbers
  BY <1>1, <1>2, TPFacts, RPFacts
<1>4. /\ Pos(rp.nxt) \in Nat /\ Pos(rp.nxt) <= Horizon /\ Pos(rp.adv) \in Nat
      /\ Pos(rp.adv) <= Horizon
  BY <1>3, NumberIsPlace
<1> DEFINE g == IF SEQ_LT(rp.adv, rp.nxt) THEN rp.nxt ELSE rp.adv
<1>5. g \in Numbers /\ Pos(g) = Right(rp)
  BY <1>3, SeqPos DEF Right, Max2
<1>6. Pos(tp.una) + tp.wnd <= Right(rp)
  BY <1>1 DEF Chain
<1>7. tp.wnd \in Int /\ Pos(tp.una) + tp.wnd \in 0 .. Horizon
  <2>1. Horizon \in Nat
    BY Sizes
  <2> HIDE DEF Pos, Horizon
  <2> QED BY <1>3, <1>4, <1>6, <2>1, SMT DEF Right, Max2
<1>8. Add(tp.una, tp.wnd) \in Numbers /\ Pos(Add(tp.una, tp.wnd)) = Pos(tp.una) + tp.wnd
  BY <1>3, <1>7, AddPos
<1> HIDE DEF g
<1>9. SEQ_LEQ(Add(tp.una, tp.wnd), g)
  BY <1>5, <1>6, <1>8, SeqPos
<1> QED BY <1>9 DEF g, WindowIsKept

-----------------------------------------------------------------------------
(* Results.  All of them assume that the network delivers acknowledgements *)
(* in order: when it may not, bug_tcp_fin.cfg finds FinComesLast violated. *)
(* And they assume that A's tcp_output is never short of mbufs, which      *)
(* keeps short FALSE: when it may be, bug_tcp_mbufs.cfg finds that it can  *)
(* leave data with no timer.  B may be short of them at any time.          *)

-----------------------------------------------------------------------------
INSTANCE WellFoundedInduction

(* A nonempty set of natural numbers has a least element: the natural  *)
(* numbers are well founded (WellFoundedInduction).                        *)
LEMMA NatIsWellOrdered == WellOrdered
<1> SUFFICES ASSUME NEW T, T \subseteq Nat, T # {} PROVE \E x \in T : \A y \in T : x <= y
  BY DEF WellOrdered
<1> DEFINE R == OpToRel(<, Nat)
<1>1. IsWellFoundedOn(R, Nat)
  BY NatLessThanWellFounded
<1>2. \E x \in T : \A y \in T : <<y, x>> \notin R
  <2> HIDE DEF R
  <2> QED BY <1>1, WFMin
<1>3. \A x, y \in Nat : <<y, x>> \notin R => x <= y
  BY SMT DEF OpToRel
<1> HIDE DEF R
<1> QED BY <1>2, <1>3

(* The invariant holds. *)
THEOREM Invariance ==
  ASSUME AcksInOrder, Shortages = {0}
  PROVE  Spec => []IInv
<1>1. Init => IInv
  BY InitKeeps
<1>2. IInv /\ [Next]_vars => IInv'
  BY NextKeeps, NatIsWellOrdered
<1> QED BY <1>1, <1>2, PTL DEF Spec

(* What reaches B's socket buffer is the stream A's process wrote, byte by *)
(* byte, and the FIN comes after its last byte: tcp_reass and tcp_input    *)
(* lose, repeat and reorder nothing.                                       *)
THEOREM TcpStreamIsIntact ==
  ASSUME AcksInOrder, Shortages = {0}
  PROVE  Spec => []StreamIsIntact
<1>1. IInv => StreamIsIntact
  BY InvStream
<1> QED BY <1>1, Invariance, PTL

(* As long as tcp_output finds its mbufs it never leaves unacknowledged    *)
(* data or a FIN without a timer, and the retransmit and persist timers    *)
(* never run together.                                                     *)
THEOREM TcpNothingIsForgotten ==
  ASSUME AcksInOrder, Shortages = {0}
  PROVE  Spec => []NothingIsForgotten
<1>1. IInv => NothingIsForgotten
  BY InvTimers
<1> QED BY <1>1, Invariance, PTL

(* snd_una <= rcv_nxt <= snd_max across the wrap of the sequence numbers,  *)
(* the types, and the reassembly queue in order and ahead of rcv_nxt.      *)
THEOREM TcpEndsAgree ==
  ASSUME AcksInOrder, Shortages = {0}
  PROVE  Spec => []EndsAgree
<1>1. IInv => EndsAgree
  BY InvEnds
<1> QED BY <1>1, Invariance, PTL

(* The window A goes by never reaches past what B has offered or has.      *)
THEOREM TcpWindowIsKept ==
  ASSUME AcksInOrder, Shortages = {0}
  PROVE  Spec => []WindowIsKept
<1>1. IInv => WindowIsKept
  BY InvWindow
<1> QED BY <1>1, Invariance, PTL

(* "Don't shrink window", tcp_output.c says: what B has once offered, or   *)
(* has taken beyond that, it does not take back.                           *)
THEOREM WindowNeverShrinks ==
  ASSUME AcksInOrder, Shortages = {0}
  PROVE  Spec => [][Right(rp) <= Right(rp')]_vars
<1>1. IInv /\ [Next]_vars => [Right(rp) <= Right(rp')]_vars
  BY NextKeeps, NatIsWellOrdered
<1> QED BY <1>1, Invariance, PTL DEF Spec
=============================================================================

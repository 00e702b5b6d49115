---------------------------- MODULE TcpLemmas ----------------------------
(***************************************************************************)
(* What holds of either end of Tcp, for every stream, buffer and window    *)
(* that SizesAssumption and SpaceAssumption allow.  Sequence numbers are   *)
(* read as places in the stream, so that comparisons across the wrap       *)
(* become comparisons of numbers, and segments as pieces of the stream.    *)
(* Then A's control block is followed through the turns of tcp_output, the *)
(* reassembly queue through TcpReass, and B's control block through        *)
(* tcp_reass and tcp_output.  In what is said of B, A enters only as three *)
(* numbers: the place m of snd_max, and the place u and the right edge e   *)
(* of the window that A has heard of.                                      *)
(***************************************************************************)
EXTENDS Tcp, TLAPS

\* Steps are proved by Zenon unless they name another prover.
USE Zenon

-----------------------------------------------------------------------------
(* The facts about sequences that the proofs cite.                         *)

(* A sequence is a function on 1 .. Len. *)
LEMMA LenProperties ==
  ASSUME NEW S, NEW s \in Seq(S)
  PROVE  Len(s) \in Nat /\ s \in [1 .. Len(s) -> S] /\ DOMAIN s = 1 .. Len(s)
BY SMT

(* A function on 1 .. n is a sequence. *)
LEMMA FunctionIsSeq ==
  ASSUME NEW S, NEW n \in Nat, NEW f \in [1 .. n -> S]
  PROVE  f \in Seq(S)
BY SMT

(* Its elements. *)
LEMMA ElementOfSeq ==
  ASSUME NEW S, NEW s \in Seq(S), NEW i \in 1 .. Len(s)
  PROVE  s[i] \in S
BY SMT

(* A sequence over a set is one over a larger set. *)
LEMMA SeqMonotonic ==
  ASSUME NEW S, NEW T, NEW s \in Seq(S), S \subseteq T
  PROVE  s \in Seq(T)
BY SMT

(* The empty sequence is the one of length 0. *)
LEMMA EmptySeq ==
  ASSUME NEW S
  PROVE  /\ <<>> \in Seq(S) /\ Len(<<>>) = 0
         /\ \A s \in Seq(S) : s # <<>> => Len(s) \in Nat \ {0}
BY SMT

(* Two sequences in one. *)
LEMMA ConcatProperties ==
  ASSUME NEW S, NEW s \in Seq(S), NEW t \in Seq(S)
  PROVE  /\ s \o t \in Seq(S) /\ Len(s \o t) = Len(s) + Len(t)
         /\ \A i \in 1 .. Len(s) + Len(t) :
              (s \o t)[i] = IF i <= Len(s) THEN s[i] ELSE t[i - Len(s)]
BY SMT

(* Nothing before or after changes nothing. *)
LEMMA ConcatEmptySeq ==
  ASSUME NEW S, NEW s \in Seq(S)
  PROVE  s \o <<>> = s /\ <<>> \o s = s
BY SMT

(* All but the first element. *)
LEMMA TailProperties ==
  ASSUME NEW S, NEW s \in Seq(S), s # <<>>
  PROVE  /\ Tail(s) \in Seq(S) /\ Len(Tail(s)) = Len(s) - 1
         /\ \A i \in 1 .. Len(Tail(s)) : Tail(s)[i] = s[i + 1]
BY SMT

(* One more element. *)
LEMMA AppendProperties ==
  ASSUME NEW S, NEW s \in Seq(S), NEW e \in S
  PROVE  /\ Append(s, e) \in Seq(S) /\ Len(Append(s, e)) = Len(s) + 1
         /\ \A i \in 1 .. Len(s) : Append(s, e)[i] = s[i]
         /\ Append(s, e)[Len(s) + 1] = e
BY SMT

-----------------------------------------------------------------------------
(* Sequence numbers.  The ones the connection uses are the first Horizon   *)
(* after Iss; Pos is the place of one in the stream.                       *)

Horizon == Total + 1 + RcvHiwat
Numbers == {Add(Iss, k) : k \in 0 .. Horizon}
Pos(s) == Diff(s, Iss)

(* % on the values that sums and differences of sequence numbers have. *)
LEMMA ModSmall ==
  ASSUME NEW m \in Nat \ {0}, NEW x \in 0 .. m - 1
  PROVE  x % m = x
BY SMTT(20)

(* A difference below zero wraps once. *)
LEMMA ModNeg ==
  ASSUME NEW m \in Nat \ {0}, NEW x \in Int, -m <= x, x < 0
  PROVE  x % m = x + m
BY SMTT(20)

(* So does a sum past the modulus. *)
LEMMA ModBig ==
  ASSUME NEW m \in Nat \ {0}, NEW x \in Int, m <= x, x < 2 * m
  PROVE  x % m = x - m
BY SMTT(20)

(* What the constants are. *)
LEMMA Sizes ==
  /\ SeqMod \in Nat \ {0} /\ Iss \in Nat /\ Iss < SeqMod
  /\ Total \in Nat /\ SndHiwat \in Nat /\ RcvHiwat \in Nat /\ MaxSeg \in Nat /\ MaxSeg > 0
  /\ Horizon \in Nat /\ Horizon = Total + 1 + RcvHiwat
  /\ SeqMod \div 2 \in Nat /\ Horizon < SeqMod \div 2 /\ 2 * (SeqMod \div 2) <= SeqMod
BY SizesAssumption, SpaceAssumption, SMTT(20) DEF Horizon

(* Adding to a sequence number wraps at most once. *)
LEMMA AddCases ==
  ASSUME NEW k \in 0 .. Horizon
  PROVE  /\ Add(Iss, k) \in 0 .. SeqMod - 1
         /\ Add(Iss, k) = Iss + k \/ Add(Iss, k) = (Iss + k) - SeqMod
<1>1. k \in Nat /\ k <= Horizon /\ 2 * k < SeqMod
  BY Sizes, SMT
<1>2. CASE Iss + k < SeqMod
  <2>1. (Iss + k) % SeqMod = Iss + k
    BY <1>1, <1>2, Sizes, ModSmall, SMT
  <2> QED BY <1>1, <1>2, <2>1, Sizes, SMT DEF Add
<1>3. CASE Iss + k >= SeqMod
  <2>0. Iss + k \in Int /\ SeqMod <= Iss + k /\ Iss + k < 2 * SeqMod
    BY <1>1, <1>3, Sizes, SMT
  <2>1. (Iss + k) % SeqMod = (Iss + k) - SeqMod
    <3> DEFINE x == Iss + k
    <3>1. x \in Int /\ SeqMod <= x /\ x < 2 * SeqMod
      BY <2>0
    <3> HIDE DEF x
    <3>2. x % SeqMod = x - SeqMod
      BY <3>1, Sizes, ModBig
    <3> QED BY <3>2 DEF x
  <2> QED BY <1>1, <1>3, <2>1, Sizes, SMT DEF Add
<1> QED BY <1>1, <1>2, <1>3, Sizes, SMT

(* Differences are the ones of the places. *)
LEMMA DiffAdd ==
  ASSUME NEW j \in 0 .. Horizon, NEW k \in 0 .. Horizon
  PROVE  Diff(Add(Iss, j), Add(Iss, k)) = j - k
<1> DEFINE a == Add(Iss, j)
           b == Add(Iss, k)
<1>1. /\ j \in Nat /\ j <= Horizon /\ 2 * j < SeqMod
      /\ k \in Nat /\ k <= Horizon /\ 2 * k < SeqMod
  BY Sizes, SMT
<1>2. /\ a \in 0 .. SeqMod - 1 /\ (a = Iss + j \/ a = (Iss + j) - SeqMod)
      /\ b \in 0 .. SeqMod - 1 /\ (b = Iss + k \/ b = (Iss + k) - SeqMod)
  BY AddCases
<1> HIDE DEF a, b
<1>3. a \in Int /\ b \in Int /\ a - b \in Int /\ -SeqMod < a - b /\ a - b < SeqMod
  BY <1>2, Sizes, SMT
<1>4. a - b = j - k \/ a - b = j - k + SeqMod \/ a - b = j - k - SeqMod
  BY <1>1, <1>2, <1>3, Sizes, SMT
<1>5. CASE a - b >= 0
  <2>1. (a - b) % SeqMod = a - b
    BY <1>3, <1>5, Sizes, ModSmall, SMT
  <2> QED BY <1>1, <1>3, <1>4, <1>5, <2>1, Sizes, SMT DEF Diff, a, b
<1>6. CASE a - b < 0
  <2>1. (a - b) % SeqMod = a - b + SeqMod
    BY <1>3, <1>6, Sizes, ModNeg, SMT
  <2> QED BY <1>1, <1>3, <1>4, <1>6, <2>1, Sizes, SMT DEF Diff, a, b
<1> QED BY <1>3, <1>5, <1>6, SMT

(* Iss is the sequence number of place 0. *)
LEMMA IssIsFirst ==
 Iss = Add(Iss, 0) /\ 0 \in 0 .. Horizon
<1>1. Iss % SeqMod = Iss
  BY Sizes, ModSmall, SMT
<1> QED BY <1>1, Sizes, SMT DEF Add

(* A number at a place of the connection is one of its numbers, and Pos    *)
(* finds the place again.                                                  *)
LEMMA PosAdd ==
  ASSUME NEW k \in 0 .. Horizon
  PROVE  Add(Iss, k) \in Numbers /\ Pos(Add(Iss, k)) = k
<1>1. Diff(Add(Iss, k), Add(Iss, 0)) = k - 0
  BY IssIsFirst, DiffAdd
<1>2. k - 0 = k
  BY Sizes, SMT
<1> QED BY <1>1, <1>2, IssIsFirst DEF Pos, Numbers

(* Every number of the connection has a place. *)
LEMMA NumberIsPlace ==
  ASSUME NEW s \in Numbers
  PROVE  /\ Pos(s) \in 0 .. Horizon /\ Pos(s) \in Nat /\ Pos(s) <= Horizon
         /\ s = Add(Iss, Pos(s)) /\ s \in 0 .. SeqMod - 1
<1>1. PICK k \in 0 .. Horizon : s = Add(Iss, k)
  BY DEF Numbers
<1>2. Pos(s) = k
  BY <1>1, PosAdd
<1> QED BY <1>1, <1>2, AddCases, Sizes, SMT

(* Places of equal numbers are equal, and the other way round. *)
LEMMA SamePlace ==
  ASSUME NEW a \in Numbers, NEW b \in Numbers
  PROVE  a = b <=> Pos(a) = Pos(b)
BY NumberIsPlace

(* The signed difference of two numbers is the distance of their places. *)
LEMMA DiffPos ==
  ASSUME NEW a \in Numbers, NEW b \in Numbers
  PROVE  Diff(a, b) = Pos(a) - Pos(b)
BY NumberIsPlace, DiffAdd

(* The comparisons of tcp_seq.h are comparisons of places. *)
LEMMA SeqPos ==
  ASSUME NEW a \in Numbers, NEW b \in Numbers
  PROVE  /\ SEQ_LT(a, b) <=> Pos(a) < Pos(b)
         /\ SEQ_LEQ(a, b) <=> Pos(a) <= Pos(b)
         /\ SEQ_GT(a, b) <=> Pos(a) > Pos(b)
<1>1. Diff(a, b) = Pos(a) - Pos(b)
  BY DiffPos
<1>2. Pos(a) \in Nat /\ Pos(b) \in Nat
  BY NumberIsPlace
<1> HIDE DEF Pos, Diff
<1> QED BY <1>1, <1>2, SMT DEF SEQ_LT, SEQ_LEQ, SEQ_GT

(* Adding moves the place along. *)
LEMMA AddPos ==
  ASSUME NEW a \in Numbers, NEW n \in Int, Pos(a) + n \in 0 .. Horizon
  PROVE  Add(a, n) \in Numbers /\ Pos(Add(a, n)) = Pos(a) + n
<1> DEFINE k == Pos(a)
           m == k + n
<1>1. /\ k \in Nat /\ k <= Horizon /\ a = Add(Iss, k) /\ a \in 0 .. SeqMod - 1
      /\ k \in 0 .. Horizon
  BY NumberIsPlace
<1>2. /\ m \in Nat /\ m <= Horizon /\ m \in 0 .. Horizon
  BY <1>1, Sizes, SMT
<1>3. a = Iss + k \/ a = (Iss + k) - SeqMod
  BY <1>1, AddCases
<1>4. m = k + n /\ n \in Int
  OBVIOUS
<1>5. Add(a, n) = Add(Iss, m)
  <2> HIDE DEF k, m
  <2> DEFINE x == a + n
             y == Iss + m
  <2>1. x \in Int /\ y \in Int /\ SeqMod \in Nat /\ SeqMod > 0
    BY <1>1, <1>2, <1>4, Sizes, SMT
  <2>2. x = y \/ x = y - SeqMod
    BY <1>1, <1>2, <1>3, <1>4, Sizes, SMT
  <2>3. 0 <= y /\ y < 2 * SeqMod
    BY <1>1, <1>2, Sizes, SMT
  <2> HIDE DEF x, y
  <2>4. CASE x = y
    BY <2>4 DEF Add, x, y
  <2>5. CASE x = y - SeqMod /\ y >= SeqMod
    <3>1. SeqMod <= y /\ x \in 0 .. SeqMod - 1
      BY <2>1, <2>3, <2>5, SMT
    <3>2. y % SeqMod = y - SeqMod
      BY <2>1, <2>3, <3>1, Sizes, ModBig
    <3>3. x % SeqMod = x
      BY <3>1, Sizes, ModSmall
    <3> QED BY <2>5, <3>2, <3>3 DEF Add, x, y
  <2>6. CASE x = y - SeqMod /\ y < SeqMod
    <3>1. y \in 0 .. SeqMod - 1 /\ -SeqMod <= x /\ x < 0 /\ x + SeqMod = y
      BY <2>1, <2>3, <2>6, SMT
    <3>2. y % SeqMod = y
      BY <3>1, Sizes, ModSmall
    <3>3. x % SeqMod = x + SeqMod
      BY <2>1, <3>1, Sizes, ModNeg
    <3> QED BY <3>1, <3>2, <3>3 DEF Add, x, y
  <2> QED BY <2>1, <2>2, <2>4, <2>5, <2>6, SMT
<1> QED BY <1>2, <1>5, PosAdd

-----------------------------------------------------------------------------
(* Walks and loops. *)

(* A nonempty set of natural numbers has a least element.  This is what    *)
(* the proofs use of the library, which TcpProofs brings in behind them    *)
(* (NatIsWellOrdered).                                                     *)
WellOrdered == \A T : T \subseteq Nat /\ T # {} => \E x \in T : \A y \in T : x <= y

(* Induction over the natural numbers, for sets. *)
LEMMA NatSetInduction ==
  ASSUME WellOrdered, NEW T, T \subseteq Nat, 0 \in T, \A n \in T : n + 1 \in T
  PROVE  T = Nat
<1> SUFFICES ASSUME Nat \ T # {} PROVE FALSE
  OBVIOUS
<1>1. PICK x \in Nat \ T : \A y \in Nat \ T : x <= y
  BY DEF WellOrdered
<1>2. x - 1 \in T
  BY <1>1, SMT
<1>3. (x - 1) + 1 \in T
  BY <1>2
<1> QED BY <1>1, <1>3, SMT

IsLoop(f, F, x, n) == f[0] = x /\ \A k \in 1 .. n : f[k] = F[<<k, f[k - 1]>>]

(* A loop of n turns that stays in S has a run. *)
LEMMA LoopExists ==
  ASSUME WellOrdered, NEW S, NEW x \in S, NEW F, NEW n \in Nat,
         \A k \in 1 .. n : \A s \in S : F[<<k, s>>] \in S
  PROVE  \E f \in [0 .. n -> S] : IsLoop(f, F, x, n)
<1> DEFINE Run(m, f) == f[0] = x /\ \A k \in 1 .. m : f[k] = F[<<k, f[k - 1]>>]
           T == {m \in Nat : m <= n => \E f \in [0 .. m -> S] : Run(m, f)}
<1>1. 0 \in T
  <2> DEFINE f == [k \in 0 .. 0 |-> x]
  <2>1. f \in [0 .. 0 -> S]
    OBVIOUS
  <2>2. Run(0, f)
    BY SMT
  <2> HIDE DEF f, Run
  <2>3. \E g \in [0 .. 0 -> S] : Run(0, g)
    BY <2>1, <2>2
  <2>4. 0 \in Nat
    OBVIOUS
  <2> QED BY <2>3, <2>4
<1>2. ASSUME NEW m \in T PROVE m + 1 \in T
  <2> SUFFICES ASSUME m + 1 <= n PROVE \E f \in [0 .. m + 1 -> S] : Run(m + 1, f)
    BY SMT
  <2>1. m \in Nat /\ m <= n /\ m + 1 \in 1 .. n /\ m \in 0 .. m
    BY SMT
  <2>2. PICK f \in [0 .. m -> S] : Run(m, f)
    BY <2>1
  <2> DEFINE y == F[<<m + 1, f[m]>>]
             g == [k \in 0 .. m + 1 |-> IF k = m + 1 THEN y ELSE f[k]]
  <2>3. y \in S
    BY <2>1, <2>2
  <2> HIDE DEF y
  <2>4. g \in [0 .. m + 1 -> S]
    BY <2>1, <2>2, <2>3, SMT
  <2>5. g[0] = x
    <3>1. 0 \in 0 .. m + 1 /\ 0 # m + 1
      BY <2>1, SMT
    <3> QED BY <2>2, <3>1
  <2>6. ASSUME NEW k \in 1 .. m + 1 PROVE g[k] = F[<<k, g[k - 1]>>]
    <3>1. CASE k = m + 1
      <4>1. k \in 0 .. m + 1 /\ k - 1 \in 0 .. m + 1 /\ k - 1 # m + 1 /\ k - 1 = m
        BY <2>1, <3>1, SMT
      <4>2. g[k] = y /\ g[k - 1] = f[m]
        BY <3>1, <4>1
      <4> QED BY <3>1, <4>2 DEF y
    <3>2. CASE k # m + 1
      <4>1. k \in 1 .. m /\ k \in 0 .. m + 1 /\ k - 1 \in 0 .. m + 1 /\ k - 1 # m + 1
        BY <2>1, <3>2, SMT
      <4>2. g[k] = f[k] /\ g[k - 1] = f[k - 1]
        BY <3>2, <4>1
      <4> QED BY <2>2, <4>1, <4>2
    <3> QED BY <3>1, <3>2
  <2> HIDE DEF g
  <2> QED BY <2>4, <2>5, <2>6
<1> HIDE DEF Run
<1>3. T = Nat
  <2> HIDE DEF T
  <2>1. T \subseteq Nat
    BY DEF T
  <2> QED BY <1>1, <1>2, <2>1, NatSetInduction
<1>4. n \in T /\ n <= n
  BY <1>3, SMT
<1>5. \E f \in [0 .. n -> S] : Run(n, f)
  BY <1>4
<1> QED BY <1>5 DEF Run, IsLoop

-----------------------------------------------------------------------------
(* Pieces of the stream. *)

(* A part of a sequence. *)
LEMMA Part ==
  ASSUME NEW S, NEW s \in Seq(S), NEW m \in Nat, NEW n \in Nat,
         1 <= m, n <= Len(s), m <= n + 1
  PROVE  /\ SubSeq(s, m, n) \in Seq(S)
         /\ Len(SubSeq(s, m, n)) = (n + 1) - m
         /\ \A i \in 1 .. (n + 1) - m : /\ SubSeq(s, m, n)[i] = s[(m - 1) + i]
                                        /\ (m - 1) + i \in 1 .. Len(s)
<1>1. Len(s) \in Nat
  BY LenProperties
<1>2. \A i \in m .. n : i \in 1 .. Len(s)
  BY <1>1, SMT
<1>5. /\ SubSeq(s, m, n) \in Seq(S)
      /\ Len(SubSeq(s, m, n)) = IF m <= n THEN n - m + 1 ELSE 0
      /\ \A i \in 1 .. n - m + 1 : SubSeq(s, m, n)[i] = s[m + i - 1]
  BY <1>1, <1>2, SMT
<1>6. Len(SubSeq(s, m, n)) = (n + 1) - m
  BY <1>1, <1>5, SMT
<1>7. ASSUME NEW i \in 1 .. (n + 1) - m
      PROVE  SubSeq(s, m, n)[i] = s[(m - 1) + i] /\ (m - 1) + i \in 1 .. Len(s)
  <2>1. i \in 1 .. n - m + 1 /\ m + i - 1 = (m - 1) + i /\ (m - 1) + i \in 1 .. Len(s)
    BY <1>1, SMT
  <2> QED BY <1>5, <2>1
<1> QED BY <1>5, <1>6, <1>7

Stop(s) == Pos(s.seq) + Len(s.data)
Reach(s) == IF s.fin THEN Stop(s) + 1 ELSE Stop(s)

Pieces ==
  {s \in [seq : Numbers, data : Seq(1 .. Total), fin : BOOLEAN] :
     /\ Len(s.data) <= MaxSeg /\ Stop(s) <= Total
     /\ \A j \in 1 .. Len(s.data) : s.data[j] = Pos(s.seq) + j
     /\ s.fin => Stop(s) = Total}

(* What a piece is, in places of the stream. *)
LEMMA PieceFacts ==
  ASSUME NEW s \in Pieces
  PROVE  /\ s.seq \in Numbers /\ s.data \in Seq(1 .. Total) /\ s.fin \in BOOLEAN
         /\ Pos(s.seq) \in Nat /\ Len(s.data) \in Nat /\ Stop(s) \in Nat
         /\ Stop(s) = Pos(s.seq) + Len(s.data) /\ Stop(s) <= Total /\ Pos(s.seq) <= Stop(s)
         /\ Length(s) = Len(s.data) /\ Len(s.data) <= MaxSeg
         /\ End(s) \in Numbers /\ Pos(End(s)) = Stop(s)
         /\ \A j \in 1 .. Len(s.data) : s.data[j] = Pos(s.seq) + j
         /\ s.fin => Stop(s) = Total
         /\ Reach(s) \in Nat /\ Reach(s) >= Stop(s) /\ Reach(s) <= Total + 1
<1>1. /\ s \in [seq : Numbers, data : Seq(1 .. Total), fin : BOOLEAN]
      /\ Len(s.data) <= MaxSeg /\ Stop(s) <= Total
      /\ \A j \in 1 .. Len(s.data) : s.data[j] = Pos(s.seq) + j
      /\ s.fin => Stop(s) = Total
  BY DEF Pieces
<1>2. s.seq \in Numbers /\ s.data \in Seq(1 .. Total) /\ s.fin \in BOOLEAN
  BY <1>1
<1>3. Pos(s.seq) \in Nat /\ Len(s.data) \in Nat /\ Stop(s) = Pos(s.seq) + Len(s.data)
  BY <1>2, NumberIsPlace, LenProperties DEF Stop
<1> HIDE DEF Pos, Stop
<1>4. Stop(s) \in Nat /\ Pos(s.seq) <= Stop(s) /\ Len(s.data) \in Int
      /\ Pos(s.seq) + Len(s.data) \in 0 .. Horizon
  BY <1>1, <1>3, Sizes, SMT
<1>5. End(s) \in Numbers /\ Pos(End(s)) = Stop(s) /\ Length(s) = Len(s.data)
  BY <1>2, <1>3, <1>4, AddPos DEF End, Length
<1>6. Reach(s) \in Nat /\ Reach(s) >= Stop(s) /\ Reach(s) <= Total + 1
  BY <1>1, <1>4, Sizes, SMT DEF Reach
<1> QED BY <1>1, <1>2, <1>3, <1>4, <1>5, <1>6

-----------------------------------------------------------------------------
(* A's control block, when w bytes were written.  The numbers: snd_wl2,    *)
(* snd_una, snd_nxt and snd_max as places, the window and the bytes in     *)
(* so_snd.  The FIN is after the last byte; snd_nxt is within the window,  *)
(* or behind a FIN that is; without the retransmit timer nothing is on its *)
(* way but probes.                                                         *)

TPs ==
  [t_state : {"ESTABLISHED", "FIN_WAIT_1", "FIN_WAIT_2"},
   una : Numbers, nxt : Numbers, max : Numbers, wnd : 0 .. RcvHiwat, wl2 : Numbers,
   sb : Seq(1 .. Total), rexmt : BOOLEAN, persist : BOOLEAN, sentfin : BOOLEAN]

Books(st, L, U, N, M, wnd, cc, w, rexmt, persist, sentfin) ==
  /\ L <= U /\ U <= N /\ N <= M
  /\ IF st = "FIN_WAIT_2" THEN cc = 0 /\ U = w + 1 ELSE U + cc = w
  /\ IF sentfin THEN M = w + 1 /\ st # "ESTABLISHED" ELSE M <= w
  /\ st # "ESTABLISHED" => w = Total
  /\ N <= U + wnd \/ (N = w + 1 /\ w <= U + wnd)
  /\ ~(rexmt /\ persist)
  /\ rexmt \/ N = U
  /\ rexmt => U < M

Sender(t, w) ==
  /\ t \in TPs /\ w \in 0 .. Total
  /\ \A i \in 1 .. Len(t.sb) : t.sb[i] = Pos(t.una) + i
  /\ Books(t.t_state, Pos(t.wl2), Pos(t.una), Pos(t.nxt), Pos(t.max), t.wnd, Len(t.sb), w,
           t.rexmt, t.persist, t.sentfin)

(* The timers as tcp_output leaves them. *)
Timed(t) ==
  /\ Len(t.sb) > 0 => t.rexmt \/ t.persist
  /\ t.t_state = "FIN_WAIT_1" /\ Len(t.sb) = 0 => t.rexmt

(* The parts of a control block. *)
LEMMA TPFacts ==
  ASSUME NEW t \in TPs
  PROVE  /\ t.t_state \in {"ESTABLISHED", "FIN_WAIT_1", "FIN_WAIT_2"}
         /\ t.una \in Numbers /\ t.nxt \in Numbers /\ t.max \in Numbers /\ t.wl2 \in Numbers
         /\ Pos(t.una) \in Nat /\ Pos(t.nxt) \in Nat /\ Pos(t.max) \in Nat /\ Pos(t.wl2) \in Nat
         /\ t.wnd \in Nat /\ t.wnd <= RcvHiwat
         /\ t.sb \in Seq(1 .. Total) /\ Len(t.sb) \in Nat
         /\ t.rexmt \in BOOLEAN /\ t.persist \in BOOLEAN /\ t.sentfin \in BOOLEAN
<1>1. /\ t.t_state \in {"ESTABLISHED", "FIN_WAIT_1", "FIN_WAIT_2"}
      /\ t.una \in Numbers /\ t.nxt \in Numbers /\ t.max \in Numbers /\ t.wl2 \in Numbers
      /\ t.wnd \in 0 .. RcvHiwat /\ t.sb \in Seq(1 .. Total)
      /\ t.rexmt \in BOOLEAN /\ t.persist \in BOOLEAN /\ t.sentfin \in BOOLEAN
  BY DEF TPs
<1>2. Pos(t.una) \in Nat /\ Pos(t.nxt) \in Nat /\ Pos(t.max) \in Nat /\ Pos(t.wl2) \in Nat
  BY <1>1, NumberIsPlace
<1>3. t.wnd \in Nat /\ t.wnd <= RcvHiwat
  BY <1>1, Sizes, SMT
<1>4. Len(t.sb) \in Nat
  BY <1>1, LenProperties
<1> QED BY <1>1, <1>2, <1>3, <1>4

(* The states in which A sends. *)
States == {"ESTABLISHED", "FIN_WAIT_1", "FIN_WAIT_2"}

(* What a turn of tcp_output leaves alone. *)
Keeps(u, t) ==
  /\ u.una = t.una /\ u.wnd = t.wnd /\ u.wl2 = t.wl2 /\ u.sb = t.sb /\ u.t_state = t.t_state
  /\ Pos(t.max) <= Pos(u.max)

(* What it may send: a piece of the stream, and a FIN within the window. *)
GoesOut(g, u) ==
  /\ g \in Pieces /\ Reach(g) <= Pos(u.max)
  /\ g.fin => Stop(g) <= Pos(u.una) + u.wnd

(* The timers after tcp_output; unless it was forced, the retransmit timer *)
(* runs when something is on its way and the window is open.               *)
Timely(u, force) ==
  /\ Timed(u)
  /\ ~force /\ u.wnd > 0 /\ Len(u.sb) > 0 /\ Pos(u.una) < Pos(u.max) => u.rexmt

(* What is so between the turns of tcp_output: a turn is forced only while *)
(* the persist timer runs or the window is open.                           *)
Ready(u, force) ==
  force => /\ u.persist \/ u.wnd > 0
           /\ u.persist /\ u.t_state = "FIN_WAIT_1" => Len(u.sb) > 0

AllGoOut(out, u) == \A i \in 1 .. Len(out) : GoesOut(out[i], u)

(* What tcp_output makes of a control block. *)
OutputIs(t, w, force, o) ==
  /\ o.tp \in TPs /\ o.out \in Seq(Pieces) /\ o.nombuf = FALSE
  /\ Sender(o.tp, w) /\ Keeps(o.tp, t) /\ AllGoOut(o.out, o.tp) /\ Timely(o.tp, force)

(* tcp_output, with an mbuf for every segment: all it sends is a piece of  *)
(* the stream, and a timer runs afterwards for what is not acknowledged.   *)
LEMMA OutputKeeps ==
  ASSUME WellOrdered
  PROVE  \A t, w : \A force \in BOOLEAN : \A cwnd \in Nat \ {0} :
           Sender(t, w) /\ Ready(t, force) =>
             OutputIs(t, w, force, Output(t, force, cwnd, 0))
(* The window, what it leaves to send, and when snd_nxt goes back. *)
<1> DEFINE Win(t, cwnd) == Min2(t.wnd, cwnd)
<1> DEFINE Spare(t, force, cwnd) ==
             Min2(Len(t.sb), IF force /\ Win(t, cwnd) = 0 THEN 1 ELSE Win(t, cwnd))
               - (Pos(t.nxt) - Pos(t.una))
<1> DEFINE Back(t, force, cwnd) == Spare(t, force, cwnd) < 0 /\ Win(t, cwnd) = 0 /\ ~force
(* What Decide gives, in places of the stream. *)
<1> DEFINE Chosen(t, force, cwnd, s) ==
             /\ Win(t, cwnd) \in Nat /\ Spare(t, force, cwnd) \in Int
             /\ s.off = Pos(t.nxt) - Pos(t.una)
             /\ s.len = Min2(Max2(Spare(t, force, cwnd), 0), MaxSeg)
             /\ s.tp \in TPs
             /\ s.tp.t_state = t.t_state /\ s.tp.una = t.una /\ s.tp.max = t.max /\ s.tp.wnd = t.wnd
             /\ s.tp.wl2 = t.wl2 /\ s.tp.sb = t.sb /\ s.tp.sentfin = t.sentfin
             /\ s.tp.persist = (t.persist /\ ~(force /\ Win(t, cwnd) > 0))
             /\ s.tp.rexmt = (t.rexmt /\ ~Back(t, force, cwnd))
             /\ s.tp.nxt = (IF Back(t, force, cwnd) THEN t.una ELSE t.nxt)
             /\ s.fin = (/\ t.t_state = "FIN_WAIT_1"
                         /\ ~(force /\ Win(t, cwnd) = 0 /\ Pos(t.nxt) - Pos(t.una) < Len(t.sb))
                         /\ Pos(s.tp.nxt) + s.len >= Pos(t.una) + Len(t.sb))
             /\ s.sendalot = (Spare(t, force, cwnd) > MaxSeg)
(* The arithmetic of a turn of tcp_output. *)
<1> DEFINE Decided(st, U, N, wnd, cc, rexmt, persist, force, cwnd, win, room, len, N1,
                   rexmt1, persist1, fin) ==
             /\ win = Min2(wnd, cwnd)
             /\ room = Min2(cc, IF force /\ win = 0 THEN 1 ELSE win) - (N - U)
             /\ len = Min2(Max2(room, 0), MaxSeg)
             /\ persist1 = (persist /\ ~(force /\ win > 0))
             /\ rexmt1 = (rexmt /\ ~(room < 0 /\ win = 0 /\ ~force))
             /\ N1 = IF room < 0 /\ win = 0 /\ ~force THEN U ELSE N
             /\ fin = (/\ st = "FIN_WAIT_1" /\ ~(force /\ win = 0 /\ N - U < cc)
                       /\ N1 + len >= U + cc)
(* All the numbers of a turn. *)
<1> DEFINE Turn(st, L, U, N, M, wnd, cc, w, rexmt, persist, sentfin, force, cwnd, win, room,
                len, N1, rexmt1, persist1, fin) ==
             /\ st \in States /\ L \in Nat /\ U \in Nat /\ N \in Nat /\ M \in Nat
             /\ wnd \in Nat /\ cc \in Nat /\ w \in Nat /\ rexmt \in BOOLEAN
             /\ persist \in BOOLEAN /\ sentfin \in BOOLEAN /\ force \in BOOLEAN
             /\ cwnd \in Nat \ {0}
             /\ Books(st, L, U, N, M, wnd, cc, w, rexmt, persist, sentfin)
             /\ Decided(st, U, N, wnd, cc, rexmt, persist, force, cwnd, win, room, len, N1, rexmt1,
                        persist1, fin)
(* What follows. *)
<1> DEFINE Within(st, U, N, wnd, cc, w, rexmt, force, win, room, len, N1, rexmt1, persist1, fin) ==
             /\ win \in Nat /\ room \in Int /\ len \in Nat /\ N1 \in Nat /\ len <= MaxSeg
             /\ (win = 0 <=> wnd = 0)
             /\ rexmt1 \in BOOLEAN /\ persist1 \in BOOLEAN /\ fin \in BOOLEAN
             /\ U <= N1 /\ N1 <= N
             /\ len > 0 => /\ N1 = N /\ rexmt1 = rexmt /\ N + len <= U + cc
                           /\ ~(force /\ win = 0) => N + len <= U + wnd
             /\ room > MaxSeg => win > 0
             /\ fin => st = "FIN_WAIT_1" /\ N1 + len >= w
             /\ ~(rexmt1 /\ persist1) /\ (rexmt1 \/ N1 = U) /\ (rexmt1 => rexmt)
             /\ N1 <= U + wnd \/ (N1 = w + 1 /\ w <= U + wnd /\ N1 = N)
(* snd_nxt after a segment, and snd_max. *)
<1> DEFINE Next2(N1, len, fin) == IF fin THEN N1 + len + 1 ELSE N1 + len
<1> DEFINE Larger(M, n) == IF n > M THEN n ELSE M
<1> DEFINE Sending(st, L, U, M, wnd, cc, w, sentfin, len, N1, fin, N2, M2) ==
             /\ ~(fin /\ sentfin /\ N1 = M)
             /\ N1 + len <= w /\ (fin => N1 + len = w /\ w <= U + wnd)
             /\ U < N2 /\ N2 <= M2
             /\ Books(st, L, U, N2, M2, wnd, cc, w, TRUE, FALSE, sentfin \/ fin)
<1> DEFINE Probing(st, L, U, N, M2, wnd, cc, w, sentfin, len, N1, rexmt1, persist1, fin) ==
             /\ ~fin /\ ~rexmt1 /\ N1 = U /\ N1 = N /\ len > 0 /\ N1 + len <= w /\ N1 + len <= M2
             /\ Books(st, L, U, N1, M2, wnd, cc, w, rexmt1, persist1, sentfin)
<1> DEFINE Waiting(st, L, U, M, wnd, cc, w, sentfin, N1, rexmt1, persist1) ==
             /\ Books(st, L, U, N1, M, wnd, cc, w, rexmt1, persist1 \/ (cc > 0 /\ ~rexmt1), sentfin)
             /\ st = "FIN_WAIT_1" /\ cc = 0 => rexmt1
(* A piece with len bytes from first on. *)
<1> DEFINE IsCut(g, first, len, fin) == g \in Pieces /\ g.fin = fin /\ Stop(g) = Pos(first) + len
(* The segment tcp_output cuts out of so_snd, and when it may. *)
<1> DEFINE Cut(t, first, off, len, fin) ==
             [seq |-> first, data |-> SubSeq(t.sb, off + 1, off + len), fin |-> fin]
<1> DEFINE CanCut(t, w, first, off, len, fin) ==
             /\ Sender(t, w) /\ first \in Numbers /\ off \in Nat /\ len \in Nat /\ fin \in BOOLEAN
             /\ len <= MaxSeg /\ Pos(first) + len <= w
             /\ len > 0 => off = Pos(first) - Pos(t.una) /\ off + len <= Len(t.sb)
             /\ fin => Pos(first) + len = Total
<1> DEFINE Passes(t, w, force) ==
             {p \in [tp : TPs, out : Seq(Pieces), again : BOOLEAN, nombuf : {FALSE}] :
                /\ Sender(p.tp, w) /\ Keeps(p.tp, t) /\ AllGoOut(p.out, p.tp)
                /\ IF p.again THEN Ready(p.tp, force) ELSE Timely(p.tp, force)}
<1> HIDE DEF Win, Spare, Back, Chosen, Decided, Turn, Within, Next2,
             Larger, Sending, Probing, Waiting, IsCut, Cut, CanCut, Passes
(* So tcp_output, whose turns stay in S, ends in S, with a turn taken there. *)
<1>1. ASSUME NEW S, NEW t, NEW force, NEW cwnd,
             [tp |-> t, out |-> <<>>, again |-> TRUE, nombuf |-> FALSE] \in S,
             \A p \in S : Again(p, t.max = t.una, force, cwnd, 0) \in S
      PROVE  \E p \in S : Output(t, force, cwnd, 0) = Again(p, t.max = t.una, force, cwnd, 0)
  <2> USE <1>1
  <2> DEFINE n == Total + 1
             x == [tp |-> t, out |-> <<>>, again |-> TRUE, nombuf |-> FALSE]
             G(p) == Again(p, t.max = t.una, force, cwnd, 0)
             F == [ks \in (1 .. n) \X S |-> G(ks[2])]
             Is(f) == f = [k \in 0 .. n |-> IF k = 0 THEN x ELSE G(f[k - 1])]
             pass == CHOOSE f : Is(f)
  <2>1. Output(t, force, cwnd, 0) = pass[n]
    BY DEF Output
  <2>2. x \in S /\ \A p \in S : G(p) \in S
    OBVIOUS
  <2>3. n \in Nat /\ n > 0
    BY Sizes, SMT
  <2> HIDE DEF n, x, G
  <2>4. \A k \in 1 .. n : \A s \in S : F[<<k, s>>] = G(s)
    OBVIOUS
  <2> HIDE DEF F
  <2>15. \A k \in 1 .. n : \A s \in S : F[<<k, s>>] \in S
    BY <2>2, <2>4
  <2>16. PICK f \in [0 .. n -> S] : IsLoop(f, F, x, n)
    BY <2>2, <2>3, <2>15, LoopExists
  <2>5. f[0] = x /\ \A k \in 1 .. n : f[k] = F[<<k, f[k - 1]>>]
    BY <2>16 DEF IsLoop
  <2>6. \A k \in 0 .. n : k # 0 => k \in 1 .. n /\ k - 1 \in 0 .. n
    BY <2>3, SMT
  <2>7. Is(f)
    <3>1. ASSUME NEW k \in 0 .. n PROVE f[k] = IF k = 0 THEN x ELSE G(f[k - 1])
      <4>1. CASE k = 0
        BY <2>5, <4>1
      <4>2. CASE k # 0
        BY <2>4, <2>5, <2>6, <4>2
      <4> QED BY <4>1, <4>2
    <3> DEFINE g == [k \in 0 .. n |-> IF k = 0 THEN x ELSE G(f[k - 1])]
    <3>2. DOMAIN f = 0 .. n /\ DOMAIN g = 0 .. n /\ f = [k \in 0 .. n |-> f[k]]
      OBVIOUS
    <3>3. f = g
      BY <3>1, <3>2
    <3> QED BY <3>3
  <2>8. Is(pass)
    BY <2>7
  <2> HIDE DEF pass
  <2>9. pass[0] = x /\ \A k \in 1 .. n : pass[k] = G(pass[k - 1])
    <3>1. 0 \in 0 .. n /\ \A k \in 1 .. n : k \in 0 .. n /\ k # 0
      BY <2>3, SMT
    <3> QED BY <2>8, <3>1
  <2> DEFINE T == {k \in Nat : k <= n => pass[k] \in S}
  <2>10. 0 \in T
    BY <2>2, <2>9, SMT
  <2>11. ASSUME NEW k \in T PROVE k + 1 \in T
    <3> SUFFICES ASSUME k + 1 <= n PROVE pass[k + 1] \in S
      BY SMT
    <3>1. k + 1 \in 1 .. n /\ (k + 1) - 1 = k /\ k <= n
      BY <2>3, SMT
    <3>2. pass[k] \in S
      BY <3>1
    <3> QED BY <2>2, <2>9, <3>1, <3>2
  <2>12. T = Nat
    <3>1. T \subseteq Nat
      OBVIOUS
    <3> HIDE DEF T
    <3> QED BY <2>10, <2>11, <3>1, NatSetInduction
  <2>13. n - 1 \in Nat /\ n - 1 <= n /\ n \in 1 .. n
    BY <2>3, SMT
  <2>14. pass[n - 1] \in S /\ pass[n] = G(pass[n - 1])
    BY <2>9, <2>12, <2>13
  <2> QED BY <2>1, <2>14 DEF G
(* What tcp_output decides, in places of the stream. *)
<1>2. ASSUME NEW t, NEW w, Sender(t, w), NEW force \in BOOLEAN, NEW cwnd \in Nat \ {0},
             NEW s, s = Decide(t, force, cwnd)
      PROVE  Chosen(t, force, cwnd, s)
  <2> USE <1>2
  <2> DEFINE cc == Len(t.sb)
             off == Diff(t.nxt, t.una)
             win == Min2(t.wnd, cwnd)
             probe == force /\ win = 0
             room == Min2(cc, IF probe THEN 1 ELSE win) - off
             len == Min2(Max2(room, 0), MaxSeg)
             back == room < 0 /\ win = 0 /\ ~probe
             u == [t EXCEPT !.persist = @ /\ ~(force /\ win > 0),
                            !.rexmt = @ /\ ~(room < 0 /\ win = 0 /\ ~probe),
                            !.nxt = IF room < 0 /\ win = 0 /\ ~probe THEN t.una ELSE @]
             fin == /\ t.t_state = "FIN_WAIT_1"
                    /\ ~(probe /\ off < cc)
                    /\ ~SEQ_LT(Add(u.nxt, len), Add(t.una, cc))
  <2>1. s = [tp |-> u, off |-> off, len |-> len, fin |-> fin, sendalot |-> room > MaxSeg]
    BY DEF Decide
  <2>2. s.tp = u /\ s.off = off /\ s.len = len /\ s.fin = fin /\ s.sendalot = (room > MaxSeg)
    BY <2>1, SMT
  <2>3. t \in TPs
    BY DEF Sender
  <2>4. off = Pos(t.nxt) - Pos(t.una)
    BY <2>3, TPFacts, DiffPos
  <2>5. win = Win(t, cwnd) /\ win \in Nat
    <3>1. t.wnd \in Nat
      BY <2>3, TPFacts
    <3> QED BY <3>1, SMT DEF Win, Min2
  <2>6. room = Spare(t, force, cwnd) /\ room \in Int
    <3>1. room = Spare(t, force, cwnd)
      BY <2>4, <2>5 DEF Spare
    <3>2. Pos(t.nxt) \in Nat /\ Pos(t.una) \in Nat /\ cc \in Nat
      BY <2>3, TPFacts
    <3> HIDE DEF cc, off, win, Pos
    <3>3. room \in Int
      BY <2>4, <2>5, <3>2, SMT DEF Min2
    <3> QED BY <3>1, <3>3
  <2>7. back = Back(t, force, cwnd) /\ back \in BOOLEAN
    BY <2>5, <2>6 DEF Back
  <2>8. len \in Nat
    <3> HIDE DEF room
    <3> QED BY <2>6, Sizes, SMT DEF Min2, Max2
  <2>9. u = [t EXCEPT !.persist = t.persist /\ ~(force /\ win > 0),
                      !.rexmt = t.rexmt /\ ~back,
                      !.nxt = IF back THEN t.una ELSE t.nxt]
    BY <2>3 DEF TPs
  <2> HIDE DEF off, win, room, len, back, u
  <2>10. /\ u.t_state = t.t_state /\ u.una = t.una /\ u.max = t.max /\ u.wnd = t.wnd
         /\ u.wl2 = t.wl2 /\ u.sb = t.sb /\ u.sentfin = t.sentfin
         /\ u.persist = (t.persist /\ ~(force /\ win > 0))
         /\ u.rexmt = (t.rexmt /\ ~back)
         /\ u.nxt = IF back THEN t.una ELSE t.nxt
    BY <2>3, <2>9 DEF TPs
  <2>11. u \in TPs
    <3>1. t.una \in Numbers /\ t.nxt \in Numbers
      BY <2>3, TPFacts
    <3>2. (IF back THEN t.una ELSE t.nxt) \in Numbers
      BY <3>1
    <3> QED BY <2>3, <2>9, <3>2 DEF TPs
  <2>12. Pos(t.una) + cc <= Horizon /\ Pos(u.nxt) + len <= Horizon
    <3>1. /\ Pos(t.nxt) \in Nat /\ Pos(t.una) \in Nat /\ cc \in Nat /\ t.wnd \in Nat
          /\ Pos(t.nxt) <= Horizon /\ Pos(t.una) <= Horizon
      BY <2>3, TPFacts, NumberIsPlace
    <3>2. /\ w \in 0 .. Total
          /\ IF t.t_state = "FIN_WAIT_2" THEN cc = 0 /\ Pos(t.una) = w + 1 ELSE Pos(t.una) + cc = w
      BY DEF Sender, Books
    <3>3. Pos(t.una) + cc <= Horizon
      <4> HIDE DEF Pos, cc
      <4> QED BY <3>1, <3>2, Sizes, SMT
    <3>4. u.nxt = t.una \/ u.nxt = t.nxt
      BY <2>10
    <3>5. CASE len = 0
      <4>1. Pos(u.nxt) \in Nat /\ Pos(u.nxt) <= Horizon
        BY <3>1, <3>4
      <4>2. Pos(u.nxt) + len <= Horizon
        BY <3>5, <4>1, Sizes, SMT
      <4> QED BY <3>3, <4>2
    <3>6. CASE len # 0
      <4> HIDE DEF Pos, cc
      <4>1. room > 0 /\ len <= room
        BY <2>6, <3>6, Sizes, SMT DEF len, Min2, Max2
      <4>2. room <= cc - off
        BY <2>4, <2>5, <3>1, SMT DEF room, Min2
      <4>3. ~back
        BY <2>6, <4>1, SMT DEF back
      <4>4. u.nxt = t.nxt
        BY <2>10, <4>3
      <4>5. Pos(t.nxt) + len <= Pos(t.una) + cc
        BY <2>4, <2>6, <2>8, <3>1, <4>1, <4>2, SMT
      <4>6. Pos(t.nxt) + len <= Horizon
        BY <2>8, <3>1, <3>3, <4>5, Sizes, SMT
      <4> QED BY <3>3, <4>4, <4>6
    <3> QED BY <3>5, <3>6
  <2>13. SEQ_LT(Add(u.nxt, len), Add(t.una, cc)) <=> Pos(u.nxt) + len < Pos(t.una) + cc
    <3>1. /\ u.nxt \in Numbers /\ Pos(u.nxt) \in Nat
          /\ t.una \in Numbers /\ Pos(t.una) \in Nat /\ cc \in Nat
      BY <2>3, <2>11, TPFacts
    <3>2. /\ len \in Int /\ cc \in Int
          /\ Pos(u.nxt) + len \in 0 .. Horizon /\ Pos(t.una) + cc \in 0 .. Horizon
      <4> HIDE DEF Pos, cc
      <4> QED BY <2>8, <2>12, <3>1, Sizes, SMT
    <3>3. /\ Add(u.nxt, len) \in Numbers /\ Pos(Add(u.nxt, len)) = Pos(u.nxt) + len
          /\ Add(t.una, cc) \in Numbers /\ Pos(Add(t.una, cc)) = Pos(t.una) + cc
      BY <3>1, <3>2, AddPos
    <3> HIDE DEF Pos, cc
    <3> QED BY <3>3, SeqPos
  <2>14. fin = (/\ t.t_state = "FIN_WAIT_1"
                /\ ~(force /\ Win(t, cwnd) = 0 /\ Pos(t.nxt) - Pos(t.una) < Len(t.sb))
                /\ Pos(u.nxt) + len >= Pos(t.una) + Len(t.sb))
    <3>1. Pos(u.nxt) + len \in Int /\ Pos(t.una) + cc \in Int
      <4>1. Pos(u.nxt) \in Nat /\ Pos(t.una) \in Nat /\ cc \in Nat
        BY <2>3, <2>11, TPFacts
      <4> HIDE DEF Pos, cc
      <4> QED BY <2>8, <4>1, SMT
    <3>2. (~(Pos(u.nxt) + len < Pos(t.una) + cc)) <=> Pos(u.nxt) + len >= Pos(t.una) + cc
      <4> HIDE DEF Pos, cc
      <4> QED BY <3>1, SMT
    <3> HIDE DEF Pos
    <3> QED BY <2>4, <2>5, <2>13, <3>2
  <2> HIDE DEF Pos, fin
  <2> QED BY <2>2, <2>4, <2>5, <2>6, <2>7, <2>10, <2>11, <2>14 DEF len, Chosen
(* What is decided is within so_snd and the window. *)
<1>3. ASSUME NEW st, NEW L, NEW U, NEW N, NEW M, NEW wnd, NEW cc, NEW w, NEW rexmt, NEW persist,
             NEW sentfin, NEW force, NEW cwnd, NEW win, NEW room, NEW len, NEW N1, NEW rexmt1,
             NEW persist1, NEW fin,
             Turn(st, L, U, N, M, wnd, cc, w, rexmt, persist, sentfin, force, cwnd, win, room, len,
                  N1, rexmt1, persist1, fin)
      PROVE  Within(st, U, N, wnd, cc, w, rexmt, force, win, room, len, N1, rexmt1, persist1, fin)
  <2> USE <1>3
  <2>0. /\ st \in States /\ L \in Nat /\ U \in Nat /\ N \in Nat /\ M \in Nat
        /\ wnd \in Nat /\ cc \in Nat /\ w \in Nat /\ rexmt \in BOOLEAN
        /\ persist \in BOOLEAN /\ sentfin \in BOOLEAN /\ force \in BOOLEAN
        /\ cwnd \in Nat \ {0}
        /\ Books(st, L, U, N, M, wnd, cc, w, rexmt, persist, sentfin)
        /\ Decided(st, U, N, wnd, cc, rexmt, persist, force, cwnd, win, room, len, N1, rexmt1,
                   persist1, fin)
    BY DEF Turn
  <2> USE <2>0
  <2>1. win \in Nat /\ win <= wnd /\ (win = 0 <=> wnd = 0)
    BY SMT DEF Decided, Min2
  <2>2. room \in Int /\ room <= cc - (N - U) /\ (~(force /\ win = 0) => room <= win - (N - U))
        /\ (win = 0 => room <= 1)
    BY <2>1, SMT DEF Decided, Min2, Books
  <2>3. len \in Nat /\ len <= MaxSeg /\ (len > 0 => len <= room)
    BY <2>2, Sizes, SMT DEF Decided, Min2, Max2
  <2>4. N1 \in Nat /\ U <= N1 /\ N1 <= N /\ (room >= 0 => N1 = N /\ rexmt1 = rexmt)
    BY <2>2, SMT DEF Decided, Books
  <2>5. rexmt1 \in BOOLEAN /\ persist1 \in BOOLEAN /\ fin \in BOOLEAN
    BY DEF Decided
  <2>6. len > 0 => /\ N1 = N /\ rexmt1 = rexmt /\ N + len <= U + cc
                   /\ ~(force /\ win = 0) => N + len <= U + wnd
    BY <2>1, <2>2, <2>3, <2>4, SMT
  <2>7. room > MaxSeg => win > 0
    BY <2>1, <2>2, Sizes, SMT
  <2>8. fin => st = "FIN_WAIT_1" /\ N1 + len >= w
    BY DEF Decided, Books
  <2>9. ~(rexmt1 /\ persist1) /\ (rexmt1 \/ N1 = U) /\ (rexmt1 => rexmt)
    BY DEF Decided, Books
  <2>10. N1 <= U + wnd \/ (N1 = w + 1 /\ w <= U + wnd /\ N1 = N)
    BY <2>4, SMT DEF Decided, Books
  <2> QED BY <2>1, <2>2, <2>3, <2>4, <2>5, <2>6, <2>7, <2>8, <2>9, <2>10 DEF Within
(* A segment that is not a probe: its end is within the window, a FIN in   *)
(* it is after the last byte, and the retransmit timer runs.               *)
<1>4. ASSUME NEW st, NEW L, NEW U, NEW N, NEW M, NEW wnd, NEW cc, NEW w, NEW rexmt, NEW persist,
             NEW sentfin, NEW force, NEW cwnd, NEW win, NEW room, NEW len, NEW N1, NEW rexmt1,
             NEW persist1, NEW fin,
             Turn(st, L, U, N, M, wnd, cc, w, rexmt, persist, sentfin, force, cwnd, win, room, len,
                  N1, rexmt1, persist1, fin),
             len > 0 \/ (fin /\ (~sentfin \/ N1 = U)),
             ~(force /\ win = 0)
      PROVE  Sending(st, L, U, M, wnd, cc, w, sentfin, len, N1, fin, Next2(N1, len, fin),
                     Larger(M, Next2(N1, len, fin)))
  <2> USE <1>4
  <2> DEFINE N2 == Next2(N1, len, fin)
             M2 == Larger(M, N2)
  <2>0. /\ st \in States /\ L \in Nat /\ U \in Nat /\ N \in Nat /\ M \in Nat
        /\ wnd \in Nat /\ cc \in Nat /\ w \in Nat /\ rexmt \in BOOLEAN
        /\ persist \in BOOLEAN /\ sentfin \in BOOLEAN /\ force \in BOOLEAN
        /\ cwnd \in Nat \ {0}
        /\ Books(st, L, U, N, M, wnd, cc, w, rexmt, persist, sentfin)
        /\ Decided(st, U, N, wnd, cc, rexmt, persist, force, cwnd, win, room, len, N1, rexmt1,
                   persist1, fin)
    BY DEF Turn
  <2> USE <2>0
  <2>1. /\ win \in Nat /\ room \in Int /\ len \in Nat /\ N1 \in Nat /\ len <= MaxSeg
        /\ rexmt1 \in BOOLEAN /\ persist1 \in BOOLEAN /\ fin \in BOOLEAN
        /\ U <= N1 /\ N1 <= N
        /\ len > 0 => N1 = N /\ N + len <= U + cc /\ N + len <= U + wnd
        /\ fin => st = "FIN_WAIT_1" /\ N1 + len >= w
        /\ N1 <= U + wnd \/ (N1 = w + 1 /\ w <= U + wnd /\ N1 = N)
    <3>1. Within(st, U, N, wnd, cc, w, rexmt, force, win, room, len, N1, rexmt1, persist1, fin)
      BY <1>3
    <3> QED BY <3>1 DEF Within
  <2>15. /\ N2 = IF fin THEN N1 + len + 1 ELSE N1 + len
         /\ M2 = IF N2 > M THEN N2 ELSE M
    BY DEF Next2, Larger
  <2> HIDE DEF N2, M2
  <2>16. N2 \in Nat /\ M2 \in Nat
    BY <2>1, <2>15, SMT
  <2>2. /\ L <= U /\ U <= N /\ N <= M
        /\ (st = "FIN_WAIT_2" => cc = 0 /\ U = w + 1)
        /\ (st # "FIN_WAIT_2" => U + cc = w)
        /\ (sentfin => M = w + 1 /\ st # "ESTABLISHED") /\ (~sentfin => M <= w)
        /\ (st # "ESTABLISHED" => w = Total)
    BY DEF Books
  <2>3. ~(fin /\ sentfin /\ N1 = M)
    <3> SUFFICES ASSUME fin, sentfin, N1 = M PROVE FALSE
      OBVIOUS
    <3>1. st = "FIN_WAIT_1" /\ st # "FIN_WAIT_2"
      BY <2>1
    <3> QED BY <2>1, <2>2, <3>1, SMT
  <2>4. len > 0 => st # "FIN_WAIT_2"
    BY <2>1, <2>2, SMT
  <2>5. N1 + len <= w /\ (fin => N1 + len = w /\ w <= U + wnd)
    <3>1. CASE len > 0
      BY <2>1, <2>2, <2>4, <3>1, SMT
    <3>2. CASE len = 0
      <4>1. fin /\ st = "FIN_WAIT_1" /\ (~sentfin \/ N1 = U)
        BY <2>1, <3>2, SMT
      <4>2. U + cc = w /\ N1 >= w
        BY <2>1, <2>2, <3>2, <4>1, SMT
      <4>3. N1 <= w
        BY <2>1, <2>2, <4>1, <4>2, SMT
      <4> QED BY <2>1, <2>2, <3>2, <4>1, <4>2, <4>3, SMT
    <3> QED BY <2>1, <3>1, <3>2, SMT
  <2>6. U < N2 /\ N2 <= M2 /\ M <= M2
    BY <2>1, <2>2, <2>15, <2>16, SMT
  <2>7. fin => N2 = w + 1 /\ M2 = w + 1
    BY <2>1, <2>2, <2>5, <2>15, <2>16, SMT
  <2>8. ~fin => N2 <= w /\ N2 <= U + wnd
    BY <2>1, <2>2, <2>5, <2>15, <2>16, SMT
  <2>9. (sentfin \/ fin) => M2 = w + 1 /\ st # "ESTABLISHED"
    <3>1. fin => st # "ESTABLISHED"
      BY <2>1
    <3> QED BY <2>1, <2>2, <2>7, <2>8, <3>1, <2>15, <2>16, SMT
  <2>10. ~(sentfin \/ fin) => M2 <= w
    BY <2>1, <2>2, <2>8, <2>15, <2>16, SMT
  <2>11. L <= U /\ U <= N2 /\ N2 <= M2 /\ U < M2
    BY <2>2, <2>6, <2>15, <2>16, SMT
  <2>12. N2 <= U + wnd \/ (N2 = w + 1 /\ w <= U + wnd)
    BY <2>5, <2>7, <2>8
  <2>13. Books(st, L, U, N2, M2, wnd, cc, w, TRUE, FALSE, sentfin \/ fin)
    BY <2>2, <2>9, <2>10, <2>11, <2>12 DEF Books
  <2> QED BY <2>3, <2>5, <2>6, <2>13 DEF Sending, N2, M2
(* A probe: one byte, never the FIN. *)
<1>5. ASSUME NEW st, NEW L, NEW U, NEW N, NEW M, NEW wnd, NEW cc, NEW w, NEW rexmt, NEW persist,
             NEW sentfin, NEW force, NEW cwnd, NEW win, NEW room, NEW len, NEW N1, NEW rexmt1,
             NEW persist1, NEW fin,
             Turn(st, L, U, N, M, wnd, cc, w, rexmt, persist, sentfin, force, cwnd, win, room, len,
                  N1, rexmt1, persist1, fin),
             len > 0 \/ (fin /\ (~sentfin \/ N1 = U)),
             force, persist1, st = "FIN_WAIT_1" => cc > 0
      PROVE  Probing(st, L, U, N, Larger(M, N1 + len), wnd, cc, w, sentfin, len, N1,
                     rexmt1, persist1, fin)
  <2> USE <1>5
  <2> DEFINE M2 == Larger(M, N1 + len)
  <2>0. /\ st \in States /\ L \in Nat /\ U \in Nat /\ N \in Nat /\ M \in Nat
        /\ wnd \in Nat /\ cc \in Nat /\ w \in Nat /\ rexmt \in BOOLEAN
        /\ persist \in BOOLEAN /\ sentfin \in BOOLEAN /\ force \in BOOLEAN
        /\ cwnd \in Nat \ {0}
        /\ Books(st, L, U, N, M, wnd, cc, w, rexmt, persist, sentfin)
        /\ Decided(st, U, N, wnd, cc, rexmt, persist, force, cwnd, win, room, len, N1, rexmt1,
                   persist1, fin)
    BY DEF Turn
  <2> USE <2>0
  <2>1. /\ win \in Nat /\ room \in Int /\ len \in Nat /\ N1 \in Nat /\ len <= MaxSeg
        /\ (win = 0 <=> wnd = 0)
        /\ rexmt1 \in BOOLEAN /\ persist1 \in BOOLEAN /\ fin \in BOOLEAN
        /\ len > 0 => N1 = N /\ N + len <= U + cc
        /\ ~(rexmt1 /\ persist1) /\ (rexmt1 \/ N1 = U)
    <3>1. Within(st, U, N, wnd, cc, w, rexmt, force, win, room, len, N1, rexmt1, persist1, fin)
      BY <1>3
    <3> QED BY <3>1 DEF Within
  <2>15. M2 = IF N1 + len > M THEN N1 + len ELSE M
    BY DEF Larger
  <2> HIDE DEF M2
  <2>16. M2 \in Nat
    BY <2>1, <2>15, SMT
  <2>2. /\ L <= U /\ U <= N /\ N <= M
        /\ (st = "FIN_WAIT_2" => cc = 0 /\ U = w + 1)
        /\ (st # "FIN_WAIT_2" => U + cc = w)
        /\ (sentfin => M = w + 1 /\ st # "ESTABLISHED") /\ (~sentfin => M <= w)
        /\ (st # "ESTABLISHED" => w = Total)
        /\ ~(rexmt /\ persist) /\ (rexmt \/ N = U)
    BY DEF Books
  <2>3. persist /\ win = 0 /\ ~rexmt /\ N = U /\ ~rexmt1 /\ N1 = U
    BY <2>1, <2>2, SMT DEF Decided
  <2>4. ~fin
    <3> SUFFICES ASSUME fin PROVE FALSE
      OBVIOUS
    <3>1. st = "FIN_WAIT_1" /\ ~(N - U < cc)
      BY <2>3 DEF Decided
    <3> QED BY <2>2, <2>3, <3>1, SMT
  <2>5. len > 0
    BY <2>4
  <2>6. cc > 0 /\ st # "FIN_WAIT_2" /\ N1 + len <= w
    BY <2>1, <2>2, <2>3, <2>5, SMT
  <2>7. N1 + len <= M2 /\ M <= M2 /\ (sentfin => M2 = w + 1) /\ (~sentfin => M2 <= w)
    BY <2>1, <2>2, <2>6, <2>15, <2>16, SMT
  <2>8. N1 <= U + wnd /\ U <= N1 /\ N1 <= M2
    BY <2>1, <2>2, <2>3, <2>7, <2>15, <2>16, SMT
  <2>9. Books(st, L, U, N1, M2, wnd, cc, w, rexmt1, persist1, sentfin)
    BY <2>1, <2>2, <2>3, <2>6, <2>7, <2>8 DEF Books
  <2> QED BY <2>3, <2>4, <2>5, <2>6, <2>7, <2>9 DEF Probing, M2
(* Nothing sent: the persist timer is started if there is data and no      *)
(* other timer.                                                            *)
<1>6. ASSUME NEW st, NEW L, NEW U, NEW N, NEW M, NEW wnd, NEW cc, NEW w, NEW rexmt, NEW persist,
             NEW sentfin, NEW force, NEW cwnd, NEW win, NEW room, NEW len, NEW N1, NEW rexmt1,
             NEW persist1, NEW fin,
             Turn(st, L, U, N, M, wnd, cc, w, rexmt, persist, sentfin, force, cwnd, win, room, len,
                  N1, rexmt1, persist1, fin),
             ~(fin /\ (~sentfin \/ N1 = U))
      PROVE  Waiting(st, L, U, M, wnd, cc, w, sentfin, N1, rexmt1, persist1)
  <2> USE <1>6
  <2>0. /\ st \in States /\ L \in Nat /\ U \in Nat /\ N \in Nat /\ M \in Nat
        /\ wnd \in Nat /\ cc \in Nat /\ w \in Nat /\ rexmt \in BOOLEAN
        /\ persist \in BOOLEAN /\ sentfin \in BOOLEAN /\ force \in BOOLEAN
        /\ cwnd \in Nat \ {0}
        /\ Books(st, L, U, N, M, wnd, cc, w, rexmt, persist, sentfin)
        /\ Decided(st, U, N, wnd, cc, rexmt, persist, force, cwnd, win, room, len, N1, rexmt1,
                   persist1, fin)
    BY DEF Turn
  <2> USE <2>0
  <2>1. /\ win \in Nat /\ room \in Int /\ len \in Nat /\ N1 \in Nat /\ len <= MaxSeg
        /\ rexmt1 \in BOOLEAN /\ persist1 \in BOOLEAN /\ fin \in BOOLEAN
        /\ U <= N1 /\ N1 <= N
        /\ ~(rexmt1 /\ persist1) /\ (rexmt1 \/ N1 = U) /\ (rexmt1 => rexmt)
        /\ N1 <= U + wnd \/ (N1 = w + 1 /\ w <= U + wnd /\ N1 = N)
    <3>1. Within(st, U, N, wnd, cc, w, rexmt, force, win, room, len, N1, rexmt1, persist1, fin)
      BY <1>3
    <3> QED BY <3>1 DEF Within
  <2>2. /\ L <= U /\ U <= N /\ N <= M /\ (rexmt => U < M)
    BY DEF Books
  <2>3. U <= N1 /\ N1 <= M
    BY <2>1, <2>2, SMT
  <2>4. Books(st, L, U, N1, M, wnd, cc, w, rexmt1, persist1 \/ (cc > 0 /\ ~rexmt1), sentfin)
    BY <2>1, <2>2, <2>3 DEF Books
  <2>5. ASSUME st = "FIN_WAIT_1", cc = 0 PROVE rexmt1
    <3>1. ~(N - U < cc) /\ N1 + len >= U + cc
      BY <2>1, <2>2, <2>5, SMT
    <3>2. fin
      BY <2>5, <3>1 DEF Decided
    <3> QED BY <2>1, <3>2
  <2> QED BY <2>4, <2>5 DEF Waiting
(* The turn that the control block t takes. *)
<1>7. ASSUME NEW t, NEW w, Sender(t, w), NEW force \in BOOLEAN, NEW cwnd \in Nat \ {0},
             NEW s, s = Decide(t, force, cwnd)
      PROVE  Turn(t.t_state, Pos(t.wl2), Pos(t.una), Pos(t.nxt), Pos(t.max), t.wnd, Len(t.sb), w,
                  t.rexmt, t.persist, t.sentfin, force, cwnd, Win(t, cwnd), Spare(t, force, cwnd),
                  s.len, Pos(s.tp.nxt), s.tp.rexmt, s.tp.persist, s.fin)
  <2> USE <1>7
  <2>1. t \in TPs /\ w \in 0 .. Total
        /\ Books(t.t_state, Pos(t.wl2), Pos(t.una), Pos(t.nxt), Pos(t.max), t.wnd, Len(t.sb), w,
                 t.rexmt, t.persist, t.sentfin)
    BY DEF Sender
  <2>2. /\ t.t_state \in States
        /\ Pos(t.una) \in Nat /\ Pos(t.nxt) \in Nat /\ Pos(t.max) \in Nat /\ Pos(t.wl2) \in Nat
        /\ t.wnd \in Nat /\ Len(t.sb) \in Nat
        /\ t.rexmt \in BOOLEAN /\ t.persist \in BOOLEAN /\ t.sentfin \in BOOLEAN
    BY <2>1, TPFacts DEF States
  <2>3. w \in Nat
    BY <2>1, Sizes, SMT
  <2>4. /\ s.len = Min2(Max2(Spare(t, force, cwnd), 0), MaxSeg)
        /\ s.tp.persist = (t.persist /\ ~(force /\ Win(t, cwnd) > 0))
        /\ s.tp.rexmt = (t.rexmt /\ ~Back(t, force, cwnd))
        /\ s.tp.nxt = (IF Back(t, force, cwnd) THEN t.una ELSE t.nxt)
        /\ s.fin = (/\ t.t_state = "FIN_WAIT_1"
                    /\ ~(force /\ Win(t, cwnd) = 0 /\ Pos(t.nxt) - Pos(t.una) < Len(t.sb))
                    /\ Pos(s.tp.nxt) + s.len >= Pos(t.una) + Len(t.sb))
    <3>1. Chosen(t, force, cwnd, s)
      BY <1>2
    <3> QED BY <3>1 DEF Chosen
  <2> HIDE DEF Pos
  <2>5. Pos(s.tp.nxt) = IF Back(t, force, cwnd) THEN Pos(t.una) ELSE Pos(t.nxt)
    BY <2>4
  <2>6. Decided(t.t_state, Pos(t.una), Pos(t.nxt), t.wnd, Len(t.sb), t.rexmt, t.persist, force,
                cwnd, Win(t, cwnd), Spare(t, force, cwnd), s.len, Pos(s.tp.nxt), s.tp.rexmt,
                s.tp.persist, s.fin)
    BY <2>4, <2>5 DEF Decided, Win, Spare, Back
  <2> QED BY <2>1, <2>2, <2>3, <2>6 DEF Turn
(* The segment cut out of so_snd is a piece of the stream. *)
<1>8. ASSUME NEW t, NEW w, NEW first, NEW off, NEW len, NEW fin, CanCut(t, w, first, off, len, fin)
      PROVE  IsCut(Cut(t, first, off, len, fin), first, len, fin)
  <2> USE <1>8
  <2> DEFINE g == Cut(t, first, off, len, fin)
  <2>0. /\ Sender(t, w) /\ first \in Numbers /\ off \in Nat /\ len \in Nat /\ fin \in BOOLEAN
        /\ len <= MaxSeg /\ Pos(first) + len <= w
        /\ len > 0 => off = Pos(first) - Pos(t.una) /\ off + len <= Len(t.sb)
        /\ fin => Pos(first) + len = Total
        /\ g = [seq |-> first, data |-> SubSeq(t.sb, off + 1, off + len), fin |-> fin]
    BY DEF CanCut, Cut
  <2> HIDE DEF g
  <2> USE <2>0
  <2>1. t \in TPs /\ w \in 0 .. Total /\ \A i \in 1 .. Len(t.sb) : t.sb[i] = Pos(t.una) + i
    BY DEF Sender
  <2>2. t.sb \in Seq(1 .. Total) /\ Len(t.sb) \in Nat /\ Pos(t.una) \in Nat /\ Pos(first) \in Nat
    BY <2>1, TPFacts, NumberIsPlace
  <2> DEFINE d == SubSeq(t.sb, off + 1, off + len)
  <2>3. g.seq = first /\ g.data = d /\ g.fin = fin
    OBVIOUS
  <2>4. d \in Seq(1 .. Total) /\ Len(d) = len /\ \A j \in 1 .. len : d[j] = Pos(first) + j
    <3>1. CASE len = 0
      <4>1. off + 1 \in Int /\ off + len \in Int /\ off + 1 > off + len
        BY <3>1, SMT
      <4>2. d = <<>>
        BY <4>1, SMT
      <4>3. <<>> \in Seq(1 .. Total) /\ Len(<<>>) = 0
        BY EmptySeq, LenProperties
      <4>4. 1 .. len = {}
        BY <3>1, SMT
      <4> QED BY <3>1, <4>2, <4>3, <4>4
    <3>2. CASE len # 0
      <4> HIDE DEF Pos
      <4>1. off = Pos(first) - Pos(t.una) /\ off + len <= Len(t.sb)
        BY <3>2, SMT
      <4>2. /\ off + 1 \in Nat /\ off + len \in Nat /\ 1 <= off + 1 /\ off + 1 <= (off + len) + 1
            /\ ((off + len) + 1) - (off + 1) = len
        BY SMT
      <4>3. /\ d \in Seq(1 .. Total)
            /\ Len(d) = ((off + len) + 1) - (off + 1)
            /\ \A i \in 1 .. ((off + len) + 1) - (off + 1) :
                 d[i] = t.sb[((off + 1) - 1) + i] /\ ((off + 1) - 1) + i \in 1 .. Len(t.sb)
        BY <2>2, <4>1, <4>2, Part
      <4>4. ASSUME NEW j \in 1 .. len PROVE d[j] = Pos(first) + j
        <5>1. d[j] = t.sb[((off + 1) - 1) + j] /\ ((off + 1) - 1) + j \in 1 .. Len(t.sb)
          BY <4>2, <4>3
        <5>2. t.sb[((off + 1) - 1) + j] = Pos(t.una) + (((off + 1) - 1) + j)
          BY <2>1, <5>1
        <5>3. Pos(t.una) + (((off + 1) - 1) + j) = Pos(first) + j
          BY <2>2, <4>1, SMT
        <5> QED BY <5>1, <5>2, <5>3
      <4> QED BY <4>2, <4>3, <4>4
    <3> QED BY <3>1, <3>2
  <2> HIDE DEF d
  <2>5. Stop(g) = Pos(first) + len
    BY <2>3, <2>4 DEF Stop
  <2>6. Pos(first) + len <= Total
    <3> HIDE DEF Pos
    <3> QED BY <2>1, <2>2, Sizes, SMT
  <2>7. g \in [seq : Numbers, data : Seq(1 .. Total), fin : BOOLEAN]
    BY <2>4 DEF d
  <2>8. /\ Len(g.data) <= MaxSeg /\ Stop(g) <= Total
        /\ \A j \in 1 .. Len(g.data) : g.data[j] = Pos(g.seq) + j
        /\ g.fin => Stop(g) = Total
    <3> HIDE DEF Pos, Stop
    <3> QED BY <2>3, <2>4, <2>5, <2>6
  <2> QED BY <2>3, <2>5, <2>7, <2>8 DEF Pieces, IsCut, g
(* A segment that is no probe. *)
<1>9. ASSUME NEW t, NEW w, Sender(t, w), NEW force \in BOOLEAN, NEW cwnd \in Nat \ {0},
             NEW s, s = Decide(t, force, cwnd),
             s.len > 0 \/ (s.fin /\ (~s.tp.sentfin \/ s.tp.nxt = s.tp.una)),
             ~force \/ ~s.tp.persist, force => t.persist \/ t.wnd > 0,
             NEW x, x = Sent(s, force)
      PROVE  /\ Sender(x.tp, w) /\ Keeps(x.tp, t) /\ GoesOut(x.seg, x.tp)
             /\ x.tp.rexmt /\ ~x.tp.persist
  <2> USE <1>9
  <2> DEFINE win == Win(t, cwnd)
             room == Spare(t, force, cwnd)
             len == s.len
             u == s.tp
             fin == s.fin
             U == Pos(t.una)
             N1 == Pos(u.nxt)
             M == Pos(t.max)
             cc == Len(t.sb)
             N2 == Next2(N1, len, fin)
             M2 == Larger(M, N2)
  <2>1. Turn(t.t_state, Pos(t.wl2), U, Pos(t.nxt), M, t.wnd, cc, w, t.rexmt, t.persist,
             t.sentfin, force, cwnd, win, room, len, N1, u.rexmt, u.persist, fin)
    BY <1>7
  <2>2. /\ s.off = Pos(t.nxt) - Pos(t.una)
        /\ u \in TPs
        /\ u.t_state = t.t_state /\ u.una = t.una /\ u.max = t.max /\ u.wnd = t.wnd
        /\ u.wl2 = t.wl2 /\ u.sb = t.sb /\ u.sentfin = t.sentfin
        /\ u.persist = (t.persist /\ ~(force /\ win > 0))
    <3>1. Chosen(t, force, cwnd, s)
      BY <1>2
    <3> QED BY <3>1 DEF Chosen
  <2>3. Within(t.t_state, U, Pos(t.nxt), t.wnd, cc, w, t.rexmt, force, win, room, len, N1,
               u.rexmt, u.persist, fin)
    BY <2>1, <1>3, ZenonT(30)
  <2>4. /\ win \in Nat /\ len \in Nat /\ N1 \in Nat /\ len <= MaxSeg
        /\ (win = 0 <=> t.wnd = 0) /\ fin \in BOOLEAN
        /\ U <= N1 /\ N1 <= Pos(t.nxt)
        /\ len > 0 => N1 = Pos(t.nxt) /\ Pos(t.nxt) + len <= U + cc
        /\ fin => t.t_state = "FIN_WAIT_1"
    BY <2>3 DEF Within
  <2>5. /\ t \in TPs /\ w \in 0 .. Total
        /\ \A i \in 1 .. Len(t.sb) : t.sb[i] = Pos(t.una) + i
        /\ Books(t.t_state, Pos(t.wl2), Pos(t.una), Pos(t.nxt), Pos(t.max), t.wnd, Len(t.sb), w,
                 t.rexmt, t.persist, t.sentfin)
    BY DEF Sender
  <2>6. /\ t.una \in Numbers /\ t.max \in Numbers /\ t.sb \in Seq(1 .. Total)
        /\ U \in Nat /\ Pos(t.nxt) \in Nat /\ M \in Nat /\ t.wnd \in Nat /\ cc \in Nat
        /\ t.persist \in BOOLEAN /\ u.nxt \in Numbers
    BY <2>2, <2>5, TPFacts
  <2> HIDE DEF Pos, win, room, cc
  <2>7. ~(force /\ win = 0)
    <3> SUFFICES ASSUME force, win = 0 PROVE FALSE
      OBVIOUS
    <3>1. t.wnd = 0
      BY <2>4
    <3>2. ~(win > 0)
      BY <2>4, SMT
    <3>3. ~t.persist
      BY <2>2, <3>2
    <3> QED BY <2>6, <3>1, <3>3, SMT
  <2>8. len > 0 \/ (fin /\ (~t.sentfin \/ N1 = U))
    <3>1. u.nxt = t.una => N1 = U
      OBVIOUS
    <3> QED BY <2>2, <3>1
  <2>9. N2 \in Nat /\ M2 \in Nat
    BY <2>4, <2>6, SMT DEF Next2, Larger
  <2>26. N2 = (IF fin THEN N1 + len + 1 ELSE N1 + len) /\ M2 = (IF N2 > M THEN N2 ELSE M)
    BY DEF Next2, Larger
  <2> HIDE DEF len, fin, U, N1, M, u
  <2>10. /\ ~(fin /\ t.sentfin /\ N1 = M)
         /\ N1 + len <= w /\ (fin => N1 + len = w /\ w <= U + t.wnd)
         /\ U < N2 /\ N2 <= M2
         /\ Books(t.t_state, Pos(t.wl2), U, N2, M2, t.wnd, cc, w, TRUE, FALSE, t.sentfin \/ fin)
    <3>2. Sending(t.t_state, Pos(t.wl2), U, M, t.wnd, cc, w, t.sentfin, len, N1, fin, N2, M2)
      BY <2>1, <2>7, <2>8, <1>4, ZenonT(30)
    <3> QED BY <3>2 DEF Sending
  <2> HIDE DEF N2, M2
  <2> DEFINE first == IF fin /\ u.sentfin /\ u.nxt = u.max THEN Add(u.nxt, -1) ELSE u.nxt
             after == Add(u.nxt, len + (IF fin THEN 1 ELSE 0))
             max == IF SEQ_GT(after, u.max) THEN after ELSE u.max
             starts == ~u.rexmt /\ after # u.una
             g == [seq |-> u.nxt, data |-> SubSeq(u.sb, s.off + 1, s.off + len), fin |-> fin]
             y == [u EXCEPT !.nxt = after, !.max = max, !.sentfin = @ \/ fin,
                            !.rexmt = @ \/ starts, !.persist = @ /\ ~starts]
  <2>11. first = u.nxt
    <3>1. u.nxt = u.max => N1 = M
      BY <2>2 DEF N1, M
    <3> QED BY <2>2, <2>10, <3>1
  <2>12. x.seg = g /\ x.tp = y
    <3>1. ~force \/ ~u.persist
      BY DEF u
    <3> QED BY <2>11, <3>1, ZenonT(30) DEF Sent, u, len, fin
  <2>13. after \in Numbers /\ Pos(after) = N2
    <3>1. /\ len + (IF fin THEN 1 ELSE 0) \in Int /\ N1 + (len + (IF fin THEN 1 ELSE 0)) = N2
          /\ N1 + (len + (IF fin THEN 1 ELSE 0)) \in 0 .. Horizon
      BY <2>4, <2>5, <2>10, <2>26, Sizes, SMT
    <3> QED BY <2>6, <3>1, AddPos DEF N1
  <2>14. max \in Numbers /\ Pos(max) = M2
    <3>1. SEQ_GT(after, u.max) <=> N2 > M
      BY <2>2, <2>6, <2>13, SeqPos DEF M
    <3> HIDE DEF after
    <3> QED BY <2>2, <2>6, <2>13, <2>26, <3>1 DEF M
  <2>15. after # u.una
    <3>1. Pos(after) # Pos(u.una)
      <4> HIDE DEF after
      <4>1. N2 # U
        BY <2>6, <2>9, <2>10, SMT
      <4> QED BY <2>2, <2>13, <4>1 DEF U
    <3> HIDE DEF after
    <3> QED BY <3>1
  <2>16. u.rexmt \in BOOLEAN /\ u.persist \in BOOLEAN /\ ~(u.rexmt /\ u.persist)
    BY <2>3 DEF Within
  <2>17. (u.rexmt \/ starts) = TRUE /\ (u.persist /\ ~starts) = FALSE /\ u.sentfin \in BOOLEAN
    BY <2>2, <2>5, <2>15, <2>16, TPFacts
  <2> HIDE DEF after, max, starts, g
  <2>18. y \in TPs
    <3>1. (u.sentfin \/ fin) \in BOOLEAN
      OBVIOUS
    <3> QED BY <2>2, <2>13, <2>14, <2>17, <3>1 DEF TPs
  <2>19. /\ y.t_state = t.t_state /\ y.una = t.una /\ y.max = max /\ y.wnd = t.wnd
         /\ y.wl2 = t.wl2 /\ y.sb = t.sb /\ y.sentfin = (t.sentfin \/ fin)
         /\ y.persist = FALSE /\ y.rexmt = TRUE /\ y.nxt = after
    BY <2>2, <2>17 DEF TPs
  <2> HIDE DEF y
  <2>20. Sender(y, w)
    <3>1. Books(y.t_state, Pos(y.wl2), Pos(y.una), Pos(y.nxt), Pos(y.max), y.wnd, Len(y.sb), w,
                y.rexmt, y.persist, y.sentfin)
      BY <2>10, <2>13, <2>14, <2>19 DEF U, cc
    <3>2. \A i \in 1 .. Len(y.sb) : y.sb[i] = Pos(y.una) + i
      BY <2>5, <2>19
    <3> QED BY <2>5, <2>18, <3>1, <3>2 DEF Sender
  <2>21. M <= M2
    BY <2>6, <2>9, <2>26, SMT
  <2>22. Keeps(y, t)
    BY <2>14, <2>19, <2>21 DEF Keeps, M
  <2>23. g \in Pieces /\ g.fin = fin /\ Stop(g) = N1 + len
    <3>1. s.off \in Nat /\ (len > 0 => s.off = N1 - U /\ s.off + len <= cc)
      <4>1. s.off = Pos(t.nxt) - U
        BY <2>2 DEF U
      <4> QED BY <2>4, <2>6, <4>1, SMT
    <3>2. fin => N1 + len = Total
      <4>1. fin => w = Total
        BY <2>4, <2>5 DEF Books
      <4> QED BY <2>10, <4>1
    <3>3. g = Cut(t, u.nxt, s.off, len, fin)
      BY <2>2 DEF g, Cut
    <3>4. /\ Pos(u.nxt) + len <= w /\ (fin => Pos(u.nxt) + len = Total)
          /\ (len > 0 => s.off = Pos(u.nxt) - Pos(t.una) /\ s.off + len <= Len(t.sb))
      BY <2>10, <3>1, <3>2 DEF N1, U, cc
    <3>5. IsCut(g, u.nxt, len, fin)
      <4>1. CanCut(t, w, u.nxt, s.off, len, fin)
        BY <2>4, <2>6, <3>1, <3>4 DEF CanCut
      <4> QED BY <3>3, <4>1, <1>8
    <3> QED BY <3>5 DEF N1, IsCut
  <2>24. Reach(g) = N2
    <3>1. Reach(g) = IF fin THEN N1 + len + 1 ELSE N1 + len
      BY <2>23 DEF Reach
    <3> QED BY <2>26, <3>1
  <2>25. GoesOut(g, y)
    <3>1. Reach(g) <= Pos(y.max)
      BY <2>10, <2>14, <2>19, <2>24
    <3>2. g.fin => Stop(g) <= Pos(y.una) + y.wnd
      BY <2>10, <2>19, <2>23 DEF U
    <3> QED BY <2>23, <3>1, <3>2 DEF GoesOut
  <2> QED BY <2>12, <2>19, <2>20, <2>22, <2>25
(* A probe of a closed window. *)
<1>10. ASSUME NEW t, NEW w, Sender(t, w), NEW force \in BOOLEAN, NEW cwnd \in Nat \ {0},
              NEW s, s = Decide(t, force, cwnd),
              s.len > 0 \/ (s.fin /\ (~s.tp.sentfin \/ s.tp.nxt = s.tp.una)),
              force, s.tp.persist, t.t_state = "FIN_WAIT_1" => Len(t.sb) > 0,
              NEW x, x = Sent(s, force)
       PROVE  /\ Sender(x.tp, w) /\ Keeps(x.tp, t) /\ GoesOut(x.seg, x.tp)
              /\ x.tp.persist = TRUE
  <2> USE <1>10
  <2> DEFINE win == Win(t, cwnd)
             room == Spare(t, force, cwnd)
             len == s.len
             u == s.tp
             fin == s.fin
             U == Pos(t.una)
             N1 == Pos(u.nxt)
             M == Pos(t.max)
             cc == Len(t.sb)
             M2 == Larger(M, N1 + len)
  <2>1. Turn(t.t_state, Pos(t.wl2), U, Pos(t.nxt), M, t.wnd, cc, w, t.rexmt, t.persist,
             t.sentfin, force, cwnd, win, room, len, N1, u.rexmt, u.persist, fin)
    BY <1>7
  <2>2. /\ s.off = Pos(t.nxt) - Pos(t.una)
        /\ u \in TPs
        /\ u.t_state = t.t_state /\ u.una = t.una /\ u.max = t.max /\ u.wnd = t.wnd
        /\ u.wl2 = t.wl2 /\ u.sb = t.sb /\ u.sentfin = t.sentfin
    <3>1. Chosen(t, force, cwnd, s)
      BY <1>2
    <3> QED BY <3>1 DEF Chosen
  <2>3. Within(t.t_state, U, Pos(t.nxt), t.wnd, cc, w, t.rexmt, force, win, room, len, N1,
               u.rexmt, u.persist, fin)
    <3> HIDE DEF win, room, len, u, fin, U, N1, M, cc, Pos
    <3> QED BY <2>1, <1>3
  <2>4. /\ len \in Nat /\ N1 \in Nat /\ len <= MaxSeg /\ fin \in BOOLEAN
        /\ len > 0 => N1 = Pos(t.nxt) /\ Pos(t.nxt) + len <= U + cc
    BY <2>3 DEF Within
  <2>5. /\ t \in TPs /\ w \in 0 .. Total
        /\ \A i \in 1 .. Len(t.sb) : t.sb[i] = Pos(t.una) + i
    BY DEF Sender
  <2>6. /\ t.una \in Numbers /\ t.max \in Numbers /\ t.sb \in Seq(1 .. Total)
        /\ U \in Nat /\ Pos(t.nxt) \in Nat /\ M \in Nat /\ t.wnd \in Nat /\ cc \in Nat
        /\ u.nxt \in Numbers
    BY <2>2, <2>5, TPFacts
  <2> HIDE DEF Pos, win, room
  <2>8. len > 0 \/ (fin /\ (~t.sentfin \/ N1 = U))
    <3>1. u.nxt = t.una => N1 = U
      OBVIOUS
    <3> QED BY <2>2, <3>1
  <2>9. M2 \in Nat /\ M2 = (IF N1 + len > M THEN N1 + len ELSE M)
    <3> HIDE DEF len, fin, U, N1, M, u, cc
    <3>1. M2 = (IF N1 + len > M THEN N1 + len ELSE M)
      BY DEF Larger
    <3> HIDE DEF M2
    <3> QED BY <2>4, <2>6, <3>1, SMT
  <2>7. t.t_state = "FIN_WAIT_1" => cc > 0
    OBVIOUS
  <2>27. u.persist
    OBVIOUS
  <2> HIDE DEF len, fin, U, N1, M, u, cc
  <2>10. /\ ~fin /\ ~u.rexmt /\ len > 0 /\ N1 + len <= w /\ N1 + len <= M2
         /\ Books(t.t_state, Pos(t.wl2), U, N1, M2, t.wnd, cc, w, u.rexmt, u.persist, t.sentfin)
    <3>2. Probing(t.t_state, Pos(t.wl2), U, Pos(t.nxt), M2, t.wnd, cc, w, t.sentfin, len, N1,
                  u.rexmt, u.persist, fin)
      BY <2>1, <2>7, <2>8, <2>27, <1>5
    <3> QED BY <3>2 DEF Probing
  <2> HIDE DEF M2
  <2> DEFINE first == IF fin /\ u.sentfin /\ u.nxt = u.max THEN Add(u.nxt, -1) ELSE u.nxt
             after == Add(u.nxt, len)
             max == IF SEQ_GT(after, u.max) THEN after ELSE u.max
             g == [seq |-> u.nxt, data |-> SubSeq(u.sb, s.off + 1, s.off + len), fin |-> fin]
             y == [u EXCEPT !.nxt = u.nxt, !.max = max]
  <2>11. first = u.nxt
    BY <2>10
  <2>12. x.seg = g /\ x.tp = y
    <3>1. ~(~force \/ ~u.persist)
      BY <2>27
    <3>2. y = [u EXCEPT !.nxt = u.nxt, !.max = IF SEQ_GT(after, @) THEN after ELSE @]
      BY <2>2 DEF TPs
    <3> HIDE DEF y
    <3> QED BY <2>11, <3>1, <3>2 DEF Sent, u, len, fin
  <2>13. after \in Numbers /\ Pos(after) = N1 + len
    <3>1. len \in Int /\ N1 + len \in 0 .. Horizon
      BY <2>4, <2>5, <2>10, Sizes, SMT
    <3> QED BY <2>6, <3>1, AddPos DEF N1
  <2>14. max \in Numbers /\ Pos(max) = M2
    <3>1. SEQ_GT(after, u.max) <=> N1 + len > M
      BY <2>2, <2>6, <2>13, SeqPos DEF M
    <3> HIDE DEF after
    <3> QED BY <2>2, <2>6, <2>9, <2>13, <3>1 DEF M
  <2> HIDE DEF after, max, g
  <2>18. y \in TPs
    BY <2>2, <2>6, <2>14 DEF TPs
  <2>19. /\ y.t_state = t.t_state /\ y.una = t.una /\ y.max = max /\ y.wnd = t.wnd
         /\ y.wl2 = t.wl2 /\ y.sb = t.sb /\ y.sentfin = t.sentfin
         /\ y.persist = u.persist /\ y.rexmt = u.rexmt /\ y.nxt = u.nxt
    BY <2>2 DEF TPs
  <2>28. u.persist = TRUE
    <3>1. u.persist \in BOOLEAN
      BY <2>2, TPFacts
    <3> QED BY <2>27, <3>1
  <2> HIDE DEF y
  <2>20. Sender(y, w)
    <3>1. Books(y.t_state, Pos(y.wl2), Pos(y.una), Pos(y.nxt), Pos(y.max), y.wnd, Len(y.sb), w,
                y.rexmt, y.persist, y.sentfin)
      BY <2>10, <2>14, <2>19 DEF U, cc, N1
    <3>2. \A i \in 1 .. Len(y.sb) : y.sb[i] = Pos(y.una) + i
      BY <2>5, <2>19
    <3> QED BY <2>5, <2>18, <3>1, <3>2 DEF Sender
  <2>21. M <= M2
    BY <2>4, <2>6, <2>9, SMT
  <2>22. Keeps(y, t)
    BY <2>14, <2>19, <2>21 DEF Keeps, M
  <2>23. g \in Pieces /\ g.fin = fin /\ Stop(g) = N1 + len
    <3>1. s.off \in Nat /\ (len > 0 => s.off = N1 - U /\ s.off + len <= cc)
      <4>1. s.off = Pos(t.nxt) - U
        BY <2>2 DEF U
      <4>2. U <= Pos(t.nxt)
        <5>1. Pos(t.una) <= Pos(t.nxt)
          BY DEF Sender, Books
        <5> QED BY <5>1 DEF U
      <4> DEFINE off == s.off
      <4>7. off = Pos(t.nxt) - U
        BY <4>1
      <4> HIDE DEF off
      <4>3. off \in Nat
        BY <2>6, <4>7, <4>2, SMT
      <4>4. N1 = Pos(t.nxt) /\ Pos(t.nxt) + len <= U + cc
        BY <2>4, <2>10
      <4>5. off = N1 - U
        BY <4>7, <4>4
      <4>6. off + len <= cc
        BY <2>4, <2>6, <4>4, <4>5, SMT
      <4> QED BY <4>3, <4>5, <4>6 DEF off
    <3>3. g = Cut(t, u.nxt, s.off, len, fin)
      BY <2>2 DEF g, Cut
    <3>4. /\ Pos(u.nxt) + len <= w /\ (fin => Pos(u.nxt) + len = Total)
          /\ (len > 0 => s.off = Pos(u.nxt) - Pos(t.una) /\ s.off + len <= Len(t.sb))
      BY <2>10, <3>1 DEF N1, U, cc
    <3>5. IsCut(g, u.nxt, len, fin)
      <4>1. CanCut(t, w, u.nxt, s.off, len, fin)
        BY <2>4, <2>6, <3>1, <3>4 DEF CanCut
      <4> QED BY <3>3, <4>1, <1>8
    <3> QED BY <3>5 DEF N1, IsCut
  <2>24. Reach(g) = N1 + len
    BY <2>10, <2>23 DEF Reach
  <2>25. GoesOut(g, y)
    <3>1. Reach(g) <= Pos(y.max)
      BY <2>10, <2>14, <2>19, <2>24
    <3> QED BY <2>10, <2>23, <3>1 DEF GoesOut
  <2> QED BY <2>12, <2>19, <2>20, <2>22, <2>25, <2>28
(* Nothing worth sending. *)
<1>11. ASSUME NEW t, NEW w, Sender(t, w), NEW force \in BOOLEAN, NEW cwnd \in Nat \ {0},
              NEW s, s = Decide(t, force, cwnd), NEW idle \in BOOLEAN, ~Worth(s, idle, force),
              NEW y, y = [s.tp EXCEPT !.persist = @ \/ (Len(s.tp.sb) > 0 /\ ~s.tp.rexmt)]
       PROVE  Sender(y, w) /\ Keeps(y, t) /\ Timely(y, force)
  <2> USE <1>11
  <2> DEFINE win == Win(t, cwnd)
             room == Spare(t, force, cwnd)
             len == s.len
             u == s.tp
             fin == s.fin
             U == Pos(t.una)
             N1 == Pos(u.nxt)
             M == Pos(t.max)
             cc == Len(t.sb)
  <2>1. Turn(t.t_state, Pos(t.wl2), U, Pos(t.nxt), M, t.wnd, cc, w, t.rexmt, t.persist,
             t.sentfin, force, cwnd, win, room, len, N1, u.rexmt, u.persist, fin)
    BY <1>7
  <2>2. /\ u \in TPs
        /\ u.t_state = t.t_state /\ u.una = t.una /\ u.max = t.max /\ u.wnd = t.wnd
        /\ u.wl2 = t.wl2 /\ u.sb = t.sb /\ u.sentfin = t.sentfin
        /\ len = Min2(Max2(room, 0), MaxSeg)
    <3>1. Chosen(t, force, cwnd, s)
      BY <1>2
    <3> QED BY <3>1 DEF Chosen
  <2>3. Within(t.t_state, U, Pos(t.nxt), t.wnd, cc, w, t.rexmt, force, win, room, len, N1,
               u.rexmt, u.persist, fin)
    BY <2>1, <1>3
  <2>4. /\ len \in Nat /\ N1 \in Nat /\ len <= MaxSeg /\ fin \in BOOLEAN
        /\ win \in Nat /\ (win = 0 <=> t.wnd = 0) /\ U <= N1 /\ N1 <= Pos(t.nxt)
        /\ (u.rexmt \/ N1 = U)
    BY <2>3 DEF Within
  <2>5. /\ t \in TPs /\ w \in 0 .. Total
        /\ \A i \in 1 .. Len(t.sb) : t.sb[i] = Pos(t.una) + i
        /\ t.rexmt \/ Pos(t.nxt) = U
    BY DEF Sender, Books
  <2>6. /\ t.una \in Numbers /\ t.max \in Numbers
        /\ U \in Nat /\ Pos(t.nxt) \in Nat /\ M \in Nat /\ t.wnd \in Nat /\ cc \in Nat
        /\ u.nxt \in Numbers /\ u.rexmt \in BOOLEAN /\ u.persist \in BOOLEAN
    BY <2>2, <2>5, TPFacts
  <2> HIDE DEF Pos, win, room
  <2>7. ~(fin /\ (~t.sentfin \/ N1 = U))
    <3>1. N1 = U => u.nxt = t.una
      BY <2>6, SamePlace
    <3> QED BY <2>2, <3>1 DEF Worth
  <2>8. ~(len > 0 /\ N1 < M)
    <3>1. SEQ_LT(u.nxt, u.max) <=> N1 < M
      BY <2>2, <2>6, SeqPos
    <3> QED BY <3>1 DEF Worth
  <2> HIDE DEF len, fin, U, N1, M, cc
  <2>9. /\ Books(t.t_state, Pos(t.wl2), U, N1, M, t.wnd, cc, w, u.rexmt,
                 u.persist \/ (cc > 0 /\ ~u.rexmt), t.sentfin)
        /\ t.t_state = "FIN_WAIT_1" /\ cc = 0 => u.rexmt
    <3>1. Waiting(t.t_state, Pos(t.wl2), U, M, t.wnd, cc, w, t.sentfin, N1, u.rexmt, u.persist)
      BY <2>1, <2>7, <1>6
    <3> QED BY <3>1 DEF Waiting
  <2>10. y = [u EXCEPT !.persist = u.persist \/ (cc > 0 /\ ~u.rexmt)]
    <3>1. y = [u EXCEPT !.persist = @ \/ (cc > 0 /\ ~u.rexmt)]
      BY <2>2 DEF cc
    <3> HIDE DEF u
    <3> QED BY <2>2, <3>1 DEF TPs
  <2> HIDE DEF u
  <2>11. /\ y \in TPs
         /\ y.t_state = t.t_state /\ y.una = t.una /\ y.max = t.max /\ y.wnd = t.wnd
         /\ y.wl2 = t.wl2 /\ y.sb = t.sb /\ y.sentfin = t.sentfin
         /\ y.persist = (u.persist \/ (cc > 0 /\ ~u.rexmt)) /\ y.rexmt = u.rexmt /\ y.nxt = u.nxt
    <3>1. (u.persist \/ (cc > 0 /\ ~u.rexmt)) \in BOOLEAN
      OBVIOUS
    <3> QED BY <2>2, <2>6, <2>10, <3>1 DEF TPs
  <2>12. Sender(y, w)
    <3>1. Books(y.t_state, Pos(y.wl2), Pos(y.una), Pos(y.nxt), Pos(y.max), y.wnd, Len(y.sb), w,
                y.rexmt, y.persist, y.sentfin)
      BY <2>9, <2>11 DEF U, cc, N1, M
    <3>2. \A i \in 1 .. Len(y.sb) : y.sb[i] = Pos(y.una) + i
      BY <2>5, <2>11
    <3> QED BY <2>5, <2>11, <3>1, <3>2 DEF Sender
  <2>13. Keeps(y, t)
    <3>1. M <= M
      BY <2>6, SMT
    <3> QED BY <2>11, <3>1 DEF Keeps, M
  <2>14. Timed(y)
    <3>1. Len(y.sb) > 0 => y.rexmt \/ y.persist
      BY <2>11 DEF cc
    <3> QED BY <2>9, <2>11, <3>1 DEF Timed, cc
  <2>15. ASSUME ~force, y.wnd > 0, Len(y.sb) > 0, Pos(y.una) < Pos(y.max) PROVE y.rexmt
    <3> SUFFICES ASSUME ~u.rexmt PROVE FALSE
      BY <2>11
    <3>1. t.wnd > 0 /\ cc > 0 /\ U < M /\ N1 = U
      BY <2>4, <2>11, <2>15 DEF cc, U, M
    <3>2. win > 0
      BY <2>4, <2>6, <3>1, SMT
    <3>3. room = Min2(cc, win) - (Pos(t.nxt) - U)
      <4>1. ~(force /\ win = 0)
        BY <2>15
      <4> QED BY <4>1 DEF room, Spare, win, cc, U
    <3>4. ~t.rexmt
      <4>1. u.rexmt = (t.rexmt /\ ~Back(t, force, cwnd))
        <5>1. Chosen(t, force, cwnd, s)
          BY <1>2
        <5> QED BY <5>1 DEF Chosen, u
      <4>2. ~Back(t, force, cwnd)
        <5>1. win # 0
          BY <3>2, SMT
        <5> QED BY <5>1 DEF Back, win
      <4> QED BY <4>1, <4>2
    <3>5. Pos(t.nxt) = U
      BY <2>5, <3>4 DEF U
    <3>6. room > 0 /\ room \in Int
      BY <2>4, <2>6, <3>1, <3>2, <3>3, <3>5, SMT DEF Min2
    <3>7. len > 0
      BY <2>2, <3>6, Sizes, SMT DEF Min2, Max2
    <3>8. N1 < M
      BY <2>4, <2>6, <3>1, SMT
    <3> QED BY <2>8, <3>7, <3>8
  <2> QED BY <2>12, <2>13, <2>14, <2>15 DEF Timely
(* What is sent stays within snd_max when that moves on. *)
<1>12. ASSUME NEW u \in TPs, NEW v \in TPs, Keeps(v, u), NEW g, GoesOut(g, u)
       PROVE  GoesOut(g, v)
  <2> USE <1>12
  <2>1. g \in Pieces /\ Reach(g) <= Pos(u.max) /\ Pos(u.max) <= Pos(v.max)
        /\ v.una = u.una /\ v.wnd = u.wnd
    BY DEF GoesOut, Keeps
  <2>2. Reach(g) \in Nat /\ Pos(u.max) \in Nat /\ Pos(v.max) \in Nat
    BY <2>1, PieceFacts, TPFacts
  <2>3. Reach(g) <= Pos(v.max)
    <3> HIDE DEF Pos, Reach
    <3> QED BY <2>1, <2>2, SMT
  <2> QED BY <2>1, <2>3 DEF GoesOut
(* One turn of tcp_output after another. *)
<1>13. ASSUME NEW t \in TPs, NEW u \in TPs, NEW v \in TPs, Keeps(u, t), Keeps(v, u)
       PROVE  Keeps(v, t)
  <2> USE <1>13
  <2>1. Pos(t.max) <= Pos(u.max) /\ Pos(u.max) <= Pos(v.max)
    BY DEF Keeps
  <2>2. Pos(t.max) \in Nat /\ Pos(u.max) \in Nat /\ Pos(v.max) \in Nat
    BY TPFacts
  <2>3. Pos(t.max) <= Pos(v.max)
    <3> HIDE DEF Pos
    <3> QED BY <2>1, <2>2, SMT
  <2> QED BY <2>3 DEF Keeps
(* The same for everything sent. *)
<1>14. ASSUME NEW u \in TPs, NEW v \in TPs, Keeps(v, u), NEW out \in Seq(Pieces), AllGoOut(out, u)
       PROVE  AllGoOut(out, v)
  BY <1>14, <1>12 DEF AllGoOut
(* One more segment. *)
<1>15. ASSUME NEW u, NEW out \in Seq(Pieces), AllGoOut(out, u), NEW g, GoesOut(g, u)
       PROVE  Append(out, g) \in Seq(Pieces) /\ AllGoOut(Append(out, g), u)
  <2> USE <1>15
  <2>1. g \in Pieces
    BY DEF GoesOut
  <2>2. /\ Append(out, g) \in Seq(Pieces)
        /\ Len(Append(out, g)) = Len(out) + 1
        /\ \A i \in 1 .. Len(out) : Append(out, g)[i] = out[i]
        /\ Append(out, g)[Len(out) + 1] = g
    BY <2>1, AppendProperties, SMT
  <2>3. \A i \in 1 .. Len(out) + 1 : i \in 1 .. Len(out) \/ i = Len(out) + 1
    <3>1. Len(out) \in Nat
      BY LenProperties
    <3> QED BY <3>1, SMT
  <2> QED BY <2>2, <2>3 DEF AllGoOut
(* A turn of tcp_output. *)
<1>16. ASSUME NEW t \in TPs, NEW w, NEW force \in BOOLEAN, NEW cwnd \in Nat \ {0},
              NEW idle \in BOOLEAN,
              NEW p \in Passes(t, w, force)
       PROVE  /\ Again(p, idle, force, cwnd, 0) \in Passes(t, w, force)
              /\ Timely(Again(p, idle, force, cwnd, 0).tp, force)
  <2> DEFINE s == Decide(p.tp, force, cwnd)
             x == Sent(s, force)
             y == [s.tp EXCEPT !.persist = @ \/ (Len(s.tp.sb) > 0 /\ ~s.tp.rexmt)]
             a == Again(p, idle, force, cwnd, 0)
  <2>1. /\ p.tp \in TPs /\ p.out \in Seq(Pieces) /\ p.again \in BOOLEAN
        /\ Sender(p.tp, w) /\ Keeps(p.tp, t) /\ AllGoOut(p.out, p.tp)
        /\ IF p.again THEN Ready(p.tp, force) ELSE Timely(p.tp, force)
    BY DEF Passes
  <2>2. CASE ~p.again
    BY <2>1, <2>2 DEF Again
  <2>3. CASE p.again /\ ~Worth(s, idle, force)
    <3>1. a = [tp |-> y, out |-> p.out, again |-> FALSE, nombuf |-> FALSE]
      BY <2>3 DEF Again
    <3>2. Sender(y, w) /\ Keeps(y, p.tp) /\ Timely(y, force)
      BY <2>1, <2>3, <1>11, SMT
    <3> HIDE DEF y, a
    <3>3. y \in TPs
      BY <3>2 DEF Sender
    <3>4. Keeps(y, t) /\ AllGoOut(p.out, y)
      BY <2>1, <3>2, <3>3, <1>13, <1>14
    <3>5. a.tp = y /\ a.out = p.out /\ a.again = FALSE
          /\ a \in [tp : TPs, out : Seq(Pieces), again : BOOLEAN, nombuf : {FALSE}]
      BY <2>1, <3>1, <3>3
    <3>6. a \in Passes(t, w, force)
      BY <3>2, <3>4, <3>5 DEF Passes
    <3> QED BY <3>2, <3>5, <3>6 DEF a
  <2>4. CASE p.again /\ Worth(s, idle, force)
    <3>1. a = [tp |-> x.tp, out |-> Append(p.out, x.seg), again |-> s.sendalot, nombuf |-> FALSE]
      <4>1. Len(p.out) \in Nat
        BY <2>1, LenProperties
      <4>2. Len(p.out) + 1 # 0
        BY <4>1, SMT
      <4> QED BY <2>4, <4>2 DEF Again
    <3>2. s.len > 0 \/ (s.fin /\ (~s.tp.sentfin \/ s.tp.nxt = s.tp.una))
      BY <2>4 DEF Worth
    <3>3. Chosen(p.tp, force, cwnd, s)
      BY <2>1, <1>2
    <3>4. /\ s.sendalot = (Spare(p.tp, force, cwnd) > MaxSeg)
          /\ s.tp.persist = (p.tp.persist /\ ~(force /\ Win(p.tp, cwnd) > 0))
      BY <3>3 DEF Chosen
    <3>5. Ready(p.tp, force)
      BY <2>1, <2>4
    <3>6. s.sendalot => Win(p.tp, cwnd) > 0 /\ p.tp.wnd > 0
      <4>1. Turn(p.tp.t_state, Pos(p.tp.wl2), Pos(p.tp.una), Pos(p.tp.nxt), Pos(p.tp.max),
                 p.tp.wnd, Len(p.tp.sb), w, p.tp.rexmt, p.tp.persist, p.tp.sentfin, force, cwnd,
                 Win(p.tp, cwnd), Spare(p.tp, force, cwnd), s.len, Pos(s.tp.nxt), s.tp.rexmt,
                 s.tp.persist, s.fin)
        BY <2>1, <1>7
      <4>2. Within(p.tp.t_state, Pos(p.tp.una), Pos(p.tp.nxt), p.tp.wnd, Len(p.tp.sb), w,
                   p.tp.rexmt, force, Win(p.tp, cwnd), Spare(p.tp, force, cwnd), s.len,
                   Pos(s.tp.nxt), s.tp.rexmt, s.tp.persist, s.fin)
        <5> HIDE DEF s, Pos
        <5> QED BY <4>1, <1>3
      <4>3. /\ s.sendalot => Win(p.tp, cwnd) > 0
            /\ Win(p.tp, cwnd) \in Nat /\ (Win(p.tp, cwnd) = 0 <=> p.tp.wnd = 0)
        BY <3>4, <4>2 DEF Within
      <4>4. p.tp.wnd \in Nat
        BY <2>1, TPFacts
      <4> DEFINE W == Win(p.tp, cwnd)
                 v == p.tp.wnd
      <4>5. W \in Nat /\ (W = 0 <=> v = 0) /\ v \in Nat
        BY <4>3, <4>4
      <4> HIDE DEF W, v
      <4>6. W > 0 => v > 0
        BY <4>5, SMT
      <4> QED BY <4>3, <4>6 DEF W, v
    <3>7. /\ Sender(x.tp, w) /\ Keeps(x.tp, p.tp) /\ GoesOut(x.seg, x.tp)
          /\ Timely(x.tp, force) /\ (s.sendalot => Ready(x.tp, force))
      <4>1. CASE ~force \/ ~s.tp.persist
        <5>1. force => p.tp.persist \/ p.tp.wnd > 0
          BY <3>5 DEF Ready
        <5>2. /\ Sender(x.tp, w) /\ Keeps(x.tp, p.tp) /\ GoesOut(x.seg, x.tp)
              /\ x.tp.rexmt /\ ~x.tp.persist
          BY <2>1, <3>2, <4>1, <5>1, <1>9
        <5>3. Timely(x.tp, force)
          BY <5>2 DEF Timely, Timed
        <5>4. s.sendalot => Ready(x.tp, force)
          <6>1. x.tp.wnd = p.tp.wnd
            BY <5>2 DEF Keeps
          <6> QED BY <3>6, <5>2, <6>1 DEF Ready
        <5> QED BY <5>2, <5>3, <5>4
      <4>2. CASE ~(~force \/ ~s.tp.persist)
        <5>1. p.tp.persist /\ ~(Win(p.tp, cwnd) > 0)
          BY <3>4, <4>2
        <5>2. p.tp.t_state = "FIN_WAIT_1" => Len(p.tp.sb) > 0
          BY <3>5, <4>2, <5>1 DEF Ready
        <5>3. force /\ s.tp.persist
          BY <4>2
        <5>4. /\ Sender(x.tp, w) /\ Keeps(x.tp, p.tp) /\ GoesOut(x.seg, x.tp)
              /\ x.tp.persist = TRUE
          BY <2>1, <3>2, <5>2, <5>3, <1>10
        <5>5. ~s.sendalot
          BY <3>6, <5>1
        <5>6. Len(x.tp.sb) = Len(p.tp.sb) /\ x.tp.t_state = p.tp.t_state
          BY <5>4 DEF Keeps
        <5>7. ~(x.tp.t_state = "FIN_WAIT_1" /\ Len(x.tp.sb) = 0)
          <6>1. Len(p.tp.sb) > 0 => Len(p.tp.sb) # 0
            <7>1. Len(p.tp.sb) \in Nat
              BY <2>1, TPFacts
            <7> QED BY <7>1, SMT
          <6> QED BY <5>2, <5>6, <6>1
        <5>8. Timely(x.tp, force)
          BY <5>3, <5>4, <5>7 DEF Timely, Timed
        <5> QED BY <5>4, <5>5, <5>8
      <4> QED BY <4>1, <4>2
    <3>8. s.sendalot \in BOOLEAN
      BY <3>4, SMT
    <3> HIDE DEF s, x, a
    <3>9. x.tp \in TPs
      BY <3>7 DEF Sender
    <3>10. Keeps(x.tp, t) /\ AllGoOut(p.out, x.tp)
      BY <2>1, <3>7, <3>9, <1>13, <1>14
    <3>11. Append(p.out, x.seg) \in Seq(Pieces) /\ AllGoOut(Append(p.out, x.seg), x.tp)
      BY <2>1, <3>7, <3>10, <1>15
    <3>12. a.tp = x.tp /\ a.out = Append(p.out, x.seg) /\ a.again = s.sendalot
           /\ a \in [tp : TPs, out : Seq(Pieces), again : BOOLEAN, nombuf : {FALSE}]
      BY <3>1, <3>8, <3>9, <3>11
    <3>13. a \in Passes(t, w, force)
      BY <3>7, <3>10, <3>11, <3>12 DEF Passes
    <3> QED BY <3>7, <3>12, <3>13 DEF a
  <2> QED BY <2>2, <2>3, <2>4
<1> QED
  <2> TAKE t, w
  <2> TAKE force \in BOOLEAN
  <2> TAKE cwnd \in Nat \ {0}
  <2> HAVE Sender(t, w) /\ Ready(t, force)
  <2> DEFINE S == Passes(t, w, force)
             x == [tp |-> t, out |-> <<>>, again |-> TRUE, nombuf |-> FALSE]
             idle == t.max = t.una
  <2>1. t \in TPs
    BY DEF Sender
  <2>2. x \in S
    <3>1. Keeps(t, t)
      <4>1. Pos(t.max) \in Nat
        BY <2>1, TPFacts
      <4>2. Pos(t.max) <= Pos(t.max)
        <5> HIDE DEF Pos
        <5> QED BY <4>1, SMT
      <4> QED BY <4>2 DEF Keeps
    <3>2. <<>> \in Seq(Pieces) /\ AllGoOut(<<>>, t)
      <4>1. <<>> \in Seq(Pieces) /\ Len(<<>>) = 0
        BY EmptySeq
      <4>2. 1 .. 0 = {}
        BY SMT
      <4> QED BY <4>1, <4>2 DEF AllGoOut
    <3> QED BY <2>1, <3>1, <3>2 DEF Passes
  <2>3. idle \in BOOLEAN
    OBVIOUS
  <2>4. \A p \in S : Again(p, idle, force, cwnd, 0) \in S
    BY <2>1, <2>3, <1>16
  <2> HIDE DEF S
  <2>5. PICK p \in S : Output(t, force, cwnd, 0) = Again(p, idle, force, cwnd, 0)
    BY <2>2, <2>4, <1>1, SMT
  <2> DEFINE o == Again(p, idle, force, cwnd, 0)
  <2>6. o \in Passes(t, w, force) /\ Timely(o.tp, force)
    BY <2>1, <2>3, <1>16 DEF S
  <2> HIDE DEF o
  <2>7. OutputIs(t, w, force, o)
    BY <2>6 DEF Passes, OutputIs
  <2> QED BY <2>5, <2>7 DEF o

-----------------------------------------------------------------------------
(* A piece is one of the segments the stream can be cut into. *)
LEMMA PieceIsSegment ==
  ASSUME NEW s \in Pieces
  PROVE  s \in Segments
<1> DEFINE k == Pos(s.seq)
           n == Len(s.data)
           d == [i \in 1 .. n |-> k + i]
<1>1. /\ s.seq \in Numbers /\ k \in Nat /\ n \in Nat /\ k + n <= Total /\ n <= MaxSeg
      /\ s.fin \in BOOLEAN /\ \A j \in 1 .. n : s.data[j] = k + j
      /\ s.data \in Seq(1 .. Total)
  BY PieceFacts
<1>2. s.data = d
  <2>1. s.data \in [1 .. n -> 1 .. Total]
    BY <1>1, LenProperties
  <2> HIDE DEF k, n
  <2>2. DOMAIN s.data = 1 .. n /\ DOMAIN d = 1 .. n /\ s.data = [i \in 1 .. n |-> s.data[i]]
    BY <2>1
  <2>3. \A i \in 1 .. n : s.data[i] = d[i]
    BY <1>1
  <2> QED BY <2>2, <2>3
<1>3. s.seq = Add(Iss, k)
  BY <1>1, NumberIsPlace
<1>4. k \in 0 .. Total /\ n \in 0 .. MaxSeg
  <2> HIDE DEF k, n
  <2> QED BY <1>1, Sizes, SMT
<1>5. s = [seq |-> s.seq, data |-> s.data, fin |-> s.fin]
  BY DEF Pieces
<1>6. s = [seq |-> Add(Iss, k), data |-> [i \in 1 .. n |-> k + i], fin |-> s.fin]
  BY <1>2, <1>3, <1>5
<1> QED BY <1>1, <1>4, <1>6, SMT DEF Segments

(* m_adj from the front leaves a piece. *)
LEMMA FrontPiece ==
  ASSUME NEW s \in Pieces, NEW n \in Nat, n <= Len(s.data)
  PROVE  /\ TrimFront(s, n) \in Pieces
         /\ Pos(TrimFront(s, n).seq) = Pos(s.seq) + n
         /\ Len(TrimFront(s, n).data) = Len(s.data) - n
         /\ Stop(TrimFront(s, n)) = Stop(s) /\ TrimFront(s, n).fin = s.fin
<1> DEFINE t == TrimFront(s, n)
           d == SubSeq(s.data, n + 1, Len(s.data))
<1>1. /\ s.seq \in Numbers /\ s.data \in Seq(1 .. Total) /\ s.fin \in BOOLEAN
      /\ Pos(s.seq) \in Nat /\ Len(s.data) \in Nat /\ Stop(s) \in Nat
      /\ Stop(s) = Pos(s.seq) + Len(s.data) /\ Stop(s) <= Total
      /\ Len(s.data) <= MaxSeg
      /\ \A j \in 1 .. Len(s.data) : s.data[j] = Pos(s.seq) + j
      /\ s.fin => Stop(s) = Total
  BY PieceFacts
<1>2. t = [s EXCEPT !.seq = Add(s.seq, n), !.data = d]
  BY DEF TrimFront
<1>0. s \in [seq : Numbers, data : Seq(1 .. Total), fin : BOOLEAN]
  BY DEF Pieces
<1> HIDE DEF t, Pos, Stop
<1>3. /\ n + 1 \in Nat /\ 1 <= n + 1 /\ n + 1 <= Len(s.data) + 1 /\ Len(s.data) <= Len(s.data)
      /\ (Len(s.data) + 1) - (n + 1) = Len(s.data) - n /\ (n + 1) - 1 = n
      /\ n \in Int /\ Pos(s.seq) + n \in 0 .. Horizon
  BY <1>1, Sizes, SMT
<1>4. /\ d \in Seq(1 .. Total) /\ Len(d) = Len(s.data) - n
      /\ \A i \in 1 .. Len(s.data) - n : d[i] = s.data[n + i] /\ n + i \in 1 .. Len(s.data)
  <2>1. /\ d \in Seq(1 .. Total)
        /\ Len(d) = (Len(s.data) + 1) - (n + 1)
        /\ \A i \in 1 .. (Len(s.data) + 1) - (n + 1) :
             d[i] = s.data[((n + 1) - 1) + i] /\ ((n + 1) - 1) + i \in 1 .. Len(s.data)
    BY <1>1, <1>3, Part
  <2> HIDE DEF d
  <2> QED BY <1>3, <2>1
<1> HIDE DEF d
<1>5. Add(s.seq, n) \in Numbers /\ Pos(Add(s.seq, n)) = Pos(s.seq) + n
  BY <1>1, <1>3, AddPos
<1>6. t.seq \in Numbers /\ Pos(t.seq) = Pos(s.seq) + n /\ t.data = d /\ t.fin = s.fin
  BY <1>0, <1>2, <1>5
<1>7. Stop(t) = Stop(s)
  <2>1. Stop(t) = (Pos(s.seq) + n) + (Len(s.data) - n)
    BY <1>4, <1>6 DEF Stop
  <2> QED BY <1>1, <2>1, SMT
<1>8. Len(t.data) <= MaxSeg
  <2>1. Len(t.data) = Len(s.data) - n
    BY <1>4, <1>6
  <2> QED BY <1>1, <2>1, Sizes, SMT
<1>9. ASSUME NEW j \in 1 .. Len(t.data) PROVE t.data[j] = Pos(t.seq) + j
  <2>1. j \in 1 .. Len(s.data) - n
    BY <1>4, <1>6
  <2>2. d[j] = Pos(s.seq) + (n + j)
    BY <1>1, <1>4, <2>1
  <2>3. Pos(s.seq) + (n + j) = (Pos(s.seq) + n) + j
    BY <1>1, <2>1, SMT
  <2> QED BY <1>6, <2>2, <2>3
<1>10. t \in [seq : Numbers, data : Seq(1 .. Total), fin : BOOLEAN]
  BY <1>0, <1>2, <1>4, <1>5
<1>11. t \in Pieces
  BY <1>1, <1>6, <1>7, <1>8, <1>9, <1>10 DEF Pieces
<1> QED BY <1>4, <1>6, <1>7, <1>11 DEF t

(* m_adj from the back does, unless there is a FIN behind. *)
LEMMA BackPiece ==
  ASSUME NEW s \in Pieces, NEW n \in Nat, n <= Len(s.data), s.fin => n = 0
  PROVE  /\ TrimBack(s, n) \in Pieces /\ TrimBack(s, n).seq = s.seq
         /\ Len(TrimBack(s, n).data) = Len(s.data) - n
         /\ Stop(TrimBack(s, n)) = Stop(s) - n /\ TrimBack(s, n).fin = s.fin
<1> DEFINE t == TrimBack(s, n)
           m == Len(s.data) - n
           d == SubSeq(s.data, 1, m)
<1>1. /\ s.seq \in Numbers /\ s.data \in Seq(1 .. Total) /\ s.fin \in BOOLEAN
      /\ Pos(s.seq) \in Nat /\ Len(s.data) \in Nat /\ Stop(s) \in Nat
      /\ Stop(s) = Pos(s.seq) + Len(s.data) /\ Stop(s) <= Total
      /\ Len(s.data) <= MaxSeg
      /\ \A j \in 1 .. Len(s.data) : s.data[j] = Pos(s.seq) + j
      /\ s.fin => Stop(s) = Total
  BY PieceFacts
<1>2. t = [s EXCEPT !.data = d]
  BY DEF TrimBack
<1>0. s \in [seq : Numbers, data : Seq(1 .. Total), fin : BOOLEAN]
  BY DEF Pieces
<1> HIDE DEF t, Pos, Stop
<1>3. /\ 1 \in Nat /\ 1 <= 1 /\ m \in Nat /\ m <= Len(s.data) /\ 1 <= m + 1
      /\ (m + 1) - 1 = m /\ 1 - 1 = 0
  BY <1>1, SMT
<1> HIDE DEF m
<1>4. /\ d \in Seq(1 .. Total) /\ Len(d) = m
      /\ \A i \in 1 .. m : d[i] = s.data[0 + i] /\ 0 + i \in 1 .. Len(s.data)
  <2>1. /\ d \in Seq(1 .. Total)
        /\ Len(d) = (m + 1) - 1
        /\ \A i \in 1 .. (m + 1) - 1 :
             d[i] = s.data[(1 - 1) + i] /\ (1 - 1) + i \in 1 .. Len(s.data)
    BY <1>1, <1>3, Part
  <2> HIDE DEF d
  <2> QED BY <1>3, <2>1
<1>5. \A i \in 1 .. m : 0 + i = i
  BY <1>3, SMT
<1> HIDE DEF d
<1>6. t.seq = s.seq /\ t.data = d /\ t.fin = s.fin
  BY <1>0, <1>2
<1>7. Stop(t) = Stop(s) - n /\ Stop(t) <= Total
  <2>1. Stop(t) = Pos(s.seq) + m
    BY <1>4, <1>6 DEF Stop
  <2>2. m = Len(s.data) - n
    BY DEF m
  <2>3. /\ Pos(s.seq) \in Nat /\ Len(s.data) \in Nat /\ Total \in Nat
        /\ Stop(s) = Pos(s.seq) + Len(s.data) /\ Stop(s) <= Total
    BY <1>1, Sizes
  <2> QED BY <2>1, <2>2, <2>3, SMT
<1>8. Len(t.data) <= MaxSeg
  BY <1>1, <1>3, <1>4, <1>6, Sizes, SMT
<1>9. ASSUME NEW j \in 1 .. Len(t.data) PROVE t.data[j] = Pos(t.seq) + j
  <2>1. j \in 1 .. m
    BY <1>4, <1>6
  <2>2. d[j] = s.data[j] /\ j \in 1 .. Len(s.data)
    BY <1>4, <1>5, <2>1
  <2> QED BY <1>1, <1>6, <2>2
<1>10. t \in [seq : Numbers, data : Seq(1 .. Total), fin : BOOLEAN]
  BY <1>0, <1>2, <1>4
<1>11. t.fin => Stop(t) = Total
  BY <1>1, <1>6, <1>7, SMT
<1>12. t \in Pieces
  BY <1>7, <1>8, <1>9, <1>10, <1>11 DEF Pieces
<1> QED BY <1>4, <1>6, <1>7, <1>12 DEF t, m

-----------------------------------------------------------------------------
(* The reassembly queue.  Its segments are pieces of the stream, in order  *)
(* and without overlap, between the places lo and hi, sent before snd_max  *)
(* was at m.                                                               *)

Ordered(q, lo, hi, m) ==
  /\ q \in Seq(Pieces)
  /\ \A i \in 1 .. Len(q) : lo <= Pos(q[i].seq) /\ Stop(q[i]) <= hi /\ Reach(q[i]) <= m
  /\ \A i, j \in 1 .. Len(q) : i < j => Stop(q[i]) <= Pos(q[j].seq)

MadeOf(s, q, r) ==
  \A k \in 1 .. Len(s) : \/ \E i \in 1 .. Len(q) : s[k] = q[i]
                         \/ \E j \in 1 .. Len(r) : s[k] = r[j]

(* The elements of an ordered queue, in places. *)
LEMMA OrderedFacts ==
  ASSUME NEW q, NEW lo, NEW hi, NEW m, Ordered(q, lo, hi, m)
  PROVE  /\ q \in Seq(Pieces) /\ Len(q) \in Nat
         /\ \A n \in 1 .. Len(q) :
              /\ q[n] \in Pieces /\ q[n].seq \in Numbers /\ Pos(q[n].seq) \in Nat
              /\ Stop(q[n]) = Pos(q[n].seq) + Len(q[n].data) /\ Len(q[n].data) \in Nat
              /\ Stop(q[n]) \in Nat /\ End(q[n]) \in Numbers /\ Pos(End(q[n])) = Stop(q[n])
              /\ lo <= Pos(q[n].seq) /\ Stop(q[n]) <= hi /\ Reach(q[n]) <= m
<1>1. q \in Seq(Pieces)
  BY DEF Ordered
<1>2. Len(q) \in Nat
  BY <1>1, LenProperties
<1>3. \A n \in 1 .. Len(q) : q[n] \in Pieces
  BY <1>1, ElementOfSeq
<1> QED BY <1>1, <1>2, <1>3, PieceFacts DEF Ordered

-----------------------------------------------------------------------------
(* B's control block, when d was read and A's snd_max is at m: d and       *)
(* so_rcv are the stream up to rcv_nxt, or up to the FIN before it; the    *)
(* window offered fits in so_rcv; the queue is ahead.                      *)

RPs ==
  [t_state : {"ESTABLISHED", "CLOSE_WAIT"}, nxt : Numbers, adv : Numbers, q : Seq(Pieces),
   sb : Seq(1 .. Total), delack : BOOLEAN, acknow : BOOLEAN]

GotFin(r) == IF r.t_state = "CLOSE_WAIT" THEN 1 ELSE 0

InOrder(r, d) ==
  /\ \A i \in 1 .. Len(d) : d[i] = i
  /\ \A i \in 1 .. Len(r.sb) : r.sb[i] = Len(d) + i

Marks(st, X, A, D, C, F) ==
  /\ X = D + C + F /\ D + C <= Total /\ (st = "CLOSE_WAIT" => D + C = Total)
  /\ C <= RcvHiwat /\ A <= D + RcvHiwat + F

Receiver(r, d, m) ==
  /\ r \in RPs /\ d \in Seq(1 .. Total) /\ m \in 0 .. Total + 1
  /\ InOrder(r, d)
  /\ Marks(r.t_state, Pos(r.nxt), Pos(r.adv), Len(d), Len(r.sb), GotFin(r))
  /\ Pos(r.nxt) <= m
  /\ Ordered(r.q, Pos(r.nxt) + 1, Len(d) + RcvHiwat, m)

(* The right edge of the window B has offered, or what it has beyond it. *)
Right(r) == Max2(Pos(r.adv), Pos(r.nxt))

(* What is on its way to B. *)
Wire(n, r, m) ==
  \A s \in n : s \in Pieces /\ Reach(s) <= m /\ (s.fin => Stop(s) <= Right(r))

(* The acknowledgements on their way to A, between what A has heard and    *)
(* what B has said: neither they nor the right edges they carry go back.   *)
AckSet == [ack : Numbers, win : 0 .. RcvHiwat]
Edge(a) == Pos(a.ack) + a.win
Chain(a, u, e, n, R) ==
  /\ u <= n /\ e <= R /\ a \in Seq(AckSet)
  /\ \A i \in 1 .. Len(a) : /\ u <= Pos(a[i].ack) /\ Pos(a[i].ack) <= n
                            /\ e <= Edge(a[i]) /\ Edge(a[i]) <= R
  /\ \A i, j \in 1 .. Len(a) : i < j => /\ Pos(a[i].ack) <= Pos(a[j].ack)
                                        /\ Edge(a[i]) <= Edge(a[j])

(* The parts of B's control block. *)
LEMMA RPFacts ==
  ASSUME NEW r \in RPs
  PROVE  /\ r.t_state \in {"ESTABLISHED", "CLOSE_WAIT"}
         /\ r.nxt \in Numbers /\ r.adv \in Numbers /\ r.q \in Seq(Pieces)
         /\ r.sb \in Seq(1 .. Total) /\ Len(r.sb) \in Nat
         /\ r.delack \in BOOLEAN /\ r.acknow \in BOOLEAN
         /\ Pos(r.nxt) \in Nat /\ Pos(r.adv) \in Nat
         /\ Right(r) \in Nat /\ Pos(r.nxt) <= Right(r) /\ Pos(r.adv) <= Right(r)
         /\ Right(r) = Pos(r.nxt) \/ Right(r) = Pos(r.adv)
         /\ GotFin(r) \in {0, 1}
<1>1. /\ r.t_state \in {"ESTABLISHED", "CLOSE_WAIT"}
      /\ r.nxt \in Numbers /\ r.adv \in Numbers /\ r.q \in Seq(Pieces)
      /\ r.sb \in Seq(1 .. Total) /\ r.delack \in BOOLEAN /\ r.acknow \in BOOLEAN
  BY DEF RPs
<1>2. Pos(r.nxt) \in Nat /\ Pos(r.adv) \in Nat /\ Len(r.sb) \in Nat
  BY <1>1, NumberIsPlace, LenProperties
<1>3. /\ Right(r) \in Nat /\ Pos(r.nxt) <= Right(r) /\ Pos(r.adv) <= Right(r)
      /\ Right(r) = Pos(r.nxt) \/ Right(r) = Pos(r.adv)
  <2> HIDE DEF Pos
  <2> QED BY <1>2, SMT DEF Right, Max2
<1>4. GotFin(r) \in {0, 1}
  BY DEF GotFin
<1> QED BY <1>1, <1>2, <1>3, <1>4

(* The parts of an acknowledgement. *)
LEMMA AckFacts ==
  ASSUME NEW a \in AckSet
  PROVE  /\ a.ack \in Numbers /\ a.win \in Nat /\ a.win <= RcvHiwat /\ a.win \in 0 .. RcvHiwat
         /\ Pos(a.ack) \in Nat /\ Edge(a) \in Nat /\ Edge(a) = Pos(a.ack) + a.win
<1>1. a.ack \in Numbers /\ a.win \in 0 .. RcvHiwat
  BY DEF AckSet
<1>2. a.win \in Nat /\ a.win <= RcvHiwat
  BY <1>1, Sizes, SMT
<1>3. Pos(a.ack) \in Nat
  BY <1>1, NumberIsPlace
<1>4. Pos(a.ack) + a.win \in Nat
  <2> HIDE DEF Pos
  <2> QED BY <1>2, <1>3, SMT
<1> QED BY <1>1, <1>2, <1>3, <1>4 DEF Edge

(* A queue that is in order stays so within wider bounds. *)
LEMMA OrderedWider ==
  ASSUME NEW q, NEW lo \in Nat, NEW hi \in Nat, NEW m \in Nat, Ordered(q, lo, hi, m),
         NEW lo2 \in Nat, NEW hi2 \in Nat, NEW m2 \in Nat, lo2 <= lo, hi <= hi2, m <= m2
  PROVE  Ordered(q, lo2, hi2, m2)
<1>1. q \in Seq(Pieces) /\ \A i, j \in 1 .. Len(q) : i < j => Stop(q[i]) <= Pos(q[j].seq)
  BY DEF Ordered
<1>2. ASSUME NEW i \in 1 .. Len(q)
      PROVE  lo2 <= Pos(q[i].seq) /\ Stop(q[i]) <= hi2 /\ Reach(q[i]) <= m2
  <2>1. lo <= Pos(q[i].seq) /\ Stop(q[i]) <= hi /\ Reach(q[i]) <= m
    BY DEF Ordered
  <2>2. q[i] \in Pieces
    BY <1>1, ElementOfSeq
  <2>3. Pos(q[i].seq) \in Nat /\ Stop(q[i]) \in Nat /\ Reach(q[i]) \in Nat
    BY <2>2, PieceFacts
  <2> HIDE DEF Pos, Stop, Reach
  <2> QED BY <2>1, <2>3, SMT
<1> QED BY <1>1, <1>2 DEF Ordered

(* B's block does not mind that snd_max goes on. *)
LEMMA ReceiverMax ==
  ASSUME NEW r, NEW d, NEW m, Receiver(r, d, m), NEW m2 \in 0 .. Total + 1, m <= m2
  PROVE  Receiver(r, d, m2)
<1>1. /\ r \in RPs /\ d \in Seq(1 .. Total) /\ m \in 0 .. Total + 1 /\ Pos(r.nxt) <= m
      /\ Ordered(r.q, Pos(r.nxt) + 1, Len(d) + RcvHiwat, m)
  BY DEF Receiver
<1>2. Pos(r.nxt) \in Nat /\ Len(d) \in Nat /\ m \in Nat /\ m2 \in Nat
  BY <1>1, RPFacts, LenProperties, Sizes, SMT
<1>3. /\ Pos(r.nxt) <= m2 /\ Pos(r.nxt) + 1 \in Nat /\ Len(d) + RcvHiwat \in Nat
      /\ Pos(r.nxt) + 1 <= Pos(r.nxt) + 1 /\ Len(d) + RcvHiwat <= Len(d) + RcvHiwat
  <2> HIDE DEF Pos
  <2> QED BY <1>1, <1>2, Sizes, SMT
<1>4. Ordered(r.q, Pos(r.nxt) + 1, Len(d) + RcvHiwat, m2)
  <2> HIDE DEF Pos
  <2> QED BY <1>1, <1>2, <1>3, OrderedWider
<1> QED BY <1>3, <1>4 DEF Receiver

(* More on the wire. *)
LEMMA WireMore ==
  ASSUME NEW n, NEW r \in RPs, NEW r2 \in RPs, NEW m \in Nat, NEW m2 \in Nat, Wire(n, r, m),
         m <= m2, Right(r) <= Right(r2)
  PROVE  Wire(n, r2, m2)
<1> SUFFICES ASSUME NEW s \in n
             PROVE  s \in Pieces /\ Reach(s) <= m2 /\ (s.fin => Stop(s) <= Right(r2))
  BY DEF Wire
<1>1. s \in Pieces /\ Reach(s) <= m /\ (s.fin => Stop(s) <= Right(r))
  BY DEF Wire
<1>2. Reach(s) \in Nat /\ Stop(s) \in Nat
  BY <1>1, PieceFacts
<1>3. Right(r) \in Nat /\ Right(r2) \in Nat
  BY RPFacts
<1>4. Reach(s) <= m2
  <2> HIDE DEF Reach
  <2> QED BY <1>1, <1>2, SMT
<1>5. Stop(s) <= Right(r) => Stop(s) <= Right(r2)
  <2> HIDE DEF Stop, Right
  <2> QED BY <1>2, <1>3, SMT
<1> QED BY <1>1, <1>4, <1>5

(* Acknowledgements without the first one, A having heard u and e. *)
LEMMA ChainRest ==
  ASSUME NEW a, NEW u \in Nat, NEW e \in Nat, NEW n \in Nat, NEW R \in Nat, Chain(a, u, e, n, R),
         Len(a) # 0,
         NEW b \in Seq(AckSet), Len(b) = Len(a) - 1,
         \A i \in 1 .. Len(b) : b[i] = a[i + 1]
  PROVE  /\ a[1] \in AckSet /\ u <= Pos(a[1].ack) /\ e <= Edge(a[1]) /\ Pos(a[1].ack) <= n
         /\ Edge(a[1]) <= R
         /\ Chain(b, u, e, n, R) /\ Chain(b, Pos(a[1].ack), Edge(a[1]), n, R)
<1>1. /\ u <= n /\ e <= R /\ a \in Seq(AckSet)
      /\ \A i \in 1 .. Len(a) : /\ u <= Pos(a[i].ack) /\ Pos(a[i].ack) <= n
                                /\ e <= Edge(a[i]) /\ Edge(a[i]) <= R
      /\ \A i, j \in 1 .. Len(a) : i < j => /\ Pos(a[i].ack) <= Pos(a[j].ack)
                                            /\ Edge(a[i]) <= Edge(a[j])
  BY DEF Chain
<1>2. Len(a) \in Nat /\ Len(b) \in Nat
  BY <1>1, LenProperties
<1>3. 1 \in 1 .. Len(a)
  BY <1>2, SMT
<1>4. \A i \in 1 .. Len(b) : i + 1 \in 1 .. Len(a) /\ 1 < i + 1
  BY <1>2, SMT
<1>5. \A i, j \in 1 .. Len(b) : i < j => i + 1 < j + 1
  BY <1>2, SMT
<1>6. a[1] \in AckSet
  BY <1>1, <1>3, ElementOfSeq
<1>7. \A i \in 1 .. Len(b) : /\ u <= Pos(b[i].ack) /\ Pos(b[i].ack) <= n
                             /\ e <= Edge(b[i]) /\ Edge(b[i]) <= R
                             /\ Pos(a[1].ack) <= Pos(b[i].ack) /\ Edge(a[1]) <= Edge(b[i])
  BY <1>1, <1>3, <1>4
<1>8. \A i, j \in 1 .. Len(b) : i < j => /\ Pos(b[i].ack) <= Pos(b[j].ack)
                                         /\ Edge(b[i]) <= Edge(b[j])
  BY <1>1, <1>4, <1>5
<1>9. Pos(a[1].ack) <= n /\ Edge(a[1]) <= R /\ u <= Pos(a[1].ack) /\ e <= Edge(a[1])
  BY <1>1, <1>3
<1>10. Chain(b, u, e, n, R)
  BY <1>1, <1>7, <1>8 DEF Chain
<1>11. Chain(b, Pos(a[1].ack), Edge(a[1]), n, R)
  BY <1>7, <1>8, <1>9 DEF Chain
<1> QED BY <1>6, <1>9, <1>10, <1>11

(* B has got further. *)
LEMMA ChainWider ==
  ASSUME NEW a, NEW u \in Nat, NEW e \in Nat, NEW n \in Nat, NEW R \in Nat, Chain(a, u, e, n, R),
         NEW n2 \in Nat, NEW R2 \in Nat, n <= n2, R <= R2
  PROVE  Chain(a, u, e, n2, R2)
<1>1. /\ u <= n /\ e <= R /\ a \in Seq(AckSet)
      /\ \A i \in 1 .. Len(a) : /\ u <= Pos(a[i].ack) /\ Pos(a[i].ack) <= n
                                /\ e <= Edge(a[i]) /\ Edge(a[i]) <= R
      /\ \A i, j \in 1 .. Len(a) : i < j => /\ Pos(a[i].ack) <= Pos(a[j].ack)
                                            /\ Edge(a[i]) <= Edge(a[j])
  BY DEF Chain
<1>2. u <= n2 /\ e <= R2
  BY <1>1, SMT
<1>3. ASSUME NEW i \in 1 .. Len(a) PROVE Pos(a[i].ack) <= n2 /\ Edge(a[i]) <= R2
  <2>1. a[i] \in AckSet
    BY <1>1, ElementOfSeq
  <2>2. Pos(a[i].ack) \in Nat /\ Edge(a[i]) \in Nat
    BY <2>1, AckFacts
  <2>3. Pos(a[i].ack) <= n /\ Edge(a[i]) <= R
    BY <1>1
  <2> HIDE DEF Pos, Edge
  <2> QED BY <2>2, <2>3, SMT
<1> QED BY <1>1, <1>2, <1>3 DEF Chain

(* A sequence with the next bytes of the stream after it. *)
LEMMA StreamMore ==
  ASSUME NEW s \in Seq(1 .. Total), NEW k \in Nat, \A i \in 1 .. Len(s) : s[i] = k + i,
         NEW b \in Seq(1 .. Total), \A i \in 1 .. Len(b) : b[i] = (k + Len(s)) + i
  PROVE  /\ s \o b \in Seq(1 .. Total) /\ Len(s \o b) = Len(s) + Len(b)
         /\ \A i \in 1 .. Len(s \o b) : (s \o b)[i] = k + i
<1>1. /\ s \o b \in Seq(1 .. Total) /\ Len(s \o b) = Len(s) + Len(b)
      /\ \A i \in 1 .. Len(s) + Len(b) :
           (s \o b)[i] = IF i <= Len(s) THEN s[i] ELSE b[i - Len(s)]
  BY ConcatProperties
<1>2. Len(s) \in Nat /\ Len(b) \in Nat
  BY LenProperties
<1>3. ASSUME NEW i \in 1 .. Len(s) + Len(b) PROVE (s \o b)[i] = k + i
  <2>1. CASE i <= Len(s)
    <3>1. i \in 1 .. Len(s)
      BY <1>2, <2>1, SMT
    <3> QED BY <1>1, <2>1, <3>1
  <2>2. CASE ~(i <= Len(s))
    <3>1. i - Len(s) \in 1 .. Len(b) /\ (k + Len(s)) + (i - Len(s)) = k + i
      BY <1>2, <2>2, SMT
    <3> QED BY <1>1, <2>2, <3>1
  <2> QED BY <2>1, <2>2
<1> QED BY <1>1, <1>3

(* sbdrop: a sequence without its first k elements. *)
IsRest(b, s, k) ==
  /\ b \in Seq(1 .. Total) /\ Len(b) = Len(s) - k
  /\ \A i \in 1 .. Len(b) : b[i] = s[k + i] /\ k + i \in 1 .. Len(s) /\ i \in Int

(* SubSeq gives it. *)
LEMMA Rest ==
  ASSUME NEW s \in Seq(1 .. Total), NEW k \in Nat, k <= Len(s)
  PROVE  IsRest(SubSeq(s, k + 1, Len(s)), s, k)
<1> DEFINE b == SubSeq(s, k + 1, Len(s))
<1>1. Len(s) \in Nat
  BY LenProperties
<1>2. /\ k + 1 \in Nat /\ 1 <= k + 1 /\ Len(s) <= Len(s) /\ k + 1 <= Len(s) + 1
      /\ (Len(s) + 1) - (k + 1) = Len(s) - k /\ (k + 1) - 1 = k
      /\ \A i \in 1 .. Len(s) - k : i \in Int
  BY <1>1, SMT
<1>3. /\ b \in Seq(1 .. Total) /\ Len(b) = (Len(s) + 1) - (k + 1)
      /\ \A i \in 1 .. (Len(s) + 1) - (k + 1) :
           b[i] = s[((k + 1) - 1) + i] /\ ((k + 1) - 1) + i \in 1 .. Len(s)
  <2> DEFINE c == k + 1
             l == Len(s)
  <2>1. c \in Nat /\ l \in Nat /\ 1 <= c /\ l <= Len(s) /\ c <= l + 1
    BY <1>1, <1>2
  <2> HIDE DEF c, l
  <2>2. SubSeq(s, c, l) \in Seq(1 .. Total)
    BY <2>1, Part
  <2>3. Len(SubSeq(s, c, l)) = (l + 1) - c
    BY <2>1, Part, SMT
  <2>4. \A i \in 1 .. (l + 1) - c :
          SubSeq(s, c, l)[i] = s[(c - 1) + i] /\ (c - 1) + i \in 1 .. Len(s)
    BY <2>1, Part
  <2> QED BY <2>2, <2>3, <2>4 DEF c, l
<1> HIDE DEF b
<1>4. IsRest(b, s, k)
  BY <1>2, <1>3 DEF IsRest
<1> QED BY <1>4 DEF b

(* The rest of a stretch of the stream is one. *)
LEMMA RestStream ==
  ASSUME NEW s, NEW b, NEW k \in Nat, IsRest(b, s, k), NEW U \in Nat,
         \A i \in 1 .. Len(s) : s[i] = U + i
  PROVE  \A i \in 1 .. Len(b) : b[i] = (U + k) + i
<1> TAKE i \in 1 .. Len(b)
<1>1. b[i] = s[k + i] /\ k + i \in 1 .. Len(s) /\ i \in Int
  BY DEF IsRest
<1>2. s[k + i] = U + (k + i)
  BY <1>1
<1>3. U + (k + i) = (U + k) + i
  BY <1>1, SMT
<1> QED BY <1>1, <1>2, <1>3

-----------------------------------------------------------------------------
(* B acknowledges. *)

(* The window of an acknowledgement, from so_rcv's space and the window     *)
(* offered before.                                                         *)
Window(space, offered) ==
  Max2(IF space < RcvHiwat \div 4 /\ space < MaxSeg THEN 0 ELSE space, offered)
NewAdv(X, A, win) == IF win > 0 /\ X + win > A THEN X + win ELSE A

(* The numbers of an acknowledgement: the window fits in so_rcv and its    *)
(* right edge is not to the left of the one offered before.                *)
Edges(st, X, A, D, C, F, win) ==
  /\ win \in 0 .. RcvHiwat /\ X + win \in 0 .. Horizon
  /\ Max2(A, X) <= X + win /\ Max2(NewAdv(X, A, win), X) = X + win
  /\ Marks(st, X, NewAdv(X, A, win), D, C, F)

(* What the ends know of one another, when A's snd_max is at m and A has   *)
(* heard u and the right edge e.                                           *)
Heard(r, d, k, m, u, e) ==
  /\ Receiver(r, d, m) /\ u \in Nat /\ e \in Nat
  /\ Chain(k, u, e, Pos(r.nxt), Right(r))

(* What a receiver consists of. *)
LEMMA ReceiverFacts ==
  ASSUME NEW r, NEW d, NEW m, Receiver(r, d, m)
  PROVE  /\ r \in RPs /\ d \in Seq(1 .. Total) /\ Len(d) \in Nat /\ m \in 0 .. Total + 1 /\ m \in Nat
         /\ InOrder(r, d) /\ Pos(r.nxt) <= m
         /\ Marks(r.t_state, Pos(r.nxt), Pos(r.adv), Len(d), Len(r.sb), GotFin(r))
         /\ Ordered(r.q, Pos(r.nxt) + 1, Len(d) + RcvHiwat, m)
<1>1. d \in Seq(1 .. Total) /\ m \in 0 .. Total + 1
  BY DEF Receiver
<1>2. m \in Nat
  BY <1>1, Sizes, SMT
<1>3. Len(d) \in Nat
  BY <1>1, LenProperties
<1> QED BY <1>1, <1>2, <1>3 DEF Receiver

(* tcp_output at B: the right edge of the window does not move left, and   *)
(* the acknowledgement it sends is the last word.                          *)
LEMMA AcknowledgeStep ==
  \A r, d, m, u, e : \A acknow \in BOOLEAN, mbuf \in BOOLEAN :
    Heard(r, d, acks, m, u, e) /\ Acknowledge(r, acknow, mbuf) =>
      Heard(rp', d, acks', m, u, e) /\ Right(r) <= Right(rp')
(* B says where it is. *)
<1>1. ASSUME NEW a, NEW u \in Nat, NEW e \in Nat, NEW n \in Nat, NEW R \in Nat, Chain(a, u, e, n, R),
             NEW k \in AckSet, Pos(k.ack) = n, Edge(k) = R
      PROVE  Chain(Append(a, k), u, e, n, R)
  <2> USE <1>1
  <2> DEFINE b == Append(a, k)
  <2>1. /\ u <= n /\ e <= R /\ a \in Seq(AckSet)
        /\ \A i \in 1 .. Len(a) : /\ u <= Pos(a[i].ack) /\ Pos(a[i].ack) <= n
                                  /\ e <= Edge(a[i]) /\ Edge(a[i]) <= R
        /\ \A i, j \in 1 .. Len(a) : i < j => /\ Pos(a[i].ack) <= Pos(a[j].ack)
                                              /\ Edge(a[i]) <= Edge(a[j])
    BY DEF Chain
  <2>2. /\ b \in Seq(AckSet) /\ Len(b) = Len(a) + 1 /\ b[Len(a) + 1] = k
        /\ \A i \in 1 .. Len(a) : b[i] = a[i]
    BY <2>1, AppendProperties, SMT
  <2> HIDE DEF b
  <2>3. Len(a) \in Nat
    BY <2>1, LenProperties
  <2>4. \A i \in 1 .. Len(b) : i \in 1 .. Len(a) \/ i = Len(a) + 1
    BY <2>2, <2>3, SMT
  <2>5. \A i, j \in 1 .. Len(b) : i < j => i \in 1 .. Len(a) /\ (j \in 1 .. Len(a) \/ j = Len(a) + 1)
    BY <2>2, <2>3, SMT
  <2>6. n <= n /\ R <= R
    BY SMT
  <2>7. \A i \in 1 .. Len(b) : /\ u <= Pos(b[i].ack) /\ Pos(b[i].ack) <= n
                               /\ e <= Edge(b[i]) /\ Edge(b[i]) <= R
    BY <2>1, <2>2, <2>4, <2>6
  <2>8. ASSUME NEW i \in 1 .. Len(b), NEW j \in 1 .. Len(b), i < j
        PROVE  Pos(b[i].ack) <= Pos(b[j].ack) /\ Edge(b[i]) <= Edge(b[j])
    <3>1. i \in 1 .. Len(a) /\ (j \in 1 .. Len(a) \/ j = Len(a) + 1)
      BY <2>5, <2>8
    <3>2. CASE j \in 1 .. Len(a)
      BY <2>1, <2>2, <2>8, <3>1, <3>2
    <3>3. CASE j = Len(a) + 1
      BY <2>1, <2>2, <3>1, <3>3
    <3> QED BY <3>1, <3>2, <3>3
  <2>9. Chain(b, u, e, n, R)
    BY <2>1, <2>2, <2>7, <2>8 DEF Chain
  <2> QED BY <2>9 DEF b
(* The window of an acknowledgement has such numbers. *)
<1>2. ASSUME NEW st, NEW X \in Nat, NEW A \in Nat, NEW D \in Nat, NEW C \in Nat, NEW F \in {0, 1},
             Marks(st, X, A, D, C, F)
      PROVE  Edges(st, X, A, D, C, F, Window(RcvHiwat - C, A - X))
  <2> USE <1>2
  <2> DEFINE W == Window(RcvHiwat - C, A - X)
  <2>1. /\ X = D + C + F /\ D + C <= Total /\ C <= RcvHiwat /\ A <= D + RcvHiwat + F
        /\ (st = "CLOSE_WAIT" => D + C = Total)
    BY DEF Marks
  <2>2. /\ RcvHiwat \in Nat /\ Total \in Nat /\ Horizon = Total + 1 + RcvHiwat /\ MaxSeg \in Nat
        /\ Horizon \in Nat
    BY Sizes
  <2>4. A - X <= W /\ 0 <= W /\ W <= RcvHiwat - C /\ W \in Int
    <3> HIDE DEF Horizon
    <3> QED BY <2>1, <2>2, SMT DEF Window, Max2
  <2> HIDE DEF W, Horizon
  <2>5. W \in 0 .. RcvHiwat /\ X + W \in 0 .. Horizon
    BY <2>1, <2>2, <2>4, SMT
  <2>6. Max2(A, X) <= X + W /\ Max2(NewAdv(X, A, W), X) = X + W
    BY <2>1, <2>2, <2>4, SMT DEF Max2, NewAdv
  <2>7. NewAdv(X, A, W) <= D + RcvHiwat + F
    BY <2>1, <2>2, <2>4, SMT DEF NewAdv
  <2>8. Marks(st, X, NewAdv(X, A, W), D, C, F)
    BY <2>1, <2>7 DEF Marks
  <2>9. Edges(st, X, A, D, C, F, W)
    BY <2>5, <2>6, <2>8 DEF Edges
  <2> QED BY <2>9 DEF W
(* rcv_adv and the delayed acknowledgement may change. *)
<1>3. ASSUME NEW r, NEW d, NEW m, Receiver(r, d, m), NEW s \in RPs,
             s.t_state = r.t_state, s.nxt = r.nxt, s.q = r.q, s.sb = r.sb,
             Marks(r.t_state, Pos(r.nxt), Pos(s.adv), Len(d), Len(r.sb), GotFin(r))
      PROVE  Receiver(s, d, m)
  <2> USE <1>3
  <2>1. InOrder(s, d)
    BY DEF InOrder, Receiver
  <2>2. GotFin(s) = GotFin(r)
    BY DEF GotFin
  <2> QED BY <2>1, <2>2 DEF Receiver
<1> QED
  <2> TAKE r, d, m, u, e
  <2> TAKE acknow \in BOOLEAN, mbuf \in BOOLEAN
  <2> HAVE Heard(r, d, acks, m, u, e) /\ Acknowledge(r, acknow, mbuf)
  <2>1. /\ Receiver(r, d, m) /\ u \in Nat /\ e \in Nat
        /\ Chain(acks, u, e, Pos(r.nxt), Right(r))
    BY DEF Heard
  <2>2. /\ r \in RPs /\ Len(d) \in Nat
        /\ Marks(r.t_state, Pos(r.nxt), Pos(r.adv), Len(d), Len(r.sb), GotFin(r))
    BY <2>1, ReceiverFacts
  <2>3. /\ r.nxt \in Numbers /\ r.adv \in Numbers /\ Pos(r.nxt) \in Nat /\ Pos(r.adv) \in Nat
        /\ Len(r.sb) \in Nat /\ GotFin(r) \in {0, 1} /\ Right(r) \in Nat
    BY <2>2, RPFacts
  <2> DEFINE W == Window(RcvHiwat - Len(r.sb), Pos(r.adv) - Pos(r.nxt))
             edge == Add(r.nxt, W)
             s == [r EXCEPT !.adv = IF W > 0 /\ SEQ_GT(edge, @) THEN edge ELSE @, !.delack = FALSE,
                           !.acknow = FALSE]
             z == [r EXCEPT !.acknow = @ \/ acknow]
             a == [ack |-> r.nxt, win |-> W]
  <2>4. CASE rp' = z /\ UNCHANGED acks
    <3>1. /\ z \in RPs /\ z.t_state = r.t_state /\ z.nxt = r.nxt /\ z.q = r.q /\ z.sb = r.sb
          /\ z.adv = r.adv
      BY <2>2 DEF RPs
    <3> HIDE DEF z
    <3>2. Receiver(z, d, m)
      BY <2>1, <2>2, <3>1, <1>3
    <3>3. Right(z) = Right(r)
      BY <3>1 DEF Right
    <3>4. Right(r) <= Right(r)
      <4> HIDE DEF Right
      <4> QED BY <2>3, SMT
    <3> QED BY <2>1, <2>4, <3>1, <3>2, <3>3, <3>4 DEF Heard
  <2>5. CASE rp' = s /\ acks' = (IF Len(acks) < MaxNet THEN Append(acks, a) ELSE acks)
    <3>1. Edges(r.t_state, Pos(r.nxt), Pos(r.adv), Len(d), Len(r.sb), GotFin(r), W)
      BY <2>2, <2>3, <1>2
    <3> HIDE DEF W
    <3>2. /\ W \in 0 .. RcvHiwat /\ Pos(r.nxt) + W \in 0 .. Horizon
          /\ Max2(Pos(r.adv), Pos(r.nxt)) <= Pos(r.nxt) + W
          /\ Max2(NewAdv(Pos(r.nxt), Pos(r.adv), W), Pos(r.nxt)) = Pos(r.nxt) + W
          /\ Marks(r.t_state, Pos(r.nxt), NewAdv(Pos(r.nxt), Pos(r.adv), W), Len(d), Len(r.sb),
                   GotFin(r))
      BY <3>1 DEF Edges
    <3>3. W \in Int /\ W \in Nat
      BY <3>2, Sizes, SMT
    <3>4. edge \in Numbers /\ Pos(edge) = Pos(r.nxt) + W
      BY <2>3, <3>2, <3>3, AddPos
    <3>5. SEQ_GT(edge, r.adv) <=> Pos(r.nxt) + W > Pos(r.adv)
      BY <2>3, <3>4, SeqPos
    <3> HIDE DEF edge
    <3>6. /\ s \in RPs /\ s.t_state = r.t_state /\ s.nxt = r.nxt /\ s.q = r.q /\ s.sb = r.sb
          /\ s.adv = IF W > 0 /\ SEQ_GT(edge, r.adv) THEN edge ELSE r.adv
      BY <2>2, <2>3, <3>4 DEF RPs
    <3> HIDE DEF s
    <3>7. Pos(s.adv) = NewAdv(Pos(r.nxt), Pos(r.adv), W)
      BY <3>4, <3>5, <3>6 DEF NewAdv
    <3>8. Receiver(s, d, m)
      BY <2>1, <3>2, <3>6, <3>7, <1>3
    <3>9. Right(s) = Pos(r.nxt) + W /\ Right(r) <= Right(s)
      BY <3>2, <3>6, <3>7 DEF Right
    <3>10. Right(s) \in Nat /\ Pos(r.nxt) <= Pos(r.nxt)
      <4>1. Right(s) \in Nat
        BY <3>6, RPFacts
      <4>2. Pos(r.nxt) <= Pos(r.nxt)
        <5> HIDE DEF Pos
        <5> QED BY <2>3, SMT
      <4> QED BY <4>1, <4>2
    <3>11. Chain(acks, u, e, Pos(r.nxt), Right(s))
      <4> HIDE DEF Pos, Right
      <4> QED BY <2>1, <2>3, <3>9, <3>10, ChainWider
    <3>12. a \in AckSet /\ Pos(a.ack) = Pos(r.nxt) /\ Edge(a) = Right(s)
      BY <2>3, <3>2, <3>9 DEF AckSet, Edge
    <3> HIDE DEF a
    <3>13. Chain(Append(acks, a), u, e, Pos(r.nxt), Right(s))
      <4> HIDE DEF Pos, Right
      <4> QED BY <2>1, <2>3, <3>10, <3>11, <3>12, <1>1
    <3>14. Chain(acks', u, e, Pos(r.nxt), Right(s))
      BY <2>5, <3>11, <3>13
    <3> QED BY <2>1, <2>5, <3>6, <3>8, <3>9, <3>14 DEF Heard
  <2>6. Diff(r.adv, r.nxt) = Pos(r.adv) - Pos(r.nxt)
    BY <2>3, DiffPos
  <2>7. Window(sbspace(r), Offered(r)) = W
    BY <2>6 DEF sbspace, Offered
  <2> QED BY <2>4, <2>5, <2>7 DEF Acknowledge, Window

-----------------------------------------------------------------------------
(* B takes a segment. *)

(* A queue whose elements are beyond a place is in order from there on. *)
LEMMA OrderedBeyond ==
  ASSUME NEW q, NEW lo, NEW hi, NEW m, Ordered(q, lo, hi, m), NEW lo2,
         \A i \in 1 .. Len(q) : lo2 <= Pos(q[i].seq)
  PROVE  Ordered(q, lo2, hi, m)
BY DEF Ordered

(* Received: B's block s, from r by the bytes b. *)
Gets(r, d, m, s, b) ==
  /\ r.t_state = "ESTABLISHED" /\ s \in RPs /\ s.t_state = "ESTABLISHED" /\ s.adv = r.adv
  /\ b \in Seq(1 .. Total) /\ s.sb = r.sb \o b
  /\ \A i \in 1 .. Len(b) : b[i] = Pos(r.nxt) + i
  /\ Pos(s.nxt) = Pos(r.nxt) + Len(b)
  /\ Pos(s.nxt) <= m /\ Pos(s.nxt) <= Total /\ Pos(s.nxt) <= Len(d) + RcvHiwat
  /\ Ordered(s.q, Pos(s.nxt) + 1, Len(d) + RcvHiwat, m)

(* The FIN, once the stream is there up to it: nothing is left in the      *)
(* queue.                                                                  *)
LEMMA FinKeeps ==
  ASSUME NEW r, NEW d, NEW m, Receiver(r, d, m), r.t_state = "ESTABLISHED",
         Pos(r.nxt) = Total, Total + 1 <= m
  PROVE  /\ Receiver(FinInput(r), d, m) /\ FinInput(r).adv = r.adv
         /\ Pos(r.nxt) <= Pos(FinInput(r).nxt)
<1> DEFINE s == FinInput(r)
<1>1. /\ r \in RPs /\ d \in Seq(1 .. Total) /\ Len(d) \in Nat /\ m \in 0 .. Total + 1 /\ InOrder(r, d)
      /\ Marks(r.t_state, Pos(r.nxt), Pos(r.adv), Len(d), Len(r.sb), GotFin(r))
      /\ Ordered(r.q, Pos(r.nxt) + 1, Len(d) + RcvHiwat, m)
  BY ReceiverFacts
<1>2. /\ r.nxt \in Numbers /\ Pos(r.nxt) \in Nat /\ Pos(r.adv) \in Nat /\ Len(r.sb) \in Nat
      /\ r.q \in Seq(Pieces)
  BY <1>1, RPFacts
<1>3. 1 \in Int /\ Pos(r.nxt) + 1 \in 0 .. Horizon
  <2>1. 1 \in Int /\ Total + 1 \in 0 .. Horizon
    <3> HIDE DEF Horizon
    <3> QED BY Sizes, SMT
  <2> QED BY <2>1
<1>4. Add(r.nxt, 1) \in Numbers /\ Pos(Add(r.nxt, 1)) = Pos(r.nxt) + 1
  BY <1>2, <1>3, AddPos
<1>5. /\ s \in RPs /\ s.t_state = "CLOSE_WAIT" /\ s.nxt = Add(r.nxt, 1) /\ s.adv = r.adv
      /\ s.q = r.q /\ s.sb = r.sb
  BY <1>1, <1>4 DEF RPs, FinInput
<1> HIDE DEF s
<1>6. GotFin(r) = 0 /\ GotFin(s) = 1
  BY <1>5 DEF GotFin
<1>7. /\ Pos(r.nxt) = Len(d) + Len(r.sb) + 0 /\ Len(r.sb) <= RcvHiwat
      /\ Pos(r.adv) <= Len(d) + RcvHiwat + 0 /\ Len(d) + Len(r.sb) <= Total
  BY <1>1, <1>6 DEF Marks
<1>8. /\ Pos(r.nxt) + 1 = Len(d) + Len(r.sb) + 1 /\ Len(d) + Len(r.sb) = Total
      /\ Pos(r.adv) <= Len(d) + RcvHiwat + 1 /\ Pos(r.nxt) <= Pos(r.nxt) + 1 /\ Pos(r.nxt) + 1 <= m
  <2>1. m \in Nat /\ RcvHiwat \in Nat /\ Total \in Nat
    BY <1>1, Sizes, SMT
  <2> HIDE DEF Pos
  <2> QED BY <1>1, <1>2, <1>7, <2>1, SMT
<1>9. Marks(s.t_state, Pos(s.nxt), Pos(s.adv), Len(d), Len(s.sb), GotFin(s))
  BY <1>4, <1>5, <1>6, <1>7, <1>8 DEF Marks
<1>10. InOrder(s, d)
  BY <1>1, <1>5 DEF InOrder
<1>11. \A i \in 1 .. Len(r.q) : FALSE
  <2> SUFFICES ASSUME NEW i \in 1 .. Len(r.q) PROVE FALSE
    OBVIOUS
  <2>1. r.q[i] \in Pieces /\ Pos(r.nxt) + 1 <= Pos(r.q[i].seq)
    BY <1>1, OrderedFacts
  <2>2. /\ Pos(r.q[i].seq) \in Nat /\ Stop(r.q[i]) \in Nat /\ Pos(r.q[i].seq) <= Stop(r.q[i])
        /\ Stop(r.q[i]) <= Total
    BY <2>1, PieceFacts
  <2>3. Total + 1 <= Pos(r.q[i].seq)
    BY <2>1
  <2> HIDE DEF Pos, Stop
  <2> QED BY <2>2, <2>3, Sizes, SMT
<1>12. Ordered(s.q, Pos(s.nxt) + 1, Len(d) + RcvHiwat, m)
  BY <1>1, <1>5, <1>11, OrderedBeyond
<1>13. Receiver(s, d, m)
  BY <1>1, <1>4, <1>5, <1>8, <1>9, <1>10, <1>12 DEF Receiver
<1> QED BY <1>4, <1>5, <1>8, <1>13 DEF s

(* A segment that B keeps after trimming. *)
Fitting(r, d, m, g) ==
  /\ r.t_state = "ESTABLISHED" /\ g \in Pieces /\ Pos(r.nxt) <= Pos(g.seq)
  /\ Stop(g) <= Len(d) + RcvHiwat /\ Reach(g) <= m

(* What B's block s is after it, and whether a FIN is to be taken. *)
Taken(r, d, m, s, fin) ==
  /\ Receiver(s, d, m) /\ s.t_state = "ESTABLISHED" /\ s.adv = r.adv
  /\ Pos(r.nxt) <= Pos(s.nxt)
  /\ fin => Pos(s.nxt) = Total /\ Total + 1 <= m

(* So TCP_REASS leaves B's block in order, and takes a FIN only when the   *)
(* stream is complete.                                                     *)
LEMMA TakesFitting ==
  ASSUME WellOrdered
  PROVE  \A r, d, m, g :
           Receiver(r, d, m) /\ Fitting(r, d, m, g) =>
             Taken(r, d, m, TCP_REASS(r, g).rp, TCP_REASS(r, g).fin)
(* The walks of the queue stop at the first place they look for. *)
<1>1. ASSUME NEW T, T \subseteq Nat, T # {}
      PROVE  First(T) \in T /\ \A m \in T : First(T) <= m
  BY <1>1 DEF First, WellOrdered
(* A part of such a queue is one. *)
<1>2. ASSUME NEW q, NEW lo, NEW hi, NEW m, Ordered(q, lo, hi, m),
             NEW a \in Nat, NEW b \in Nat, 1 <= a, b <= Len(q), a <= b + 1
      PROVE  /\ Ordered(SubSeq(q, a, b), lo, hi, m)
             /\ Len(SubSeq(q, a, b)) = (b + 1) - a
             /\ \A i \in 1 .. (b + 1) - a : /\ SubSeq(q, a, b)[i] = q[(a - 1) + i]
                                            /\ (a - 1) + i \in 1 .. Len(q)
  <2> USE <1>2
  <2> DEFINE r == SubSeq(q, a, b)
  <2>1. q \in Seq(Pieces)
    BY DEF Ordered
  <2>2. /\ r \in Seq(Pieces) /\ Len(r) = (b + 1) - a
        /\ \A i \in 1 .. (b + 1) - a : r[i] = q[(a - 1) + i] /\ (a - 1) + i \in 1 .. Len(q)
    BY <2>1, Part, SMTT(20)
  <2> HIDE DEF r
  <2>3. ASSUME NEW i \in 1 .. Len(r), NEW j \in 1 .. Len(r), i < j
        PROVE  (a - 1) + i < (a - 1) + j
    BY <2>2, <2>3, SMT
  <2>4. Ordered(r, lo, hi, m)
    BY <2>2, <2>3 DEF Ordered
  <2> QED BY <2>2, <2>4 DEF r
(* One after the other they are one. *)
<1>3. ASSUME NEW q, NEW r, NEW lo, NEW hi, NEW m, Ordered(q, lo, hi, m), Ordered(r, lo, hi, m),
             \A i \in 1 .. Len(q), j \in 1 .. Len(r) : Stop(q[i]) <= Pos(r[j].seq)
      PROVE  /\ Ordered(q \o r, lo, hi, m) /\ Len(q \o r) = Len(q) + Len(r)
             /\ MadeOf(q \o r, q, r)
  <2> USE <1>3
  <2> DEFINE s == q \o r
  <2>1. q \in Seq(Pieces) /\ r \in Seq(Pieces)
    BY DEF Ordered
  <2>2. Len(q) \in Nat /\ Len(r) \in Nat
    BY <2>1, LenProperties
  <2>3. /\ s \in Seq(Pieces) /\ Len(s) = Len(q) + Len(r)
        /\ \A i \in 1 .. Len(s) : s[i] = IF i <= Len(q) THEN q[i] ELSE r[i - Len(q)]
    BY <2>1, ConcatProperties
  <2> HIDE DEF s
  <2>4. \A i \in 1 .. Len(s) : /\ i <= Len(q) => i \in 1 .. Len(q)
                               /\ ~(i <= Len(q)) => i - Len(q) \in 1 .. Len(r)
    BY <2>2, <2>3, SMT
  <2>5. ASSUME NEW i \in 1 .. Len(s)
        PROVE  lo <= Pos(s[i].seq) /\ Stop(s[i]) <= hi /\ Reach(s[i]) <= m
    BY <2>3, <2>4 DEF Ordered
  <2>6. ASSUME NEW i \in 1 .. Len(s), NEW j \in 1 .. Len(s), i < j
        PROVE  Stop(s[i]) <= Pos(s[j].seq)
    <3>1. CASE i <= Len(q) /\ j <= Len(q)
      BY <2>3, <2>4, <2>6, <3>1 DEF Ordered
    <3>2. CASE i <= Len(q) /\ ~(j <= Len(q))
      BY <2>3, <2>4, <2>6, <3>2
    <3>3. CASE ~(i <= Len(q)) /\ ~(j <= Len(q))
      <4>1. i - Len(q) < j - Len(q)
        BY <2>2, <2>3, <2>6, SMT
      <4> QED BY <2>3, <2>4, <3>3, <4>1 DEF Ordered
    <3>4. ~(~(i <= Len(q)) /\ j <= Len(q))
      BY <2>2, <2>3, <2>6, SMT
    <3> QED BY <3>1, <3>2, <3>3, <3>4
  <2>7. Ordered(s, lo, hi, m)
    BY <2>3, <2>5, <2>6 DEF Ordered
  <2>8. MadeOf(s, q, r)
    BY <2>3, <2>4 DEF MadeOf
  <2> QED BY <2>3, <2>7, <2>8 DEF s
(* So is a single piece. *)
<1>4. ASSUME NEW s \in Pieces, NEW lo, NEW hi, NEW m,
             lo <= Pos(s.seq), Stop(s) <= hi, Reach(s) <= m
      PROVE  Ordered(<<s>>, lo, hi, m) /\ Len(<<s>>) = 1 /\ <<s>>[1] = s
  <2> USE <1>4
  <2>1. <<s>> \in Seq(Pieces) /\ Len(<<s>>) = 1 /\ <<s>>[1] = s
    BY SMT
  <2> DEFINE q == <<s>>
  <2> HIDE DEF q
  <2>2. \A i \in 1 .. 1 : i = 1
    BY SMT
  <2>3. ~(1 < 1)
    BY SMT
  <2>4. q \in Seq(Pieces) /\ Len(q) = 1 /\ q[1] = s
    BY <2>1 DEF q
  <2>5. Ordered(q, lo, hi, m)
    BY <2>2, <2>3, <2>4 DEF Ordered
  <2> QED BY <2>4, <2>5 DEF q
(* What is left of a queue behind a piece lies behind it. *)
<1>5. ASSUME NEW q, NEW lo \in Nat, NEW hi \in Nat, NEW m \in Nat, Ordered(q, lo, hi, m),
             NEW ti \in Pieces,
             lo <= Stop(ti)
      PROVE  /\ Ordered(Uncovered(ti, q), lo, hi, m)
             /\ \A n \in 1 .. Len(Uncovered(ti, q)) : Stop(ti) <= Pos(Uncovered(ti, q)[n].seq)
  <2> USE <1>5
  <2> DEFINE i(n) == Diff(End(ti), q[n].seq)
             K == {n \in 1 .. Len(q) + 1 : n > Len(q) \/ i(n) <= 0 \/ i(n) < Length(q[n])}
             k == First(K)
  <2>1. q \in Seq(Pieces) /\ Len(q) \in Nat
    BY LenProperties DEF Ordered
  <2>2. End(ti) \in Numbers /\ Pos(End(ti)) = Stop(ti) /\ Stop(ti) \in Nat
    BY PieceFacts
  <2>3. ASSUME NEW n \in 1 .. Len(q)
        PROVE  /\ q[n] \in Pieces /\ q[n].seq \in Numbers /\ Pos(q[n].seq) \in Nat
               /\ Stop(q[n]) = Pos(q[n].seq) + Len(q[n].data) /\ Len(q[n].data) \in Nat
               /\ Stop(q[n]) \in Nat
               /\ Length(q[n]) = Len(q[n].data)
               /\ i(n) = Stop(ti) - Pos(q[n].seq)
    <3>1. q[n] \in Pieces
      BY <2>1, ElementOfSeq
    <3>2. q[n].seq \in Numbers
      BY <3>1, PieceFacts
    <3>3. i(n) = Stop(ti) - Pos(q[n].seq)
      BY <2>2, <3>2, DiffPos
    <3> HIDE DEF i
    <3> QED BY <3>1, <3>3, PieceFacts
  <2> HIDE DEF i, Pos, Stop
  <2>4. K \subseteq Nat /\ Len(q) + 1 \in K
    BY <2>1, SMT
  <2>5. k \in K /\ \A n \in K : k <= n
    <3> HIDE DEF K
    <3> QED BY <2>4, <1>1
  <2> HIDE DEF k
  <2>6. k \in Nat /\ 1 <= k /\ k <= Len(q) + 1
    BY <2>1, <2>5, SMT
  <2>7. CASE k <= Len(q) /\ i(k) > 0
    <3> DEFINE t == TrimFront(q[k], i(k))
               r == SubSeq(q, k + 1, Len(q))
    <3>1. k \in 1 .. Len(q)
      BY <2>1, <2>6, <2>7, SMT
    <3>2. i(k) < Length(q[k])
      <4>1. k > Len(q) \/ i(k) <= 0 \/ i(k) < Length(q[k])
        BY <2>5
      <4>2. i(k) \in Int
        BY <2>2, <2>3, <3>1, SMT
      <4> HIDE DEF K
      <4> QED BY <2>1, <2>6, <2>7, <4>1, <4>2, SMT
    <3>3. i(k) \in Nat /\ i(k) <= Len(q[k].data)
      <4>1. /\ Pos(q[k].seq) \in Nat /\ Len(q[k].data) \in Nat
            /\ i(k) = Stop(ti) - Pos(q[k].seq)
        BY <2>3, <3>1
      <4>2. i(k) \in Int
        BY <2>2, <4>1, SMT
      <4> HIDE DEF i
      <4> QED BY <2>7, <3>2, <4>1, <4>2, SMT DEF Length
    <3>4. /\ t \in Pieces /\ Pos(t.seq) = Pos(q[k].seq) + i(k) /\ Stop(t) = Stop(q[k])
          /\ t.fin = q[k].fin
      BY <2>3, <3>1, <3>3, FrontPiece
    <3> HIDE DEF t
    <3>5. Pos(t.seq) = Stop(ti) /\ Reach(t) = Reach(q[k])
      <4>1. Pos(t.seq) = Stop(ti)
        BY <2>2, <2>3, <3>1, <3>4, SMT
      <4> QED BY <4>1, <3>4 DEF Reach
    <3> DEFINE w == <<t>>
    <3>6. Ordered(w, lo, hi, m) /\ Len(w) = 1 /\ w[1] = t
      BY <3>1, <3>4, <3>5, <1>4, SMT DEF Ordered
    <3> HIDE DEF w
    <3>14. \A a \in 1 .. Len(w) : w[a] = t
      BY <3>6, SMT
    <3>7. k + 1 \in Nat /\ 1 <= k + 1 /\ Len(q) <= Len(q) /\ k + 1 <= Len(q) + 1
      BY <2>1, <2>6, <2>7, SMT
    <3>8. /\ Ordered(r, lo, hi, m) /\ Len(r) = (Len(q) + 1) - (k + 1)
          /\ \A n \in 1 .. (Len(q) + 1) - (k + 1) :
               r[n] = q[((k + 1) - 1) + n] /\ ((k + 1) - 1) + n \in 1 .. Len(q)
      BY <2>1, <3>7, <1>2, SMTT(20)
    <3> HIDE DEF r
    <3>9. ASSUME NEW n \in 1 .. Len(r)
          PROVE  Stop(t) <= Pos(r[n].seq) /\ Stop(ti) <= Pos(r[n].seq)
      <4> DEFINE l == ((k + 1) - 1) + n
      <4>1. l \in 1 .. Len(q) /\ k < l /\ r[n] = q[l]
        BY <2>1, <2>6, <3>8, SMT
      <4> HIDE DEF l
      <4>2. Stop(q[k]) <= Pos(q[l].seq)
        BY <3>1, <4>1 DEF Ordered
      <4>3. Stop(ti) <= Stop(q[k])
        <5>1. /\ Pos(q[k].seq) \in Nat /\ Stop(q[k]) = Pos(q[k].seq) + Len(q[k].data)
              /\ Len(q[k].data) \in Nat /\ i(k) = Stop(ti) - Pos(q[k].seq)
          BY <2>3, <3>1
        <5> QED BY <2>2, <3>3, <5>1, SMT
      <4> QED BY <2>2, <2>3, <3>1, <3>4, <4>1, <4>2, <4>3, SMT
    <3>10. \A a \in 1 .. Len(w), n \in 1 .. Len(r) : Stop(w[a]) <= Pos(r[n].seq)
      BY <3>9, <3>14
    <3> DEFINE u == w \o r
    <3>11. Ordered(u, lo, hi, m) /\ MadeOf(u, w, r)
      BY <3>6, <3>8, <3>10, <1>3
    <3> HIDE DEF u
    <3>12. \A n \in 1 .. Len(u) : Stop(ti) <= Pos(u[n].seq)
      <4>2. Stop(ti) <= Pos(t.seq)
        BY <2>2, <3>5, SMT
      <4> QED BY <3>9, <3>11, <3>14, <4>2 DEF MadeOf
    <3>13. Uncovered(ti, q) = u
      BY <2>7 DEF Uncovered, u, w, r, t, k, K, i
    <3> QED BY <3>11, <3>12, <3>13
  <2>8. CASE ~(k <= Len(q) /\ i(k) > 0)
    <3> DEFINE u == SubSeq(q, k, Len(q))
    <3>1. Len(q) <= Len(q) /\ k <= Len(q) + 1
      BY <2>1, <2>6, SMT
    <3>2. /\ Ordered(u, lo, hi, m) /\ Len(u) = (Len(q) + 1) - k
          /\ \A n \in 1 .. (Len(q) + 1) - k : u[n] = q[(k - 1) + n] /\ (k - 1) + n \in 1 .. Len(q)
      BY <2>1, <2>6, <3>1, <1>2, SMT
    <3>3. Uncovered(ti, q) = u
      BY <2>8 DEF Uncovered, u, k, K, i
    <3> HIDE DEF u
    <3>4. ASSUME NEW n \in 1 .. Len(u) PROVE Stop(ti) <= Pos(u[n].seq)
      <4> DEFINE l == (k - 1) + n
      <4>1. /\ l \in 1 .. Len(q) /\ u[n] = q[l] /\ k \in 1 .. Len(q) /\ (k < l \/ k = l)
        BY <2>1, <2>6, <3>2, SMT
      <4> HIDE DEF l
      <4>2. ~(i(k) > 0) /\ Stop(ti) <= Pos(q[k].seq)
        <5>1. k <= Len(q)
          BY <2>1, <2>6, <4>1, SMT
        <5>2. ~(i(k) > 0)
          BY <2>8, <5>1
        <5>3. Pos(q[k].seq) \in Nat /\ i(k) = Stop(ti) - Pos(q[k].seq)
          BY <2>3, <4>1
        <5> QED BY <2>2, <5>2, <5>3, SMT
      <4>3. CASE k = l
        BY <4>1, <4>2, <4>3
      <4>4. CASE k < l
        <5>1. Stop(q[k]) <= Pos(q[l].seq)
          BY <4>1, <4>4 DEF Ordered
        <5>2. /\ Pos(q[k].seq) \in Nat /\ Len(q[k].data) \in Nat /\ Pos(q[l].seq) \in Nat
              /\ Stop(q[k]) = Pos(q[k].seq) + Len(q[k].data)
          BY <2>3, <4>1
        <5>3. Stop(ti) <= Pos(q[l].seq)
          BY <2>2, <4>2, <5>1, <5>2, SMT
        <5> QED BY <4>1, <5>3
      <4> QED BY <4>1, <4>3, <4>4
    <3> QED BY <3>2, <3>3, <3>4
  <2> QED BY <2>7, <2>8
(* tcp_reass keeps the queue in order. *)
<1>6. ASSUME NEW q, NEW lo \in Nat, NEW hi \in Nat, NEW m \in Nat, Ordered(q, lo, hi, m),
             NEW ti \in Pieces, lo <= Pos(ti.seq), Stop(ti) <= hi, Reach(ti) <= m
      PROVE  Ordered(Insert(q, ti), lo, hi, m)
  <2> USE <1>6
  <2> DEFINE K == {n \in 0 .. Len(q) : n = Len(q) \/ SEQ_GT(q[n + 1].seq, ti.seq)}
             p == First(K)
             i == IF p = 0 THEN 0 ELSE Diff(End(q[p]), ti.seq)
             new == IF i > 0 THEN TrimFront(ti, i) ELSE ti
             a == SubSeq(q, 1, p)
             b == SubSeq(q, p + 1, Len(q))
             u == Uncovered(new, b)
             one == <<new>>
  <2>1. q \in Seq(Pieces) /\ Len(q) \in Nat
    BY OrderedFacts
  <2>2. /\ ti.seq \in Numbers /\ Pos(ti.seq) \in Nat /\ Stop(ti) \in Nat /\ Len(ti.data) \in Nat
        /\ Stop(ti) = Pos(ti.seq) + Len(ti.data) /\ Length(ti) = Len(ti.data)
    BY PieceFacts
  <2>3. /\ \A n \in 1 .. Len(q) :
             /\ q[n] \in Pieces /\ q[n].seq \in Numbers /\ Pos(q[n].seq) \in Nat
             /\ Stop(q[n]) = Pos(q[n].seq) + Len(q[n].data) /\ Len(q[n].data) \in Nat
             /\ Stop(q[n]) \in Nat /\ End(q[n]) \in Numbers /\ Pos(End(q[n])) = Stop(q[n])
    BY OrderedFacts
  <2> HIDE DEF Pos, Stop
  <2>4. K \subseteq Nat /\ Len(q) \in K
    BY <2>1, SMT
  <2>5. p \in K /\ \A n \in K : p <= n
    <3> HIDE DEF K
    <3> QED BY <2>4, <1>1
  <2> HIDE DEF p
  <2>6. p \in Nat /\ p <= Len(q) /\ (p # 0 => p \in 1 .. Len(q))
    BY <2>1, <2>5, SMT
  <2>7. i \in Int /\ (p = 0 => i = 0) /\ (p # 0 => i = Stop(q[p]) - Pos(ti.seq))
    <3>1. CASE p = 0
      BY <3>1, SMT
    <3>2. CASE p # 0
      <4>1. i = Pos(End(q[p])) - Pos(ti.seq)
        BY <2>2, <2>3, <2>6, <3>2, DiffPos
      <4>2. Stop(q[p]) \in Nat /\ Pos(End(q[p])) = Stop(q[p])
        BY <2>3, <2>6, <3>2
      <4> HIDE DEF i
      <4> QED BY <2>2, <3>2, <4>1, <4>2, SMT
    <3> QED BY <3>1, <3>2
  <2>8. CASE i > 0 /\ i >= Length(ti)
    <3>1. Insert(q, ti) = q
      BY <2>8 DEF Insert, i, p, K
    <3> QED BY <3>1
  <2>9. CASE ~(i > 0 /\ i >= Length(ti))
    <3> HIDE DEF i
    <3>1. /\ new \in Pieces /\ Stop(new) = Stop(ti) /\ Reach(new) = Reach(ti)
          /\ lo <= Pos(new.seq) /\ Pos(new.seq) \in Nat /\ Pos(new.seq) <= Stop(new)
          /\ p # 0 => Stop(q[p]) <= Pos(new.seq)
      <4>1. CASE i > 0
        <5>1. i \in Nat /\ i <= Len(ti.data)
          BY <2>2, <2>7, <2>9, <4>1, SMT
        <5>2. new = TrimFront(ti, i)
          BY <4>1
        <5>3. /\ new \in Pieces /\ Pos(new.seq) = Pos(ti.seq) + i /\ Stop(new) = Stop(ti)
              /\ new.fin = ti.fin
          BY <5>1, <5>2, FrontPiece
        <5>4. Reach(new) = Reach(ti)
          BY <5>3 DEF Reach
        <5>5. Pos(new.seq) \in Nat /\ Pos(new.seq) <= Stop(new)
          BY <5>3, PieceFacts
        <5> HIDE DEF new
        <5>6. lo <= Pos(new.seq) /\ (p # 0 => Stop(q[p]) <= Pos(new.seq))
          <6>1. p # 0 => Stop(q[p]) \in Nat
            BY <2>3, <2>6
          <6> QED BY <2>2, <2>7, <5>1, <5>3, <6>1, SMT
        <5> QED BY <5>3, <5>4, <5>5, <5>6
      <4>2. CASE ~(i > 0)
        <5>1. new = ti
          BY <4>2
        <5>2. p # 0 => Stop(q[p]) <= Pos(ti.seq)
          <6>1. p # 0 => Stop(q[p]) \in Nat
            BY <2>3, <2>6
          <6> QED BY <2>2, <2>7, <4>2, <6>1, SMT
        <5>3. Pos(ti.seq) <= Stop(ti)
          BY PieceFacts
        <5> QED BY <2>2, <5>1, <5>2, <5>3
      <4> QED BY <4>1, <4>2
    <3>2. Insert(q, ti) = (a \o one) \o u
      BY <2>9 DEF Insert, i, p, K
    <3> HIDE DEF new
    <3>3. Ordered(one, lo, hi, m) /\ Len(one) = 1 /\ one[1] = new
      BY <3>1, <1>4
    <3> HIDE DEF one
    <3>4. \A n \in 1 .. Len(one) : one[n] = new
      BY <3>3, SMT
    <3>5. /\ 1 \in Nat /\ 1 <= 1 /\ 1 <= p + 1 /\ p + 1 \in Nat /\ 1 <= p + 1
          /\ Len(q) <= Len(q) /\ p + 1 <= Len(q) + 1
      BY <2>1, <2>6, SMT
    <3>6. /\ Ordered(a, lo, hi, m) /\ Len(a) = (p + 1) - 1
          /\ \A n \in 1 .. (p + 1) - 1 : a[n] = q[(1 - 1) + n] /\ (1 - 1) + n \in 1 .. Len(q)
      BY <2>6, <3>5, <1>2, SMT
    <3>7. Ordered(b, lo, hi, m)
      BY <2>1, <2>6, <3>5, <1>2
    <3>8. lo <= Stop(new) /\ Stop(new) \in Nat
      BY <2>2, <3>1, SMT
    <3> HIDE DEF a, b
    <3>9. Ordered(u, lo, hi, m) /\ \A n \in 1 .. Len(u) : Stop(new) <= Pos(u[n].seq)
      BY <3>1, <3>7, <3>8, <1>5
    <3> HIDE DEF u
    <3>10. ASSUME NEW n \in 1 .. Len(a) PROVE Stop(a[n]) <= Pos(new.seq) /\ Stop(a[n]) \in Nat
      <4>1. n \in 1 .. p /\ a[n] = q[n] /\ n \in 1 .. Len(q) /\ p # 0 /\ (n < p \/ n = p)
        <5>1. Len(a) = p /\ \A l \in 1 .. p : l \in Int /\ (1 - 1) + l = l
          BY <2>6, <3>6, SMT
        <5>2. (p + 1) - 1 = p
          BY <2>6, SMT
        <5>3. n \in 1 .. p
          BY <5>1
        <5>4. p # 0 /\ (n < p \/ n = p)
          BY <2>6, <5>3, SMT
        <5> QED BY <3>6, <5>1, <5>2, <5>3, <5>4
      <4>2. CASE n = p
        BY <2>3, <3>1, <4>1, <4>2
      <4>3. CASE n < p
        <5>1. Stop(q[n]) <= Pos(q[p].seq)
          BY <2>6, <4>1, <4>3 DEF Ordered
        <5>2. /\ Stop(q[n]) \in Nat /\ Pos(q[p].seq) \in Nat /\ Len(q[p].data) \in Nat
              /\ Stop(q[p]) = Pos(q[p].seq) + Len(q[p].data)
          BY <2>3, <2>6, <4>1
        <5>3. Stop(q[n]) <= Pos(new.seq)
          <6>1. Stop(q[p]) <= Pos(new.seq) /\ Pos(new.seq) \in Nat
            BY <2>3, <3>1, <4>1
          <6> QED BY <5>1, <5>2, <6>1, SMT
        <5> QED BY <4>1, <5>2, <5>3
      <4> QED BY <4>1, <4>2, <4>3
    <3> DEFINE c == a \o one
    <3>11. Ordered(c, lo, hi, m) /\ MadeOf(c, a, one)
      <4>1. \A n \in 1 .. Len(a), l \in 1 .. Len(one) : Stop(a[n]) <= Pos(one[l].seq)
        BY <3>4, <3>10
      <4> QED BY <3>3, <3>6, <4>1, <1>3
    <3> HIDE DEF c
    <3>12. ASSUME NEW n \in 1 .. Len(c), NEW l \in 1 .. Len(u) PROVE Stop(c[n]) <= Pos(u[l].seq)
      <4>1. Pos(u[l].seq) \in Nat /\ Stop(new) <= Pos(u[l].seq)
        BY <3>9, OrderedFacts
      <4>2. CASE \E k \in 1 .. Len(one) : c[n] = one[k]
        BY <3>4, <4>1, <4>2
      <4>3. CASE \E k \in 1 .. Len(a) : c[n] = a[k]
        <5>1. Stop(c[n]) <= Pos(new.seq) /\ Stop(c[n]) \in Nat
          BY <3>10, <4>3
        <5> QED BY <3>1, <3>8, <4>1, <5>1, SMT
      <4> QED BY <3>11, <4>2, <4>3 DEF MadeOf
    <3>13. Ordered(c \o u, lo, hi, m)
      BY <3>9, <3>11, <3>12, <1>3
    <3> QED BY <3>2, <3>13 DEF c
  <2> QED BY <2>8, <2>9
(* tcp_reass presents the segments that follow one another from rcv_nxt,   *)
(* and leaves a gap before the others.                                     *)
<1>7. ASSUME NEW q, NEW x \in Numbers, NEW hi, NEW m, Ordered(q, Pos(x), hi, m)
      PROVE  /\ Presented(q, x) \in 0 .. Len(q)
             /\ Presented(q, x) # 0 => q[1].seq = x
             /\ \A k \in 2 .. Presented(q, x) : q[k].seq = End(q[k - 1])
             /\ \A k \in Presented(q, x) + 1 .. Len(q) :
                  (IF Presented(q, x) = 0 THEN Pos(x) ELSE Stop(q[Presented(q, x)])) < Pos(q[k].seq)
  <2> USE <1>7
  <2> DEFINE e(n) == IF n = 0 THEN x ELSE End(q[n])
             K == {n \in 0 .. Len(q) : n = Len(q) \/ q[n + 1].seq # e(n)}
             p == First(K)
  <2>0. Presented(q, x) = p
    BY DEF Presented
  <2>1. q \in Seq(Pieces) /\ Len(q) \in Nat
    BY OrderedFacts
  <2>2. /\ \A n \in 1 .. Len(q) :
             /\ q[n] \in Pieces /\ q[n].seq \in Numbers /\ Pos(q[n].seq) \in Nat
             /\ Stop(q[n]) = Pos(q[n].seq) + Len(q[n].data) /\ Len(q[n].data) \in Nat
             /\ Stop(q[n]) \in Nat /\ End(q[n]) \in Numbers /\ Pos(End(q[n])) = Stop(q[n])
             /\ Pos(x) <= Pos(q[n].seq)
    BY OrderedFacts
  <2>3. Pos(x) \in Nat
    BY NumberIsPlace
  <2> HIDE DEF Pos, Stop
  <2>4. K \subseteq Nat /\ Len(q) \in K
    BY <2>1, SMT
  <2>5. p \in K /\ \A n \in K : p <= n
    <3> HIDE DEF K
    <3> QED BY <2>4, <1>1
  <2> HIDE DEF p
  <2>6. p \in Nat /\ p <= Len(q) /\ p \in 0 .. Len(q) /\ (p # 0 => p \in 1 .. Len(q))
    BY <2>1, <2>5, SMT
  <2>7. ASSUME NEW n \in 0 .. Len(q), n < p PROVE q[n + 1].seq = e(n)
    <3>1. ~(p <= n)
      BY <2>6, <2>7, SMT
    <3> QED BY <2>5, <3>1
  <2>8. p # 0 => q[1].seq = x
    <3> SUFFICES ASSUME p # 0 PROVE q[1].seq = x
      OBVIOUS
    <3>1. 0 \in 0 .. Len(q) /\ 0 < p /\ 0 + 1 = 1
      BY <2>1, <2>6, SMT
    <3> QED BY <2>7, <3>1
  <2>9. ASSUME NEW k \in 2 .. p PROVE q[k].seq = End(q[k - 1])
    <3>1. k - 1 \in 0 .. Len(q) /\ k - 1 < p /\ (k - 1) + 1 = k /\ k - 1 # 0
      BY <2>1, <2>6, SMT
    <3>2. q[(k - 1) + 1].seq = e(k - 1)
      BY <2>7, <3>1
    <3> QED BY <3>1, <3>2
  <2> DEFINE here == IF p = 0 THEN Pos(x) ELSE Stop(q[p])
  <2>10. ASSUME NEW k \in p + 1 .. Len(q) PROVE here < Pos(q[k].seq)
    <3>1. /\ p + 1 \in 1 .. Len(q) /\ k \in 1 .. Len(q) /\ (k = p + 1 \/ p + 1 < k) /\ p # Len(q)
          /\ (p # 0 => p < p + 1)
      BY <2>1, <2>6, SMT
    <3>2. q[p + 1].seq # e(p)
      BY <2>5, <3>1
    <3>3. here \in Nat /\ e(p) \in Numbers /\ Pos(e(p)) = here
      <4>1. CASE p = 0
        BY <2>3, <4>1
      <4>2. CASE p # 0
        BY <2>2, <2>6, <4>2
      <4> QED BY <4>1, <4>2
    <3>4. Pos(q[p + 1].seq) # here
      BY <2>2, <3>1, <3>2, <3>3, SamePlace
    <3>5. here <= Pos(q[p + 1].seq)
      <4>1. CASE p = 0
        BY <2>2, <3>1, <4>1
      <4>2. CASE p # 0
        BY <2>6, <3>1, <4>2 DEF Ordered
      <4> QED BY <4>1, <4>2
    <3> HIDE DEF here
    <3>6. here < Pos(q[p + 1].seq)
      <4>1. Pos(q[p + 1].seq) \in Nat
        BY <2>2, <3>1
      <4> QED BY <3>3, <3>4, <3>5, <4>1, SMT
    <3>7. CASE k = p + 1
      BY <3>6, <3>7
    <3>8. CASE p + 1 < k
      <4>1. Stop(q[p + 1]) <= Pos(q[k].seq)
        BY <3>1, <3>8 DEF Ordered
      <4>2. /\ Pos(q[p + 1].seq) \in Nat /\ Len(q[p + 1].data) \in Nat /\ Pos(q[k].seq) \in Nat
            /\ Stop(q[p + 1]) = Pos(q[p + 1].seq) + Len(q[p + 1].data)
        BY <2>2, <3>1
      <4> QED BY <3>3, <3>6, <4>1, <4>2, SMT
    <3> QED BY <3>1, <3>7, <3>8
  <2> QED BY <2>0, <2>6, <2>8, <2>9, <2>10
(* Bytes appends the data of one segment after the other. *)
<1>8. ASSUME NEW q \in Seq(Pieces)
      PROVE  \E f \in [0 .. Len(q) -> Seq(1 .. Total)] :
               /\ f[0] = <<>> /\ Bytes(q) = f[Len(q)]
               /\ \A k \in 1 .. Len(q) : f[k] = f[k - 1] \o q[k].data
  <2> DEFINE n == Len(q)
             S == Seq(1 .. Total)
             F == [ks \in (1 .. n) \X S |-> ks[2] \o q[ks[1]].data]
             Is(f) == f = [k \in 0 .. n |-> IF k = 0 THEN <<>> ELSE f[k - 1] \o q[k].data]
             upto == CHOOSE f : Is(f)
  <2>1. Bytes(q) = upto[n]
    BY DEF Bytes
  <2>2. n \in Nat
    BY LenProperties
  <2>3. <<>> \in S
    BY EmptySeq
  <2>4. ASSUME NEW k \in 1 .. n, NEW s \in S PROVE s \o q[k].data \in S
    <3>1. q[k] \in Pieces
      BY ElementOfSeq
    <3>2. q[k].data \in Seq(1 .. Total)
      BY <3>1, PieceFacts
    <3> QED BY <3>2, ConcatProperties
  <2> HIDE DEF n, S
  <2>5. \A k \in 1 .. n : \A s \in S : F[<<k, s>>] = s \o q[k].data
    OBVIOUS
  <2> HIDE DEF F
  <2>6. \A k \in 1 .. n : \A s \in S : F[<<k, s>>] \in S
    BY <2>4, <2>5
  <2>7. PICK f \in [0 .. n -> S] : IsLoop(f, F, <<>>, n)
    BY <2>2, <2>3, <2>6, LoopExists
  <2>8. f[0] = <<>> /\ \A k \in 1 .. n : f[k] = F[<<k, f[k - 1]>>]
    BY <2>7 DEF IsLoop
  <2>9. \A k \in 0 .. n : k # 0 => k \in 1 .. n /\ k - 1 \in 0 .. n
    BY <2>2, SMT
  <2>10. Is(f)
    <3>1. ASSUME NEW k \in 0 .. n PROVE f[k] = IF k = 0 THEN <<>> ELSE f[k - 1] \o q[k].data
      <4>1. CASE k = 0
        BY <2>8, <4>1
      <4>2. CASE k # 0
        BY <2>5, <2>8, <2>9, <4>2
      <4> QED BY <4>1, <4>2
    <3> DEFINE g == [k \in 0 .. n |-> IF k = 0 THEN <<>> ELSE f[k - 1] \o q[k].data]
    <3>2. DOMAIN f = 0 .. n /\ DOMAIN g = 0 .. n /\ f = [k \in 0 .. n |-> f[k]]
      OBVIOUS
    <3>3. f = g
      BY <3>1, <3>2
    <3> QED BY <3>3
  <2>11. Is(upto)
    BY <2>10
  <2> HIDE DEF upto
  <2>12. upto[0] = <<>> /\ \A k \in 1 .. n : upto[k] = upto[k - 1] \o q[k].data
    <3>1. 0 \in 0 .. n /\ \A k \in 1 .. n : k \in 0 .. n /\ k # 0
      BY <2>2, SMT
    <3> QED BY <2>11, <3>1
  <2> DEFINE T == {k \in Nat : k <= n => upto[k] \in S}
  <2>13. 0 \in T
    BY <2>3, <2>12, SMT
  <2>14. ASSUME NEW k \in T PROVE k + 1 \in T
    <3> SUFFICES ASSUME k + 1 <= n PROVE upto[k + 1] \in S
      BY SMT
    <3>1. k + 1 \in 1 .. n /\ (k + 1) - 1 = k /\ k <= n
      BY <2>2, SMT
    <3>2. upto[k] \in S
      BY <3>1
    <3> QED BY <2>4, <2>12, <3>1, <3>2
  <2>15. T = Nat
    <3>1. T \subseteq Nat
      OBVIOUS
    <3> HIDE DEF T
    <3> QED BY <2>13, <2>14, <3>1, NatSetInduction
  <2>16. upto \in [0 .. n -> S]
    <3>1. \A k \in 0 .. n : k \in Nat /\ k <= n
      BY <2>2, SMT
    <3>2. \A k \in 0 .. n : upto[k] \in S
      BY <2>15, <3>1
    <3> QED BY <2>11, <3>2
  <2> QED BY <2>1, <2>12, <2>16 DEF n, S
(* The bytes of segments that follow one another are that stretch of the   *)
(* stream.                                                                 *)
<1>9. ASSUME NEW q, NEW lo, NEW hi, NEW m, Ordered(q, lo, hi, m), Len(q) # 0,
             \A k \in 2 .. Len(q) : q[k].seq = End(q[k - 1])
      PROVE  /\ Bytes(q) \in Seq(1 .. Total)
             /\ Len(Bytes(q)) = Stop(q[Len(q)]) - Pos(q[1].seq)
             /\ \A i \in 1 .. Len(Bytes(q)) : Bytes(q)[i] = Pos(q[1].seq) + i
  <2> USE <1>9
  <2> DEFINE n == Len(q)
             a == Pos(q[1].seq)
  <2>1. q \in Seq(Pieces) /\ n \in Nat /\ n # 0
    BY OrderedFacts
  <2>2. ASSUME NEW k \in 1 .. n
        PROVE  /\ Pos(q[k].seq) \in Nat /\ Len(q[k].data) \in Nat /\ q[k].data \in Seq(1 .. Total)
               /\ Stop(q[k]) = Pos(q[k].seq) + Len(q[k].data) /\ Stop(q[k]) \in Nat
               /\ Pos(End(q[k])) = Stop(q[k])
               /\ \A j \in 1 .. Len(q[k].data) : q[k].data[j] = Pos(q[k].seq) + j
    <3>1. q[k] \in Pieces
      BY <2>1, ElementOfSeq
    <3> QED BY <3>1, PieceFacts
  <2>3. PICK f \in [0 .. n -> Seq(1 .. Total)] :
             /\ f[0] = <<>> /\ Bytes(q) = f[n]
             /\ \A k \in 1 .. n : f[k] = f[k - 1] \o q[k].data
    BY <2>1, <1>8
  <2> DEFINE here(k) == IF k = 0 THEN a ELSE Stop(q[k])
             Good(k) == /\ Len(f[k]) = here(k) - a
                        /\ \A i \in 1 .. Len(f[k]) : f[k][i] = a + i
             T == {k \in Nat : k <= n => Good(k)}
  <2>4. 1 \in 1 .. n /\ a \in Nat
    <3>1. 1 \in 1 .. n
      BY <2>1, SMT
    <3> QED BY <2>2, <3>1
  <2>5. ASSUME NEW k \in 0 .. n PROVE f[k] \in Seq(1 .. Total) /\ Len(f[k]) \in Nat
    BY <2>3, LenProperties
  <2> HIDE DEF n, Pos, Stop
  <2>6. 0 \in T
    <3>1. Len(f[0]) = 0 /\ a - a = 0 /\ \A i \in 1 .. 0 : FALSE
      BY <2>3, <2>4, EmptySeq, SMT
    <3>2. Good(0)
      BY <3>1
    <3> QED BY <3>2
  <2>7. ASSUME NEW k \in T PROVE k + 1 \in T
    <3> SUFFICES ASSUME k + 1 <= n PROVE Good(k + 1)
      BY SMT
    <3> DEFINE l == k + 1
    <3>1. /\ l \in 1 .. n /\ l - 1 = k /\ k <= n /\ k \in Nat /\ l # 0
          /\ (k # 0 => l \in 2 .. n /\ k \in 1 .. n) /\ k \in 0 .. n /\ (k = 0 => l = 1)
      BY <2>1, SMT
    <3> HIDE DEF l
    <3>2. Good(k)
      BY <3>1
    <3>3. f[l] = f[k] \o q[l].data
      BY <2>3, <3>1
    <3>4. Pos(q[l].seq) = here(k)
      <4>1. CASE k = 0
        BY <3>1, <4>1
      <4>2. CASE k # 0
        BY <2>2, <3>1, <4>2 DEF n
      <4> QED BY <4>1, <4>2
    <3>5. here(l) = Stop(q[l]) /\ here(k) \in Nat
      <4>1. CASE k = 0
        BY <2>4, <3>1, <4>1
      <4>2. CASE k # 0
        BY <2>2, <3>1, <4>2
      <4> QED BY <4>1, <4>2
    <3> HIDE DEF here, a
    <3>6. /\ Len(f[l]) = Len(f[k]) + Len(q[l].data)
          /\ \A i \in 1 .. Len(f[k]) + Len(q[l].data) :
               f[l][i] = IF i <= Len(f[k]) THEN f[k][i] ELSE q[l].data[i - Len(f[k])]
      BY <2>2, <2>5, <3>1, <3>3, ConcatProperties, SMT
    <3>7. /\ Len(f[k]) \in Nat /\ Len(q[l].data) \in Nat /\ Len(f[k]) = here(k) - a
          /\ Stop(q[l]) = here(k) + Len(q[l].data)
      BY <2>2, <2>5, <3>1, <3>2, <3>4, ZenonT(30)
    <3>8. Len(f[l]) = here(l) - a
      BY <2>4, <3>5, <3>6, <3>7, SMT
    <3>9. ASSUME NEW i \in 1 .. Len(f[l]) PROVE f[l][i] = a + i
      <4>1. CASE i <= Len(f[k])
        <5>1. i \in 1 .. Len(f[k])
          BY <3>6, <3>7, <4>1, SMT
        <5> QED BY <3>2, <3>6, <4>1, <5>1
      <4>2. CASE ~(i <= Len(f[k]))
        <5> DEFINE j == i - Len(f[k])
        <5>5. i \in 1 .. Len(f[k]) + Len(q[l].data)
          BY <3>6
        <5>1. j \in 1 .. Len(q[l].data)
          BY <3>7, <4>2, <5>5, SMT
        <5>6. f[l][i] = q[l].data[j]
          BY <3>6, <4>2, <5>5
        <5> HIDE DEF j
        <5>7. q[l].data[j] = Pos(q[l].seq) + j
          BY <2>2, <3>1, <5>1
        <5>2. f[l][i] = here(k) + (i - Len(f[k]))
          BY <3>4, <5>6, <5>7 DEF j
        <5>3. i \in Int
          BY <3>6, <3>7, SMT
        <5>4. here(k) + (i - Len(f[k])) = a + i
          BY <2>4, <3>5, <3>7, <5>3, SMT
        <5> QED BY <5>2, <5>4
      <4> QED BY <4>1, <4>2
    <3>10. Good(l)
      BY <3>8, <3>9
    <3> QED BY <3>10 DEF l
  <2>8. T = Nat
    <3>1. T \subseteq Nat
      OBVIOUS
    <3> HIDE DEF T
    <3> QED BY <2>6, <2>7, <3>1, NatSetInduction
  <2>9. Good(n) /\ n \in 0 .. n
    <3>1. n \in Nat /\ n <= n /\ n \in 0 .. n
      BY <2>1, SMT
    <3> HIDE DEF Good
    <3> QED BY <2>8, <3>1
  <2>10. here(n) = Stop(q[n])
    BY <2>1
  <2> HIDE DEF here, a
  <2> QED BY <2>3, <2>5, <2>9, <2>10 DEF n, a
(* The next bytes of the stream at the end of so_rcv. *)
<1>10. ASSUME NEW r, NEW d, NEW m, Receiver(r, d, m), NEW s, NEW b, Gets(r, d, m, s, b)
       PROVE  Receiver(s, d, m) /\ Pos(r.nxt) <= Pos(s.nxt)
  <2> USE <1>10
  <2>1. /\ r \in RPs /\ d \in Seq(1 .. Total) /\ Len(d) \in Nat /\ m \in 0 .. Total + 1 /\ InOrder(r, d)
        /\ Marks(r.t_state, Pos(r.nxt), Pos(r.adv), Len(d), Len(r.sb), GotFin(r))
    BY ReceiverFacts
  <2>2. /\ r.t_state = "ESTABLISHED" /\ s \in RPs /\ s.t_state = "ESTABLISHED" /\ s.adv = r.adv
        /\ b \in Seq(1 .. Total) /\ s.sb = r.sb \o b
        /\ \A i \in 1 .. Len(b) : b[i] = Pos(r.nxt) + i
        /\ Pos(s.nxt) = Pos(r.nxt) + Len(b)
        /\ Pos(s.nxt) <= m /\ Pos(s.nxt) <= Total /\ Pos(s.nxt) <= Len(d) + RcvHiwat
        /\ Ordered(s.q, Pos(s.nxt) + 1, Len(d) + RcvHiwat, m)
    BY DEF Gets
  <2>3. /\ Pos(r.nxt) \in Nat /\ Pos(r.adv) \in Nat /\ r.sb \in Seq(1 .. Total) /\ Len(r.sb) \in Nat
        /\ Len(b) \in Nat /\ Pos(s.nxt) \in Nat
    BY <2>1, <2>2, RPFacts, LenProperties
  <2>4. GotFin(r) = 0 /\ GotFin(s) = 0
    BY <2>2 DEF GotFin
  <2>5. /\ Pos(r.nxt) = Len(d) + Len(r.sb) + 0 /\ Pos(r.adv) <= Len(d) + RcvHiwat + 0
    BY <2>1, <2>4 DEF Marks
  <2>6. Pos(r.nxt) = Len(d) + Len(r.sb)
    <3> HIDE DEF Pos
    <3> QED BY <2>1, <2>3, <2>5, SMT
  <2>7. \A i \in 1 .. Len(r.sb) : r.sb[i] = Len(d) + i
    BY <2>1 DEF InOrder
  <2>8. \A i \in 1 .. Len(b) : b[i] = (Len(d) + Len(r.sb)) + i
    BY <2>2, <2>6
  <2>9. Len(s.sb) = Len(r.sb) + Len(b) /\ \A i \in 1 .. Len(s.sb) : s.sb[i] = Len(d) + i
    <3>1. /\ Len(r.sb \o b) = Len(r.sb) + Len(b)
          /\ \A i \in 1 .. Len(r.sb \o b) : (r.sb \o b)[i] = Len(d) + i
      <4> DEFINE c == r.sb
                 k == Len(d)
      <4>1. c \in Seq(1 .. Total) /\ k \in Nat /\ b \in Seq(1 .. Total)
        BY <2>1, <2>2, <2>3
      <4>2. /\ \A i \in 1 .. Len(c) : c[i] = k + i
            /\ \A i \in 1 .. Len(b) : b[i] = (k + Len(c)) + i
        BY <2>7, <2>8
      <4> HIDE DEF c, k
      <4>3. Len(c \o b) = Len(c) + Len(b)
        BY <4>1, <4>2, StreamMore
      <4>4. \A i \in 1 .. Len(c \o b) : (c \o b)[i] = k + i
        BY <4>1, <4>2, StreamMore
      <4> QED BY <4>3, <4>4 DEF c, k
    <3> QED BY <2>2, <3>1
  <2>10. InOrder(s, d)
    BY <2>1, <2>9, ZenonT(30) DEF InOrder
  <2>11. /\ Pos(s.nxt) = Len(d) + Len(s.sb) + 0 /\ Len(d) + Len(s.sb) <= Total
         /\ Len(s.sb) <= RcvHiwat /\ Pos(r.nxt) <= Pos(s.nxt)
    <3> HIDE DEF Pos
    <3>1. Pos(s.nxt) = Len(d) + Len(s.sb) + 0
      BY <2>1, <2>2, <2>3, <2>6, <2>9, SMT
    <3> QED BY <2>1, <2>2, <2>3, <3>1, Sizes, SMTT(60)
  <2>12. Marks(s.t_state, Pos(s.nxt), Pos(s.adv), Len(d), Len(s.sb), GotFin(s))
    BY <2>2, <2>4, <2>5, <2>11 DEF Marks
  <2> QED BY <2>1, <2>2, <2>10, <2>11, <2>12 DEF Receiver
(* From bytes received to that. *)
<1>11. ASSUME NEW r, NEW d, NEW m, Receiver(r, d, m), NEW s, NEW b, Gets(r, d, m, s, b),
              NEW fin, fin => Pos(s.nxt) = Total /\ Total + 1 <= m
       PROVE  Taken(r, d, m, s, fin)
  BY <1>11, <1>10 DEF Taken, Gets
(* A FIN in a piece of the stream is after its last byte. *)
<1>12. ASSUME NEW g \in Pieces, NEW m, Reach(g) <= m, g.fin
       PROVE  Stop(g) = Total /\ Total + 1 <= m
  <2> USE <1>12
  <2>1. Stop(g) = Total
    BY PieceFacts
  <2> QED BY <2>1 DEF Reach
(* The next segment, when the queue is empty. *)
<1>13. ASSUME NEW r, NEW d, NEW m, Receiver(r, d, m), NEW g, Fitting(r, d, m, g), InSequence(r, g)
       PROVE  Taken(r, d, m, [r EXCEPT !.nxt = End(g), !.sb = @ \o g.data, !.delack = TRUE], g.fin)
  <2> USE <1>13
  <2> DEFINE s == [r EXCEPT !.nxt = End(g), !.sb = @ \o g.data, !.delack = TRUE]
  <2>1. /\ r.t_state = "ESTABLISHED" /\ g \in Pieces
        /\ Stop(g) <= Len(d) + RcvHiwat /\ Reach(g) <= m
        /\ g.seq = r.nxt /\ r.q = <<>>
    BY DEF Fitting, InSequence
  <2>2. /\ r \in RPs /\ m \in Nat /\ Ordered(r.q, Pos(r.nxt) + 1, Len(d) + RcvHiwat, m)
    BY ReceiverFacts
  <2>3. /\ g.data \in Seq(1 .. Total) /\ Pos(g.seq) \in Nat /\ Stop(g) = Pos(g.seq) + Len(g.data)
        /\ End(g) \in Numbers /\ Pos(End(g)) = Stop(g) /\ Stop(g) <= Total
        /\ \A j \in 1 .. Len(g.data) : g.data[j] = Pos(g.seq) + j
        /\ Stop(g) \in Nat /\ Reach(g) \in Nat /\ Reach(g) >= Stop(g)
    BY <2>1, PieceFacts
  <2>4. r.sb \in Seq(1 .. Total)
    BY <2>2, RPFacts
  <2>5. r.sb \o g.data \in Seq(1 .. Total)
    BY <2>3, <2>4, ConcatProperties
  <2>6. /\ s \in RPs /\ s.t_state = r.t_state /\ s.nxt = End(g) /\ s.sb = r.sb \o g.data
        /\ s.q = r.q /\ s.adv = r.adv
    BY <2>2, <2>3, <2>5, ZenonT(30) DEF RPs
  <2> HIDE DEF s
  <2>7. Stop(g) <= m
    <3> HIDE DEF Stop, Reach
    <3> QED BY <2>1, <2>2, <2>3, SMT
  <2>8. \A i \in 1 .. Len(r.q) : Pos(s.nxt) + 1 <= Pos(r.q[i].seq)
    <3>1. \A i \in 1 .. 0 : FALSE
      BY SMT
    <3>2. Len(r.q) = 0
      BY <2>1, EmptySeq
    <3> QED BY <3>1, <3>2
  <2>9. Ordered(s.q, Pos(s.nxt) + 1, Len(d) + RcvHiwat, m)
    BY <2>2, <2>6, <2>8, OrderedBeyond
  <2>10. Gets(r, d, m, s, g.data)
    BY <2>1, <2>3, <2>6, <2>7, <2>9 DEF Gets
  <2>11. g.fin => Pos(s.nxt) = Total /\ Total + 1 <= m
    BY <2>1, <2>3, <2>6, <1>12
  <2>12. Taken(r, d, m, s, g.fin)
    BY <2>10, <2>11, <1>11
  <2> QED BY <2>12 DEF s
(* tcp_reass presents nothing: the queue stays ahead. *)
<1>14. ASSUME NEW r, NEW d, NEW m, Receiver(r, d, m), r.t_state = "ESTABLISHED", NEW q,
              Ordered(q, Pos(r.nxt), Len(d) + RcvHiwat, m),
              q = r.q \/ Presented(q, r.nxt) = 0
       PROVE  Taken(r, d, m, [r EXCEPT !.q = q], FALSE)
  <2> USE <1>14
  <2> DEFINE s == [r EXCEPT !.q = q]
  <2>1. /\ r \in RPs /\ m \in Nat /\ Len(d) \in Nat /\ Pos(r.nxt) <= m
        /\ Ordered(r.q, Pos(r.nxt) + 1, Len(d) + RcvHiwat, m)
        /\ Marks(r.t_state, Pos(r.nxt), Pos(r.adv), Len(d), Len(r.sb), GotFin(r))
    BY ReceiverFacts
  <2>2. /\ r.nxt \in Numbers /\ Pos(r.nxt) \in Nat /\ r.sb \in Seq(1 .. Total) /\ Len(r.sb) \in Nat
        /\ GotFin(r) = 0
    BY <2>1, RPFacts DEF GotFin
  <2>3. q \in Seq(Pieces) /\ Len(q) \in Nat
        /\ \A n \in 1 .. Len(q) : Pos(q[n].seq) \in Nat
    BY OrderedFacts
  <2>4. /\ s \in RPs /\ s.t_state = r.t_state /\ s.nxt = r.nxt /\ s.sb = r.sb
        /\ s.q = q /\ s.adv = r.adv
    BY <2>1, <2>3 DEF RPs
  <2> HIDE DEF s
  <2>5. Ordered(q, Pos(r.nxt) + 1, Len(d) + RcvHiwat, m)
    <3>1. CASE q = r.q
      BY <2>1, <3>1
    <3>2. CASE Presented(q, r.nxt) = 0
      <4>1. \A k \in 0 + 1 .. Len(q) : Pos(r.nxt) < Pos(q[k].seq)
        BY <2>2, <3>2, <1>7
      <4>2. \A k \in 1 .. Len(q) : Pos(r.nxt) + 1 <= Pos(q[k].seq)
        <5> SUFFICES ASSUME NEW k \in 1 .. Len(q) PROVE Pos(r.nxt) + 1 <= Pos(q[k].seq)
          OBVIOUS
        <5>1. k \in 0 + 1 .. Len(q)
          BY <2>3, SMT
        <5>2. Pos(r.nxt) < Pos(q[k].seq) /\ Pos(q[k].seq) \in Nat
          BY <2>3, <4>1, <5>1
        <5> HIDE DEF Pos
        <5> QED BY <2>2, <5>2, SMT
      <4> QED BY <4>2, OrderedBeyond
    <3> QED BY <3>1, <3>2
  <2>6. /\ <<>> \in Seq(1 .. Total) /\ r.sb = r.sb \o <<>> /\ Len(<<>>) = 0
    BY <2>2, EmptySeq, ConcatEmptySeq
  <2>7. /\ Pos(r.nxt) = Pos(r.nxt) + 0 /\ \A i \in 1 .. 0 : <<>>[i] = Pos(r.nxt) + i
    <3>1. \A i \in 1 .. 0 : FALSE
      BY SMT
    <3>2. Pos(r.nxt) = Pos(r.nxt) + 0
      <4> HIDE DEF Pos
      <4> QED BY <2>2, SMT
    <3> QED BY <3>1, <3>2
  <2>8. Pos(r.nxt) <= Total /\ Pos(r.nxt) <= Len(d) + RcvHiwat
    <3>1. Pos(r.nxt) = Len(d) + Len(r.sb) + 0 /\ Len(d) + Len(r.sb) <= Total /\ Len(r.sb) <= RcvHiwat
      BY <2>1, <2>2 DEF Marks
    <3> HIDE DEF Pos
    <3> QED BY <2>1, <2>2, <3>1, Sizes, SMT
  <2>9. Gets(r, d, m, s, <<>>)
    BY <2>1, <2>4, <2>5, <2>6, <2>7, <2>8 DEF Gets
  <2>10. Taken(r, d, m, s, FALSE)
    BY <2>9, <1>11
  <2> QED BY <2>10 DEF s
(* tcp_reass presents the first n segments of the queue. *)
<1>15. ASSUME NEW r, NEW d, NEW m, Receiver(r, d, m), r.t_state = "ESTABLISHED", NEW q,
              Ordered(q, Pos(r.nxt), Len(d) + RcvHiwat, m),
              NEW n, n = Presented(q, r.nxt), n # 0
       PROVE  Taken(r, d, m, [r EXCEPT !.q = SubSeq(q, n + 1, Len(q)), !.nxt = End(q[n]),
                                       !.sb = @ \o Bytes(SubSeq(q, 1, n))], q[n].fin)
  <2> USE <1>15
  <2> DEFINE hi == Len(d) + RcvHiwat
             run == SubSeq(q, 1, n)
             rest == SubSeq(q, n + 1, Len(q))
             b == Bytes(run)
             s == [r EXCEPT !.q = rest, !.nxt = End(q[n]), !.sb = @ \o b]
  <2>1. r \in RPs /\ m \in Nat
    BY ReceiverFacts
  <2>2. r.nxt \in Numbers /\ Pos(r.nxt) \in Nat /\ r.sb \in Seq(1 .. Total)
    BY <2>1, RPFacts
  <2>3. /\ q \in Seq(Pieces) /\ Len(q) \in Nat
        /\ \A k \in 1 .. Len(q) :
             /\ q[k] \in Pieces /\ Pos(q[k].seq) \in Nat /\ Stop(q[k]) \in Nat
             /\ End(q[k]) \in Numbers /\ Pos(End(q[k])) = Stop(q[k])
             /\ Stop(q[k]) <= hi /\ Reach(q[k]) <= m
    BY OrderedFacts
  <2>4. /\ n \in 0 .. Len(q) /\ q[1].seq = r.nxt
        /\ \A k \in 2 .. n : q[k].seq = End(q[k - 1])
        /\ \A k \in n + 1 .. Len(q) : Stop(q[n]) < Pos(q[k].seq)
    BY <2>2, <1>7, ZenonT(30)
  <2>5. /\ n \in Nat /\ n + 1 \in Nat /\ 1 <= n + 1 /\ 1 \in Nat /\ 1 <= 1 /\ n <= Len(q)
        /\ Len(q) <= Len(q) /\ n + 1 <= Len(q) + 1
        /\ n \in 1 .. Len(q) /\ 1 \in 1 .. n /\ n \in 1 .. n /\ (n + 1) - 1 = n
        /\ \A i \in Nat : (1 - 1) + i = i
    BY <2>3, <2>4, SMT
  <2>6. /\ Ordered(run, Pos(r.nxt), hi, m) /\ Len(run) = n
        /\ \A i \in 1 .. n : run[i] = q[i]
    <3>1. /\ Ordered(run, Pos(r.nxt), hi, m) /\ Len(run) = (n + 1) - 1
          /\ \A i \in 1 .. (n + 1) - 1 : run[i] = q[(1 - 1) + i]
      <4> HIDE DEF hi
      <4> QED BY <2>5, <1>2, SMT DEF hi
    <3>2. \A i \in 1 .. n : i \in Nat
      BY <2>5, SMT
    <3> QED BY <2>5, <3>1, <3>2
  <2>7. /\ Ordered(rest, Pos(r.nxt), hi, m)
        /\ \A i \in 1 .. Len(rest) : rest[i] = q[n + i] /\ n + i \in n + 1 .. Len(q)
    <3>1. /\ Ordered(rest, Pos(r.nxt), hi, m) /\ Len(rest) = (Len(q) + 1) - (n + 1)
          /\ \A i \in 1 .. (Len(q) + 1) - (n + 1) : rest[i] = q[((n + 1) - 1) + i]
      <4> DEFINE a == n + 1
                 l == Len(q)
      <4>1. a \in Nat /\ l \in Nat /\ 1 <= a /\ l <= Len(q) /\ a <= l + 1
        BY <2>3, <2>5
      <4>3. Ordered(q, Pos(r.nxt), hi, m)
        OBVIOUS
      <4> HIDE DEF a, l, hi
      <4>2. /\ Ordered(SubSeq(q, a, l), Pos(r.nxt), hi, m)
            /\ Len(SubSeq(q, a, l)) = (l + 1) - a
            /\ \A i \in 1 .. (l + 1) - a : SubSeq(q, a, l)[i] = q[(a - 1) + i]
        <5> HIDE DEF Pos
        <5> QED BY <4>1, <4>3, <1>2, SMTT(20)
      <4> QED BY <4>2 DEF a, l
    <3>2. \A i \in 1 .. (Len(q) + 1) - (n + 1) :
            ((n + 1) - 1) + i = n + i /\ n + i \in n + 1 .. Len(q)
      <4> DEFINE l == Len(q)
      <4>1. n \in Nat /\ l \in Nat
        BY <2>3, <2>5
      <4> HIDE DEF l
      <4>2. \A i \in 1 .. (l + 1) - (n + 1) :
              ((n + 1) - 1) + i = n + i /\ n + i \in n + 1 .. l
        BY <4>1, SMT
      <4> QED BY <4>2 DEF l
    <3> QED BY <3>1, <3>2
  <2> HIDE DEF run, rest
  <2>8. \A k \in 2 .. Len(run) : run[k].seq = End(run[k - 1])
    <3>1. \A k \in 2 .. n : k \in 1 .. n /\ k - 1 \in 1 .. n
      BY <2>5, SMT
    <3> QED BY <2>4, <2>6, <3>1
  <2>9. /\ b \in Seq(1 .. Total) /\ Len(b) = Stop(q[n]) - Pos(r.nxt)
        /\ \A i \in 1 .. Len(b) : b[i] = Pos(r.nxt) + i
    <3>1. run[1].seq = r.nxt /\ run[n] = q[n]
      BY <2>4, <2>5, <2>6
    <3>2. Len(run) # 0
      BY <2>6
    <3>3. /\ Bytes(run) \in Seq(1 .. Total)
          /\ Len(Bytes(run)) = Stop(run[Len(run)]) - Pos(run[1].seq)
          /\ \A i \in 1 .. Len(Bytes(run)) : Bytes(run)[i] = Pos(run[1].seq) + i
      BY <2>6, <2>8, <3>2, <1>9
    <3> QED BY <2>6, <3>1, <3>3
  <2> HIDE DEF b
  <2>10. /\ q[n] \in Pieces /\ Stop(q[n]) \in Nat /\ End(q[n]) \in Numbers
         /\ Pos(End(q[n])) = Stop(q[n]) /\ Stop(q[n]) <= hi /\ Reach(q[n]) <= m
         /\ Stop(q[n]) <= Total /\ Reach(q[n]) \in Nat /\ Reach(q[n]) >= Stop(q[n])
    BY <2>3, <2>5, PieceFacts
  <2>11. Stop(q[n]) <= m /\ Len(b) \in Nat /\ Stop(q[n]) = Pos(r.nxt) + Len(b)
    <3>1. Len(b) \in Nat
      BY <2>9, LenProperties
    <3> HIDE DEF Stop, Reach, Pos
    <3> QED BY <2>1, <2>2, <2>9, <2>10, <3>1, SMT
  <2>12. rest \in Seq(Pieces)
    BY <2>7, OrderedFacts
  <2>13. r.sb \o b \in Seq(1 .. Total)
    BY <2>2, <2>9, ConcatProperties
  <2>14. /\ s \in RPs /\ s.t_state = r.t_state /\ s.nxt = End(q[n]) /\ s.sb = r.sb \o b
         /\ s.q = rest /\ s.adv = r.adv
    BY <2>1, <2>10, <2>12, <2>13, ZenonT(30) DEF RPs
  <2> HIDE DEF s
  <2>15. \A i \in 1 .. Len(rest) : Pos(s.nxt) + 1 <= Pos(rest[i].seq)
    <3> SUFFICES ASSUME NEW i \in 1 .. Len(rest) PROVE Stop(q[n]) + 1 <= Pos(rest[i].seq)
      BY <2>10, <2>14
    <3>1. rest[i] = q[n + i] /\ n + i \in n + 1 .. Len(q)
      BY <2>7
    <3>2. n + i \in 1 .. Len(q)
      BY <2>3, <2>5, <3>1, SMT
    <3>3. Pos(rest[i].seq) \in Nat /\ Stop(q[n]) < Pos(rest[i].seq)
      BY <2>3, <2>4, <3>1, <3>2
    <3> HIDE DEF Pos, Stop
    <3> QED BY <2>10, <3>3, SMT
  <2>16. Ordered(s.q, Pos(s.nxt) + 1, hi, m)
    BY <2>7, <2>14, <2>15, OrderedBeyond
  <2>17. Gets(r, d, m, s, b)
    BY <2>9, <2>10, <2>11, <2>14, <2>16 DEF Gets
  <2>18. q[n].fin => Pos(s.nxt) = Total /\ Total + 1 <= m
    BY <2>10, <2>14, <1>12
  <2>19. Taken(r, d, m, s, q[n].fin)
    BY <2>17, <2>18, <1>11
  <2> QED BY <2>19 DEF s, b, rest, run
<1> QED
  <2> TAKE r, d, m, g
  <2> HAVE Receiver(r, d, m) /\ Fitting(r, d, m, g)
  <2>1. CASE InSequence(r, g)
    BY <2>1, <1>13 DEF TCP_REASS
  <2>2. CASE ~InSequence(r, g)
    <3> DEFINE q == Insert(r.q, g)
               n == IF q = r.q THEN 0 ELSE Presented(q, r.nxt)
               hi == Len(d) + RcvHiwat
    <3>1. /\ r.t_state = "ESTABLISHED" /\ g \in Pieces /\ Pos(r.nxt) <= Pos(g.seq)
          /\ Stop(g) <= hi /\ Reach(g) <= m
      BY DEF Fitting
    <3>2. r \in RPs /\ m \in Nat /\ Len(d) \in Nat /\ Ordered(r.q, Pos(r.nxt) + 1, hi, m)
      BY ReceiverFacts
    <3>3. Pos(r.nxt) \in Nat
      BY <3>2, RPFacts
    <3>4. hi \in Nat /\ Pos(r.nxt) + 1 \in Nat /\ Pos(r.nxt) <= Pos(r.nxt) + 1 /\ hi <= hi /\ m <= m
      <4> HIDE DEF Pos
      <4> QED BY <3>2, <3>3, Sizes, SMT
    <3> HIDE DEF hi
    <3>5. Ordered(r.q, Pos(r.nxt), hi, m)
      <4> HIDE DEF Pos
      <4> QED BY <3>2, <3>3, <3>4, OrderedWider
    <3>6. Ordered(q, Pos(r.nxt), hi, m)
      BY <3>1, <3>2, <3>3, <3>4, <3>5, <1>6
    <3> HIDE DEF q
    <3>7. CASE n = 0
      <4>1. q = r.q \/ Presented(q, r.nxt) = 0
        BY <3>7
      <4>2. Taken(r, d, m, [r EXCEPT !.q = q], FALSE)
        BY <3>1, <3>6, <4>1, <1>14 DEF hi
      <4> QED BY <2>2, <3>7, <4>2 DEF TCP_REASS, Reass, q
    <3>8. CASE n # 0
      <4>1. n = Presented(q, r.nxt)
        BY <3>8
      <4> HIDE DEF n
      <4>2. Taken(r, d, m, [r EXCEPT !.q = SubSeq(q, n + 1, Len(q)), !.nxt = End(q[n]),
                                     !.sb = @ \o Bytes(SubSeq(q, 1, n))], q[n].fin)
        BY <3>1, <3>6, <3>8, <4>1, <1>15 DEF hi
      <4>3. r.t_state # "CLOSE_WAIT"
        BY <3>1
      <4> QED BY <2>2, <3>8, <4>2, <4>3 DEF TCP_REASS, Reass, q, n
    <3> QED BY <3>7, <3>8
  <2> QED BY <2>1, <2>2
=============================================================================

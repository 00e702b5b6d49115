---------------------------- MODULE TsleepProofs ----------------------------
(***************************************************************************)
(* Proofs about modules Callout and Tsleep, for any set of processes,      *)
(* sleeps, signals and timeouts, and timeout queues of every length.       *)
(*                                                                         *)
(* The first part is about the routines of kern_clock.c: Timeout,          *)
(* Untimeout, Ticked and the Tail of softclock each do to the set of       *)
(* deadlines (Left) what its caller expects, and keep the queue proper.    *)
(* The sum that timeout forms on its walk is a recursive function, so this *)
(* part begins with induction over its length.                             *)
(*                                                                         *)
(* The second part is about tsleep.  IInv is the inductive invariant: it   *)
(* says where a process can be in each p_stat, why one that left its queue *)
(* did so, and that every pending endtsleep belongs to the sleep its       *)
(* process is in, with the time it has left.  From it follow the three     *)
(* safety invariants, the action property about what tsleep returns, and   *)
(* that the queue of kern_clock.c implements module Deadlines.             *)
(***************************************************************************)
EXTENDS Tsleep, WellFoundedInduction, TLAPS

\* Steps are proved by Zenon unless they name another prover.
USE Zenon

-----------------------------------------------------------------------------
(* The facts about sequences that the proofs cite.                         *)

(* A sequence is a function on 1 .. Len. *)
LEMMA LenProperties ==
  ASSUME NEW S, NEW s \in Seq(S)
  PROVE  Len(s) \in Nat /\ s \in [1 .. Len(s) -> S] /\ DOMAIN s = 1 .. Len(s)
BY SMT

(* A function on 1 .. n is a sequence. *)
LEMMA FunctionIsSeq ==
  ASSUME NEW S, NEW n \in Nat, NEW f \in [1 .. n -> S]
  PROVE  f \in Seq(S) /\ DOMAIN f = 1 .. n
BY SMT

(* Its elements. *)
LEMMA ElementOfSeq ==
  ASSUME NEW S, NEW s \in Seq(S), NEW i \in 1 .. Len(s)
  PROVE  s[i] \in S
BY SMT

(* The empty sequence is the one of length 0. *)
LEMMA EmptySeq ==
  ASSUME NEW S
  PROVE  /\ <<>> \in Seq(S) /\ Len(<<>>) = 0
         /\ \A s \in Seq(S) : s # <<>> => Len(s) \in Nat \ {0}
BY SMT

(* Two sequences in one. *)
LEMMA ConcatProperties ==
  ASSUME NEW S, NEW s \in Seq(S), NEW t \in Seq(S)
  PROVE  /\ s \o t \in Seq(S) /\ Len(s \o t) = Len(s) + Len(t)
         /\ \A i \in 1 .. Len(s) + Len(t) :
              (s \o t)[i] = IF i <= Len(s) THEN s[i] ELSE t[i - Len(s)]
BY SMT

(* A part of a sequence. *)
LEMMA SubSeqProperties ==
  ASSUME NEW S, NEW s, NEW m \in Int, NEW n \in Int, \A i \in m .. n : s[i] \in S
  PROVE  /\ SubSeq(s, m, n) \in Seq(S)
         /\ Len(SubSeq(s, m, n)) = IF m <= n THEN n - m + 1 ELSE 0
         /\ \A i \in 1 .. n - m + 1 : SubSeq(s, m, n)[i] = s[m + i - 1]
BY SMT

(* All but the first element. *)
LEMMA TailProperties ==
  ASSUME NEW S, NEW s \in Seq(S), s # <<>>
  PROVE  /\ Tail(s) \in Seq(S) /\ Len(Tail(s)) = Len(s) - 1
         /\ \A i \in 1 .. Len(Tail(s)) : Tail(s)[i] = s[i + 1]
BY SMT

-----------------------------------------------------------------------------
(* The timeout queue.                                                      *)

(* A nonempty set of natural numbers has a least element. *)
LEMMA LeastNatural ==
  ASSUME NEW T, T \subseteq Nat, T # {}
  PROVE  \E x \in T : \A y \in T : x <= y
<1> DEFINE R == OpToRel(<, Nat)
<1>1. IsWellFoundedOn(R, Nat)
  BY NatLessThanWellFounded
<1>2. \E x \in T : \A y \in T : <<y, x>> \notin R
  <2> HIDE DEF R
  <2> QED BY <1>1, WFMin
<1>3. \A x, y \in Nat : <<y, x>> \notin R => x <= y
  BY SMT DEF OpToRel
<1> HIDE DEF R
<1> QED BY <1>2, <1>3

(* The walks of the list stop at the first place they look for. *)
LEMMA FirstIsLeast ==
  ASSUME NEW T, T \subseteq Nat, T # {}
  PROVE  First(T) \in T /\ \A m \in T : First(T) <= m
BY LeastNatural DEF First

(* Induction over the natural numbers, for sets. *)
LEMMA NatSetInduction ==
  ASSUME NEW T, T \subseteq Nat, 0 \in T, \A n \in T : n + 1 \in T
  PROVE  T = Nat
<1> SUFFICES ASSUME Nat \ T # {} PROVE FALSE
  OBVIOUS
<1>1. PICK x \in Nat \ T : \A y \in Nat \ T : x <= y
  BY LeastNatural
<1>2. x - 1 \in T
  BY <1>1, SMT
<1>3. (x - 1) + 1 \in T
  BY <1>2
<1> QED BY <1>1, <1>3, SMT

-----------------------------------------------------------------------------
(* The sum that timeout takes off on its walk. *)

Wait(q, i) == IF q[i].c_time > 0 THEN q[i].c_time ELSE 0

IsSum(q, n, f) ==
  f = [i \in 0 .. n |-> IF i = 0 THEN 0
                        ELSE f[i - 1] + IF q[i].c_time > 0 THEN q[i].c_time ELSE 0]

(* The recursive function in Lead exists for every stretch of the queue. *)
LEMMA SumExists ==
  ASSUME NEW q \in Seq(Entries)
  PROVE  \A n \in 0 .. Len(q) : \E f \in [0 .. n -> Nat] : IsSum(q, n, f)
<1> DEFINE P(n) == \E f \in [0 .. n -> Nat] : IsSum(q, n, f)
           T == {n \in Nat : n <= Len(q) => P(n)}
<1>1. 0 \in T
  <2> DEFINE f == [i \in 0 .. 0 |-> 0]
  <2>1. f \in [0 .. 0 -> Nat]
    OBVIOUS
  <2>2. IsSum(q, 0, f)
    BY SMT DEF IsSum
  <2> QED BY <2>1, <2>2
<1>2. ASSUME NEW n \in T PROVE n + 1 \in T
  <2> SUFFICES ASSUME n + 1 <= Len(q) PROVE P(n + 1)
    BY SMTT(30)
  <2>1. PICK f \in [0 .. n -> Nat] : IsSum(q, n, f)
    BY LenProperties, SMT
  <2> DEFINE c == IF q[n + 1].c_time > 0 THEN q[n + 1].c_time ELSE 0
  <2> DEFINE g == [i \in 0 .. n + 1 |-> IF i = n + 1 THEN f[n] + c ELSE f[i]]
  <2>2. n \in Nat /\ c \in Nat
    <3>1. q[n + 1] \in Entries
      BY LenProperties, ElementOfSeq, SMT
    <3> QED BY <3>1, SMT DEF Entries
  <2>3. g \in [0 .. n + 1 -> Nat]
    BY <2>2, SMT
  <2>4. ASSUME NEW i \in 0 .. n + 1
        PROVE g[i] = IF i = 0 THEN 0 ELSE g[i - 1] + IF q[i].c_time > 0 THEN q[i].c_time ELSE 0
    <3>1. \A j \in 0 .. n : f[j] = IF j = 0 THEN 0
                                  ELSE f[j - 1] + IF q[j].c_time > 0 THEN q[j].c_time ELSE 0
      BY <2>1 DEF IsSum
    <3>2. CASE i = n + 1
      <4>1. i # 0 /\ i - 1 \in 0 .. n + 1 /\ i - 1 # n + 1 /\ i - 1 = n
        BY <2>2, <3>2, SMT
      <4>2. g[i] = f[n] + c /\ g[i - 1] = f[n]
        BY <3>2, <4>1
      <4> HIDE DEF g
      <4> QED BY <3>2, <4>1, <4>2
    <3>3. CASE i # n + 1
      <4>1. i \in 0 .. n /\ (i # 0 => i - 1 \in 0 .. n + 1 /\ i - 1 # n + 1)
        BY <2>2, <3>3, SMT
      <4>2. g[i] = f[i] /\ (i # 0 => g[i - 1] = f[i - 1])
        BY <3>3, <4>1
      <4> HIDE DEF g
      <4> QED BY <3>1, <4>1, <4>2
    <3> QED BY <3>2, <3>3
  <2>5. IsSum(q, n + 1, g)
    BY <2>3, <2>4 DEF IsSum
  <2> QED BY <2>2, <2>3, <2>5
<1> HIDE DEF P
<1>3. T = Nat
  <2> HIDE DEF T
  <2>1. T \subseteq Nat
    BY DEF T
  <2> QED BY <1>1, <1>2, <2>1, NatSetInduction
<1>4. \A n \in 0 .. Len(q) : P(n)
  BY <1>3, LenProperties, SMT
<1> QED BY <1>4 DEF P

(* Two such functions agree where both are defined. *)
LEMMA SumUnique ==
  ASSUME NEW q, NEW m \in Nat, NEW n \in Nat, NEW f, NEW g,
         IsSum(q, m, f), IsSum(q, n, g), NEW i \in Nat, i <= m, i <= n
  PROVE  f[i] = g[i]
<1> DEFINE T == {k \in Nat : k <= m /\ k <= n => f[k] = g[k]}
<1>1. 0 \in T
  BY SMT DEF IsSum
<1>2. ASSUME NEW k \in T PROVE k + 1 \in T
  <2> SUFFICES ASSUME k + 1 <= m, k + 1 <= n PROVE f[k + 1] = g[k + 1]
    BY SMT
  <2>1. f[k] = g[k] /\ k + 1 \in 0 .. m /\ k + 1 \in 0 .. n /\ k + 1 # 0 /\ (k + 1) - 1 = k
    BY SMT
  <2>2. f[k + 1] = f[k] + IF q[k + 1].c_time > 0 THEN q[k + 1].c_time ELSE 0
    BY <2>1 DEF IsSum
  <2>3. g[k + 1] = g[k] + IF q[k + 1].c_time > 0 THEN q[k + 1].c_time ELSE 0
    BY <2>1 DEF IsSum
  <2> QED BY <2>1, <2>2, <2>3
<1>3. T = Nat
  <2>1. T \subseteq Nat
    OBVIOUS
  <2> HIDE DEF T
  <2> QED BY <1>1, <1>2, <2>1, NatSetInduction
<1> QED BY <1>3

(* So the one Lead chooses is that function. *)
LEMMA LeadIsSum ==
  ASSUME NEW q \in Seq(Entries), NEW n \in 0 .. Len(q)
  PROVE  \E f \in [0 .. n -> Nat] : IsSum(q, n, f) /\ Lead(q, n) = f[n]
<1>1. PICK f \in [0 .. n -> Nat] : IsSum(q, n, f)
  BY SumExists
<1> DEFINE h == CHOOSE g : IsSum(q, n, g)
<1>2. IsSum(q, n, h)
  BY <1>1
<1>3. Lead(q, n) = h[n]
  BY DEF Lead, IsSum
<1>4. n \in Nat
  BY LenProperties, SMT
<1>5. h[n] = f[n]
  <2> HIDE DEF h
  <2> QED BY <1>1, <1>2, <1>4, SumUnique, SMT
<1> QED BY <1>1, <1>3, <1>5

(* Lead adds up the positive differences. *)
LEMMA LeadStep ==
  ASSUME NEW q \in Seq(Entries)
  PROVE  /\ Lead(q, 0) = 0
         /\ \A n \in 0 .. Len(q) : Lead(q, n) \in Nat
         /\ \A n \in 1 .. Len(q) : Lead(q, n) = Lead(q, n - 1) + Wait(q, n)
<1>1. Len(q) \in Nat
  BY LenProperties
<1>2. Lead(q, 0) = 0
  <2>1. PICK f \in [0 .. 0 -> Nat] : IsSum(q, 0, f) /\ Lead(q, 0) = f[0]
    BY <1>1, LeadIsSum, SMT
  <2> QED BY <2>1, SMT DEF IsSum
<1>3. ASSUME NEW n \in 0 .. Len(q) PROVE Lead(q, n) \in Nat
  BY <1>1, LeadIsSum, SMT
<1>4. ASSUME NEW n \in 1 .. Len(q) PROVE Lead(q, n) = Lead(q, n - 1) + Wait(q, n)
  <2>1. n \in 0 .. Len(q) /\ n - 1 \in 0 .. Len(q) /\ n \in Nat /\ n - 1 \in Nat
    BY <1>1, SMT
  <2>2. PICK f \in [0 .. n -> Nat] : IsSum(q, n, f) /\ Lead(q, n) = f[n]
    BY <2>1, LeadIsSum
  <2>3. PICK g \in [0 .. n - 1 -> Nat] : IsSum(q, n - 1, g) /\ Lead(q, n - 1) = g[n - 1]
    BY <2>1, LeadIsSum
  <2>4. f[n - 1] = g[n - 1]
    <3> DEFINE m == n - 1
    <3>1. m \in Nat /\ n \in Nat /\ IsSum(q, n, f) /\ IsSum(q, m, g)
      BY <2>1, <2>2, <2>3
    <3>2. m <= n /\ m <= m
      BY <2>1, SMT
    <3> HIDE DEF m
    <3>3. f[m] = g[m]
      BY <3>1, <3>2, SumUnique, SMT
    <3> QED BY <3>3 DEF m
  <2>5. f[n] = f[n - 1] + IF q[n].c_time > 0 THEN q[n].c_time ELSE 0
    BY <2>1, <2>2, SMT DEF IsSum
  <2> QED BY <2>2, <2>3, <2>4, <2>5 DEF Wait
<1> QED BY <1>2, <1>3, <1>4

Span(q, a, k) == Lead(q, a + k) - Lead(q, a)

(* The sum over a stretch of the queue grows by the next difference. *)
LEMMA SpanStep ==
  ASSUME NEW q \in Seq(Entries), NEW a \in Nat, NEW k \in Nat, a + (k + 1) <= Len(q)
  PROVE  /\ Span(q, a, k) \in Int
         /\ Wait(q, a + (k + 1)) \in Nat
         /\ Span(q, a, k + 1) = Span(q, a, k) + Wait(q, a + (k + 1))
<1>1. /\ a + (k + 1) \in 1 .. Len(q) /\ (a + (k + 1)) - 1 = a + k
      /\ a \in 0 .. Len(q) /\ a + k \in 0 .. Len(q)
  BY LenProperties, SMT
<1>2. q[a + (k + 1)] \in Entries
  BY <1>1, ElementOfSeq
<1>3. Wait(q, a + (k + 1)) \in Nat
  BY <1>2, SMT DEF Wait, Entries
<1>4. Lead(q, a + (k + 1)) = Lead(q, a + k) + Wait(q, a + (k + 1))
  BY <1>1, LeadStep
<1>5. Lead(q, a) \in Nat /\ Lead(q, a + k) \in Nat
  BY <1>1, LeadStep
<1> QED BY <1>3, <1>4, <1>5, SMT DEF Span

SameWaits(q, a, r, b, m) == \A k \in 1 .. m : Wait(q, a + k) = Wait(r, b + k)

(* Two stretches with the same differences have the same sum. *)
LEMMA LeadAligned ==
  ASSUME NEW q \in Seq(Entries), NEW r \in Seq(Entries), NEW a \in Nat, NEW b \in Nat,
         NEW m \in Nat, a + m <= Len(q), b + m <= Len(r),
         SameWaits(q, a, r, b, m)
  PROVE  Span(q, a, m) = Span(r, b, m)
<1> DEFINE T == {k \in Nat : k <= m => Span(q, a, k) = Span(r, b, k)}
<1>1. Len(q) \in Nat /\ Len(r) \in Nat
  BY LenProperties
<1>2. 0 \in T
  <2>1. Lead(q, a) \in Nat /\ Lead(r, b) \in Nat /\ a + 0 = a /\ b + 0 = b
    BY <1>1, LeadStep, SMT
  <2> QED BY <2>1, SMT DEF Span
<1>3. ASSUME NEW k \in T PROVE k + 1 \in T
  <2> SUFFICES ASSUME k + 1 <= m PROVE Span(q, a, k + 1) = Span(r, b, k + 1)
    BY SMT
  <2>1. k \in Nat /\ k + 1 \in 1 .. m /\ Span(q, a, k) = Span(r, b, k)
    BY SMT
  <2>2. a + (k + 1) <= Len(q) /\ b + (k + 1) <= Len(r)
    BY <1>1, <2>1, SMT
  <2>3. Wait(q, a + (k + 1)) = Wait(r, b + (k + 1))
    BY <2>1 DEF SameWaits
  <2>4. Span(q, a, k + 1) = Span(q, a, k) + Wait(q, a + (k + 1))
    BY <2>1, <2>2, SpanStep
  <2>5. Span(r, b, k + 1) = Span(r, b, k) + Wait(r, b + (k + 1))
    BY <2>1, <2>2, SpanStep
  <2> QED BY <2>1, <2>3, <2>4, <2>5
<1>4. T = Nat
  <2>1. T \subseteq Nat
    OBVIOUS
  <2> HIDE DEF T
  <2> QED BY <1>2, <1>3, <2>1, NatSetInduction
<1>5. m \in T
  BY <1>4
<1> QED BY <1>5, SMT

(* Entries that are due add nothing. *)
LEMMA LeadOfDue ==
  ASSUME NEW q \in Seq(Entries), NEW n \in 0 .. Len(q), \A k \in 1 .. n : q[k].c_time <= 0
  PROVE  Lead(q, n) = 0
<1> DEFINE T == {k \in Nat : k <= n => Lead(q, k) = 0}
<1>1. Len(q) \in Nat
  BY LenProperties
<1>2. 0 \in T
  BY LeadStep
<1>3. ASSUME NEW k \in T PROVE k + 1 \in T
  <2> SUFFICES ASSUME k + 1 <= n PROVE Lead(q, k + 1) = 0
    BY SMT
  <2>1. k + 1 \in 1 .. Len(q) /\ k + 1 \in 1 .. n /\ (k + 1) - 1 = k /\ Lead(q, k) = 0
    BY <1>1, SMT
  <2>2. q[k + 1] \in Entries
    BY <2>1, ElementOfSeq
  <2>3. Wait(q, k + 1) = 0
    BY <2>1, <2>2, SMT DEF Wait, Entries
  <2> QED BY <2>1, <2>3, LeadStep, SMT
<1>4. T = Nat
  <2>1. T \subseteq Nat
    OBVIOUS
  <2> HIDE DEF T
  <2> QED BY <1>2, <1>3, <2>1, NatSetInduction
<1> QED BY <1>1, <1>4, SMT

(* The sum never shrinks on the way down the queue. *)
LEMMA LeadGrows ==
  ASSUME NEW q \in Seq(Entries), NEW m \in 0 .. Len(q), NEW n \in m .. Len(q)
  PROVE  Lead(q, m) <= Lead(q, n)
<1> DEFINE T == {k \in Nat : m + k <= Len(q) => Lead(q, m) <= Lead(q, m + k)}
<1>1. Len(q) \in Nat /\ Lead(q, m) \in Nat
  BY LenProperties, LeadStep
<1>2. 0 \in T
  <2>1. m + 0 = m
    BY <1>1, SMT
  <2> QED BY <1>1, <2>1, SMT
<1>3. ASSUME NEW k \in T PROVE k + 1 \in T
  <2> SUFFICES ASSUME m + (k + 1) <= Len(q) PROVE Lead(q, m) <= Lead(q, m + (k + 1))
    BY SMT
  <2>1. /\ m + (k + 1) \in 1 .. Len(q) /\ (m + (k + 1)) - 1 = m + k
        /\ m + k \in 0 .. Len(q) /\ Lead(q, m) <= Lead(q, m + k)
    BY <1>1, SMT
  <2>2. q[m + (k + 1)] \in Entries
    BY <2>1, ElementOfSeq
  <2>3. Wait(q, m + (k + 1)) \in Nat
    BY <2>2, SMT DEF Wait, Entries
  <2>4. Lead(q, m + (k + 1)) = Lead(q, m + k) + Wait(q, m + (k + 1)) /\ Lead(q, m + k) \in Nat
    BY <2>1, LeadStep
  <2> QED BY <1>1, <2>1, <2>3, <2>4, SMT
<1>4. T = Nat
  <2>1. T \subseteq Nat
    OBVIOUS
  <2> HIDE DEF T
  <2> QED BY <1>2, <1>3, <2>1, NatSetInduction
<1>5. n - m \in Nat /\ m + (n - m) = n
  BY <1>1, SMT
<1>6. n - m \in T
  BY <1>4, <1>5
<1> QED BY <1>1, <1>5, <1>6, SMT

-----------------------------------------------------------------------------
(* The timeout queue.  Left is the set of deadlines it stands for.  In a   *)
(* proper queue no call has two entries and the entries that are due come  *)
(* first, the one longest overdue at the head.                             *)

Left(q) == {[call |-> q[i].c_arg, ticks |-> Remaining(q, i)] : i \in DOMAIN q}

AllDue(q, i) == \A k \in 1 .. i : q[k].c_time <= 0

Proper(q) ==
  /\ q \in Seq(Entries)
  /\ \A i, j \in 1 .. Len(q) : q[i].c_arg = q[j].c_arg => i = j
  /\ \A j \in 1 .. Len(q) : q[j].c_time < 0 => AllDue(q, j)
  /\ \A i, j \in 1 .. Len(q) : i <= j /\ AllDue(q, j) => q[i].c_time <= q[j].c_time

(* What a member of the queue is. *)
LEMMA EntryType ==
  ASSUME NEW q \in Seq(Entries)
  PROVE  /\ Len(q) \in Nat
         /\ DOMAIN q = 1 .. Len(q)
         /\ \A i \in 1 .. Len(q) : q[i].c_arg \in Procs /\ q[i].c_time \in Int
         /\ \A i \in 1 .. Len(q) : q[i] = [c_arg |-> q[i].c_arg, c_time |-> q[i].c_time]
<1>1. Len(q) \in Nat /\ DOMAIN q = 1 .. Len(q)
  BY LenProperties
<1>2. ASSUME NEW i \in 1 .. Len(q) PROVE q[i] \in Entries
  BY ElementOfSeq
<1> QED BY <1>1, <1>2 DEF Entries

(* The ticks left are the entry's own while everything before it is due,   *)
(* and the sum of the differences from then on.                            *)
LEMMA RemainingCases ==
  ASSUME NEW q \in Seq(Entries), NEW i \in 1 .. Len(q)
  PROVE  /\ AllDue(q, i) => Remaining(q, i) = q[i].c_time
         /\ ~AllDue(q, i) => Remaining(q, i) = Lead(q, i)
         /\ Remaining(q, i) \in Int
<1>1. \A k \in 1 .. i : q[k].c_time \in Int
  BY EntryType, SMT
<1>2. Lead(q, i) \in Nat
  BY EntryType, LeadStep, SMT
<1> QED BY <1>1, <1>2, EntryType, SMT DEF Remaining, AllDue

(* A positive difference in front makes the sum positive. *)
LEMMA LeadPositive ==
  ASSUME NEW q \in Seq(Entries), NEW i \in 1 .. Len(q), ~AllDue(q, i)
  PROVE  Lead(q, i) > 0
<1>1. PICK k \in 1 .. i : q[k].c_time > 0
  BY EntryType, SMT DEF AllDue
<1>2. k \in 1 .. Len(q) /\ k - 1 \in 0 .. Len(q) /\ k \in 0 .. Len(q) /\ i \in k .. Len(q) /\ i \in 0 .. Len(q)
  BY EntryType, SMT
<1>3. Lead(q, k) = Lead(q, k - 1) + q[k].c_time /\ Lead(q, k - 1) \in Nat
  BY <1>1, <1>2, LeadStep DEF Wait
<1>4. Lead(q, k) <= Lead(q, i) /\ Lead(q, i) \in Nat
  BY <1>2, LeadGrows, LeadStep
<1>5. q[k].c_time \in Int
  BY <1>2, EntryType
<1> QED BY <1>1, <1>3, <1>4, <1>5, SMT

(* The first entry of a proper queue has the least time left. *)
LEMMA HeadIsLeast ==
  ASSUME NEW q, Proper(q), NEW i \in 1 .. Len(q), q[1].c_time <= 0
  PROVE  q[1].c_time <= Remaining(q, i) /\ Remaining(q, 1) = q[1].c_time
<1>1. q \in Seq(Entries)
  BY DEF Proper
<1>2. 1 \in 1 .. Len(q) /\ Len(q) \in Nat
  BY <1>1, EntryType, SMT
<1>3. AllDue(q, 1)
  BY SMT DEF AllDue
<1>4. CASE AllDue(q, i)
  BY <1>1, <1>2, <1>3, <1>4, RemainingCases, SMT DEF Proper
<1>5. CASE ~AllDue(q, i)
  <2>1. Remaining(q, i) = Lead(q, i) /\ Lead(q, i) > 0
    BY <1>1, <1>5, RemainingCases, LeadPositive
  <2>2. Lead(q, i) \in Nat /\ q[1].c_time \in Int
    BY <1>1, <1>2, EntryType, LeadStep, SMT
  <2> QED BY <1>1, <1>2, <1>3, <2>1, <2>2, RemainingCases, SMT
<1> QED BY <1>4, <1>5

(* softclock takes the first entry, which is due, off the queue. *)
THEOREM TailOfQueue ==
  ASSUME NEW q, Proper(q), q # <<>>, q[1].c_time <= 0
  PROVE  /\ Proper(Tail(q))
         /\ Left(Tail(q)) = Left(q) \ {[call |-> q[1].c_arg, ticks |-> q[1].c_time]}
<1> DEFINE r == Tail(q)
<1>1. q \in Seq(Entries)
  BY DEF Proper
<1>2. /\ Len(q) \in Nat /\ Len(q) >= 1 /\ r \in Seq(Entries) /\ Len(r) = Len(q) - 1
      /\ \A i \in 1 .. Len(r) : r[i] = q[i + 1]
  BY <1>1, EmptySeq, TailProperties, SMT
<1> HIDE DEF r
<1>3. \A i \in 1 .. Len(r) : AllDue(r, i) <=> AllDue(q, i + 1)
  <2> SUFFICES ASSUME NEW i \in 1 .. Len(r) PROVE AllDue(r, i) <=> AllDue(q, i + 1)
    OBVIOUS
  <2>1. ASSUME AllDue(r, i), NEW k \in 1 .. i + 1 PROVE q[k].c_time <= 0
    <3>1. CASE k = 1
      BY <3>1
    <3>2. CASE k # 1
      <4>1. k - 1 \in 1 .. i /\ k - 1 \in 1 .. Len(r) /\ (k - 1) + 1 = k
        BY <1>2, <3>2, SMT
      <4> QED BY <1>2, <2>1, <4>1 DEF AllDue
    <3> QED BY <3>1, <3>2
  <2>2. ASSUME AllDue(q, i + 1), NEW k \in 1 .. i PROVE r[k].c_time <= 0
    <3>1. k + 1 \in 1 .. i + 1 /\ k \in 1 .. Len(r)
      BY <1>2, SMT
    <3> QED BY <1>2, <2>2, <3>1 DEF AllDue
  <2> QED BY <2>1, <2>2 DEF AllDue
<1>4. ASSUME NEW i \in 1 .. Len(r) PROVE Remaining(r, i) = Remaining(q, i + 1)
  <2>1. i + 1 \in 1 .. Len(q) /\ i + 1 \in 0 .. Len(q) /\ i \in 0 .. Len(r) /\ 1 \in 1 .. Len(q)
    BY <1>2, SMT
  <2>2. Lead(r, i) = Lead(q, i + 1)
    <3>1. SameWaits(q, 1, r, 0, i)
      BY <1>2, SMT DEF Wait, SameWaits
    <3>2. 1 + i <= Len(q) /\ 0 + i <= Len(r) /\ i \in Nat /\ i \in 0 .. i
      BY <1>2, SMT
    <3>4. Span(q, 1, i) = Span(r, 0, i)
      BY <1>1, <1>2, <3>1, <3>2, LeadAligned, SMT
    <3>5. Lead(q, 1) = 0 /\ Lead(r, 0) = 0
      <4>1. 1 \in 0 .. Len(q) /\ \A k \in 1 .. 1 : q[k].c_time <= 0
        BY <1>2, SMT
      <4> QED BY <1>1, <1>2, <4>1, LeadOfDue, LeadStep
    <3>6. Lead(q, 1 + i) \in Nat /\ Lead(r, 0 + i) \in Nat /\ 0 + i = i /\ 1 + i = i + 1
      <4>1. 0 + i = i /\ 1 + i = i + 1
        BY <3>2, SMT
      <4> QED BY <1>1, <1>2, <2>1, <4>1, LeadStep
    <3> QED BY <3>4, <3>5, <3>6, SMT DEF Span
  <2> QED BY <1>1, <1>2, <1>3, <2>1, <2>2, RemainingCases
<1>5. Proper(r)
  <2>1. \A i \in 1 .. Len(r) : i + 1 \in 1 .. Len(q)
    BY <1>2, SMT
  <2>2. ASSUME NEW i \in 1 .. Len(r), NEW j \in 1 .. Len(r), r[i].c_arg = r[j].c_arg PROVE i = j
    <3>1. i + 1 = j + 1
      BY <1>2, <2>1, <2>2 DEF Proper
    <3> QED BY <3>1, SMT
  <2>3. ASSUME NEW j \in 1 .. Len(r), r[j].c_time < 0 PROVE AllDue(r, j)
    BY <1>2, <1>3, <2>1, <2>3 DEF Proper
  <2>4. ASSUME NEW i \in 1 .. Len(r), NEW j \in 1 .. Len(r), i <= j, AllDue(r, j)
        PROVE r[i].c_time <= r[j].c_time
    <3>1. i + 1 <= j + 1
      BY <2>4, SMT
    <3> QED BY <1>2, <1>3, <2>1, <2>4, <3>1 DEF Proper
  <2> QED BY <1>2, <2>2, <2>3, <2>4 DEF Proper
<1>6. Left(r) = Left(q) \ {[call |-> q[1].c_arg, ticks |-> q[1].c_time]}
  <2> DEFINE E(s, i) == [call |-> s[i].c_arg, ticks |-> Remaining(s, i)]
  <2>1. DOMAIN q = 1 .. Len(q) /\ DOMAIN r = 1 .. Len(r)
    BY <1>1, <1>2, EntryType
  <2>2. ASSUME NEW i \in 1 .. Len(r)
        PROVE  i + 1 \in 1 .. Len(q) /\ E(r, i) = E(q, i + 1) /\ q[i + 1].c_arg # q[1].c_arg
    <3>1. i + 1 \in 1 .. Len(q) /\ 1 \in 1 .. Len(q) /\ i + 1 # 1
      BY <1>2, SMT
    <3> QED BY <1>2, <1>4, <3>1 DEF Proper
  <2>3. ASSUME NEW i \in 1 .. Len(q), i # 1
        PROVE  i - 1 \in 1 .. Len(r) /\ E(q, i) = E(r, i - 1)
    <3>1. i - 1 \in 1 .. Len(r) /\ (i - 1) + 1 = i
      BY <1>2, <2>3, SMT
    <3> QED BY <1>2, <1>4, <3>1
  <2>4. 1 \in 1 .. Len(q) /\ E(q, 1) = [call |-> q[1].c_arg, ticks |-> q[1].c_time]
    <3>1. 1 \in 1 .. Len(q)
      BY <1>2, SMT
    <3> QED BY <3>1, HeadIsLeast
  <2>5. Left(r) \subseteq Left(q) \ {E(q, 1)}
    <3> SUFFICES ASSUME NEW e \in Left(r) PROVE e \in Left(q) \ {E(q, 1)}
      OBVIOUS
    <3>1. PICK i \in 1 .. Len(r) : e = E(r, i)
      BY <2>1 DEF Left
    <3>2. e = E(q, i + 1) /\ i + 1 \in DOMAIN q /\ e.call # E(q, 1).call
      BY <2>1, <2>2, <3>1
    <3> QED BY <3>2 DEF Left
  <2>6. Left(q) \ {E(q, 1)} \subseteq Left(r)
    <3> SUFFICES ASSUME NEW e \in Left(q), e # E(q, 1) PROVE e \in Left(r)
      OBVIOUS
    <3>1. PICK i \in 1 .. Len(q) : e = E(q, i)
      BY <2>1 DEF Left
    <3>2. e = E(r, i - 1) /\ i - 1 \in DOMAIN r
      BY <2>1, <2>3, <3>1
    <3> QED BY <3>2 DEF Left
  <2> QED BY <2>4, <2>5, <2>6
<1> QED BY <1>5, <1>6 DEF r

(* What softclock calls next. *)
THEOREM DueIsFirst ==
  ASSUME NEW q, Proper(q), Due(q)
  PROVE  LET c == [call |-> q[1].c_arg, ticks |-> q[1].c_time] IN
         c \in Left(q) /\ c.ticks <= 0 /\ \A d \in Left(q) : c.ticks <= d.ticks
<1>1. q \in Seq(Entries) /\ q # <<>> /\ q[1].c_time <= 0
  BY DEF Proper, Due
<1>2. Len(q) \in Nat /\ DOMAIN q = 1 .. Len(q) /\ 1 \in 1 .. Len(q)
  BY <1>1, EntryType, EmptySeq, SMT
<1>3. Remaining(q, 1) = q[1].c_time
  BY <1>1, <1>2, HeadIsLeast
<1>4. [call |-> q[1].c_arg, ticks |-> q[1].c_time] \in Left(q)
  BY <1>2, <1>3 DEF Left
<1>5. ASSUME NEW d \in Left(q) PROVE q[1].c_time <= d.ticks
  <2>1. PICK i \in 1 .. Len(q) : d = [call |-> q[i].c_arg, ticks |-> Remaining(q, i)]
    BY <1>2 DEF Left
  <2> QED BY <1>1, <2>1, HeadIsLeast
<1> QED BY <1>1, <1>4, <1>5

-----------------------------------------------------------------------------
(* hardclock.  First what the loop does to each entry: either all are due, *)
(* or n is the first that is not.                                          *)
LEMMA TickedShape ==
  ASSUME NEW q \in Seq(Entries)
  PROVE  /\ Ticked(q) \in Seq(Entries) /\ Len(Ticked(q)) = Len(q)
         /\ \A i \in 1 .. Len(q) : Ticked(q)[i].c_arg = q[i].c_arg
         /\ \/ /\ AllDue(q, Len(q))
               /\ \A i \in 1 .. Len(q) : Ticked(q)[i].c_time = q[i].c_time - 1
            \/ \E n \in 1 .. Len(q) :
                 /\ q[n].c_time > 0 /\ AllDue(q, n - 1)
                 /\ \A i \in 1 .. n : Ticked(q)[i].c_time = q[i].c_time - 1
                 /\ \A i \in n + 1 .. Len(q) : Ticked(q)[i].c_time = q[i].c_time
<1> DEFINE r == Ticked(q)
           New(n) == [i \in 1 .. Len(q) |-> IF i <= n THEN [q[i] EXCEPT !.c_time = @ - 1] ELSE q[i]]
<1>1. Len(q) \in Nat /\ DOMAIN q = 1 .. Len(q)
  BY EntryType
<1>2. ASSUME NEW n \in Nat
      PROVE  /\ New(n) \in Seq(Entries) /\ Len(New(n)) = Len(q)
             /\ \A i \in 1 .. Len(q) :
                  /\ New(n)[i].c_arg = q[i].c_arg
                  /\ New(n)[i].c_time = IF i <= n THEN q[i].c_time - 1 ELSE q[i].c_time
  <2>1. ASSUME NEW i \in 1 .. Len(q)
        PROVE  /\ New(n)[i] \in Entries
               /\ New(n)[i].c_arg = q[i].c_arg
               /\ New(n)[i].c_time = IF i <= n THEN q[i].c_time - 1 ELSE q[i].c_time
    <3>1. New(n)[i] = IF i <= n THEN [q[i] EXCEPT !.c_time = @ - 1] ELSE q[i]
      OBVIOUS
    <3>2. q[i] \in Entries /\ q[i].c_time \in Int
      BY ElementOfSeq, EntryType
    <3> QED BY <3>1, <3>2, SMTT(30) DEF Entries
  <2>2. New(n) \in [1 .. Len(q) -> Entries]
    BY <2>1
  <2>3. New(n) \in Seq(Entries) /\ DOMAIN New(n) = 1 .. Len(q)
    BY <1>1, <2>2, FunctionIsSeq
  <2>4. Len(New(n)) = Len(q)
    BY <1>1, <2>3, LenProperties, SMT
  <2> QED BY <2>1, <2>3, <2>4
<1>3. CASE \E i \in DOMAIN q : q[i].c_time > 0
  <2> DEFINE I == {i \in 1 .. Len(q) : q[i].c_time > 0}
  <2> DEFINE n == First(I)
  <2>1. n \in I /\ \A m \in I : n <= m
    <3>1. I \subseteq Nat /\ I # {}
      BY <1>1, <1>3, SMT
    <3> QED BY <3>1, FirstIsLeast
  <2>3. r = New(n)
    BY <1>1, <1>3 DEF Ticked
  <2> HIDE DEF n
  <2>4. n \in 1 .. Len(q) /\ q[n].c_time > 0 /\ n \in Nat
    BY <2>1, SMT
  <2>5. AllDue(q, n - 1)
    <3> SUFFICES ASSUME NEW k \in 1 .. n - 1 PROVE q[k].c_time <= 0
      BY DEF AllDue
    <3>1. k \in 1 .. Len(q) /\ ~(n <= k) /\ q[k].c_time \in Int
      BY <1>1, <2>4, EntryType, SMT
    <3> QED BY <2>1, <3>1, SMT
  <2>6. /\ \A i \in 1 .. n : i \in 1 .. Len(q) /\ i <= n
        /\ \A i \in n + 1 .. Len(q) : i \in 1 .. Len(q) /\ ~(i <= n)
    BY <1>1, <2>4, SMT
  <2> HIDE DEF New, r
  <2>7. /\ r \in Seq(Entries) /\ Len(r) = Len(q)
        /\ \A i \in 1 .. Len(q) : r[i].c_arg = q[i].c_arg
        /\ \A i \in 1 .. n : r[i].c_time = q[i].c_time - 1
        /\ \A i \in n + 1 .. Len(q) : r[i].c_time = q[i].c_time
    BY <1>2, <2>3, <2>4, <2>6
  <2> HIDE DEF I
  <2> QED BY <2>4, <2>5, <2>7 DEF r
<1>4. CASE ~ \E i \in DOMAIN q : q[i].c_time > 0
  <2>1. r = New(Len(q))
    BY <1>1, <1>4 DEF Ticked
  <2>2. AllDue(q, Len(q))
    BY <1>1, <1>4, EntryType, SMT DEF AllDue
  <2>3. \A i \in 1 .. Len(q) : i <= Len(q)
    BY <1>1, SMT
  <2> HIDE DEF New, r
  <2> QED BY <1>1, <1>2, <2>1, <2>2, <2>3 DEF r
<1> QED BY <1>3, <1>4

(* One tick counts once for every pending call, due or not. *)
THEOREM TickOfQueue ==
  ASSUME NEW q, Proper(q)
  PROVE  /\ Proper(Ticked(q))
         /\ Len(Ticked(q)) = Len(q)
         /\ \A i \in 1 .. Len(q) : /\ Ticked(q)[i].c_arg = q[i].c_arg
                                   /\ Remaining(Ticked(q), i) = Remaining(q, i) - 1
<1> DEFINE r == Ticked(q)
<1>1. q \in Seq(Entries)
  BY DEF Proper
<1>2. /\ r \in Seq(Entries) /\ Len(r) = Len(q)
      /\ \A i \in 1 .. Len(q) : r[i].c_arg = q[i].c_arg
  BY <1>1, TickedShape
<1>3. Len(q) \in Nat /\ \A i \in 1 .. Len(q) : q[i].c_time \in Int /\ r[i].c_time \in Int
  BY <1>1, <1>2, EntryType
<1>0. \/ /\ AllDue(q, Len(q))
         /\ \A i \in 1 .. Len(q) : r[i].c_time = q[i].c_time - 1
      \/ \E n \in 1 .. Len(q) :
           /\ q[n].c_time > 0 /\ AllDue(q, n - 1)
           /\ \A i \in 1 .. n : r[i].c_time = q[i].c_time - 1
           /\ \A i \in n + 1 .. Len(q) : r[i].c_time = q[i].c_time
  BY <1>1, TickedShape
<1> HIDE DEF r
<1>4. CASE AllDue(q, Len(q)) /\ \A i \in 1 .. Len(q) : r[i].c_time = q[i].c_time - 1
  <2>1. \A i \in 1 .. Len(q) : AllDue(q, i) /\ AllDue(r, i)
    <3> SUFFICES ASSUME NEW i \in 1 .. Len(q), NEW k \in 1 .. i
                 PROVE  q[k].c_time <= 0 /\ r[k].c_time <= 0
      BY DEF AllDue
    <3>1. k \in 1 .. Len(q)
      BY <1>3, SMT
    <3> QED BY <1>3, <1>4, <3>1, SMT DEF AllDue
  <2>2. \A i \in 1 .. Len(q) : Remaining(r, i) = Remaining(q, i) - 1
    BY <1>1, <1>2, <1>4, <2>1, RemainingCases
  <2>3. Proper(r)
    <3>1. ASSUME NEW i \in 1 .. Len(r), NEW j \in 1 .. Len(r), i <= j
          PROVE  r[i].c_time <= r[j].c_time
      BY <1>2, <1>3, <1>4, <2>1, <3>1, SMTT(30) DEF Proper
    <3> QED BY <1>2, <2>1, <3>1 DEF Proper
  <2> QED BY <1>2, <2>2, <2>3 DEF r
<1>5. ASSUME NEW n \in 1 .. Len(q), q[n].c_time > 0, AllDue(q, n - 1),
             \A i \in 1 .. n : r[i].c_time = q[i].c_time - 1,
             \A i \in n + 1 .. Len(q) : r[i].c_time = q[i].c_time
      PROVE  Proper(r) /\ \A i \in 1 .. Len(q) : Remaining(r, i) = Remaining(q, i) - 1
  <2>1. ASSUME NEW i \in 1 .. Len(q), i < n
        PROVE  /\ q[i].c_time <= 0 /\ r[i].c_time = q[i].c_time - 1
               /\ AllDue(q, i) /\ AllDue(r, i)
    <3>1. ASSUME NEW k \in 1 .. i PROVE q[k].c_time <= 0 /\ r[k].c_time = q[k].c_time - 1 /\ q[k].c_time \in Int
      <4>1. k \in 1 .. n - 1 /\ k \in 1 .. n /\ k \in 1 .. Len(q)
        BY <1>3, <2>1, SMT
      <4> QED BY <1>3, <1>5, <4>1 DEF AllDue
    <3>2. i \in 1 .. i
      BY <1>3, SMT
    <3> QED BY <3>1, <3>2, SMT DEF AllDue
  <2>2. ASSUME NEW i \in 1 .. Len(q), n <= i PROVE ~AllDue(q, i) /\ q[i].c_time >= 0 /\ r[i].c_time >= 0
    <3>1. ~AllDue(q, i)
      <4>1. n \in 1 .. i
        BY <1>3, <2>2, SMT
      <4> QED BY <1>3, <1>5, <4>1, SMT DEF AllDue
    <3>2. q[i].c_time >= 0
      BY <1>3, <3>1, SMT DEF Proper
    <3>3. r[i].c_time >= 0
      <4>1. CASE i = n
        <5>1. n \in 1 .. n
          BY <1>3, SMT
        <5> QED BY <1>3, <1>5, <4>1, <5>1, SMT
      <4>2. CASE i # n
        <5>1. i \in n + 1 .. Len(q)
          BY <1>3, <2>2, <4>2, SMT
        <5> QED BY <1>3, <1>5, <3>2, <5>1
      <4> QED BY <4>1, <4>2
    <3> QED BY <3>1, <3>2, <3>3
  <2>3. ASSUME NEW i \in 1 .. Len(q), n <= i
        PROVE  Lead(r, i) = Lead(q, i) - 1 /\ Lead(q, i) \in Nat /\ Lead(r, i) \in Nat
    <3> DEFINE m == n - 1
    <3>1. m \in Nat /\ n = m + 1 /\ m \in 0 .. Len(q) /\ n \in 1 .. Len(q) /\ n \in 0 .. Len(q) /\ i \in 0 .. Len(q)
      BY <1>3, SMT
    <3>2. Lead(q, m) = 0 /\ Lead(r, m) = 0
      <4>1. \A k \in 1 .. m : q[k].c_time <= 0 /\ r[k].c_time <= 0
        <5> SUFFICES ASSUME NEW k \in 1 .. m PROVE q[k].c_time <= 0 /\ r[k].c_time <= 0
          OBVIOUS
        <5>1. k \in 1 .. Len(q) /\ k < n
          BY <1>3, <3>1, SMT
        <5> QED BY <1>3, <2>1, <5>1, SMT
      <4> QED BY <1>1, <1>2, <3>1, <4>1, LeadOfDue
    <3>3. Lead(q, n) = q[n].c_time /\ Lead(r, n) = q[n].c_time - 1
      <4>1. n - 1 = m /\ n \in 1 .. n
        BY <3>1, SMT
      <4>2. r[n].c_time = q[n].c_time - 1 /\ q[n].c_time \in Int
        BY <1>3, <1>5, <4>1
      <4>3. Wait(q, n) = q[n].c_time /\ Wait(r, n) = q[n].c_time - 1
        BY <1>5, <4>2, SMT DEF Wait
      <4>4. Lead(q, n) = Lead(q, m) + Wait(q, n) /\ Lead(r, n) = Lead(r, m) + Wait(r, n)
        BY <1>1, <1>2, <3>1, <4>1, LeadStep
      <4> QED BY <3>2, <4>2, <4>3, <4>4, SMT
    <3>4. ASSUME NEW k \in 1 .. i - n PROVE Wait(q, n + k) = Wait(r, n + k)
      <4>1. n + k \in n + 1 .. Len(q)
        BY <1>3, SMT
      <4> QED BY <1>5, <4>1 DEF Wait
    <3>5. n \in Nat /\ i - n \in Nat /\ n + (i - n) <= Len(q) /\ n + (i - n) <= Len(r) /\ i - n \in 0 .. i - n /\ n + (i - n) = i
      BY <1>2, <1>3, <2>3, SMT
    <3>7. Span(q, n, i - n) = Span(r, n, i - n)
      <4> DEFINE d == i - n
      <4>1. d \in Nat /\ n + d <= Len(q) /\ n + d <= Len(r) /\ SameWaits(q, n, r, n, d)
        BY <3>4, <3>5 DEF SameWaits
      <4> HIDE DEF d
      <4>2. Span(q, n, d) = Span(r, n, d)
        BY <1>1, <1>2, <3>5, <4>1, LeadAligned, SMT
      <4> QED BY <4>2 DEF d
    <3>8. Lead(q, i) - Lead(q, n) = Lead(r, i) - Lead(r, n)
      BY <3>5, <3>7 DEF Span
    <3>9. Lead(q, i) \in Nat /\ Lead(r, i) \in Nat
      BY <1>1, <1>2, <3>1, LeadStep
    <3>10. q[n].c_time \in Int
      BY <1>3
    <3> HIDE DEF m
    <3> QED BY <3>3, <3>8, <3>9, <3>10, SMT
  <2>4. ASSUME NEW i \in 1 .. Len(q), n <= i, AllDue(r, i)
        PROVE  r[i].c_time = 0 /\ Lead(r, i) = 0
    <3>1. i \in 0 .. Len(r) /\ i \in 1 .. i /\ \A k \in 1 .. i : r[k].c_time <= 0
      BY <1>2, <1>3, <2>4, SMT DEF AllDue
    <3> QED BY <1>2, <1>3, <2>2, <2>4, <3>1, LeadOfDue, SMT
  <2>5. ASSUME NEW i \in 1 .. Len(q) PROVE Remaining(r, i) = Remaining(q, i) - 1
    <3>1. CASE i < n
      BY <1>1, <1>2, <2>1, <3>1, RemainingCases
    <3>2. CASE n <= i
      <4>1. Remaining(q, i) = Lead(q, i) /\ Lead(r, i) = Lead(q, i) - 1 /\ Lead(q, i) \in Nat
        BY <1>1, <2>2, <2>3, <3>2, RemainingCases
      <4>2. CASE AllDue(r, i)
        BY <1>2, <2>4, <3>2, <4>1, <4>2, RemainingCases
      <4>3. CASE ~AllDue(r, i)
        BY <1>2, <4>1, <4>3, RemainingCases
      <4> QED BY <4>2, <4>3
    <3> QED BY <1>3, <3>1, <3>2, SMT
  <2>6. Proper(r)
    <3>1. ASSUME NEW i \in 1 .. Len(r), r[i].c_time < 0 PROVE AllDue(r, i)
      BY <1>2, <1>3, <2>1, <2>2, <3>1, SMT
    <3>2. ASSUME NEW i \in 1 .. Len(r), NEW j \in 1 .. Len(r), i <= j, AllDue(r, j)
          PROVE  r[i].c_time <= r[j].c_time
      <4>1. CASE j < n
        <5>1. i < n /\ i \in 1 .. Len(q) /\ j \in 1 .. Len(q)
          BY <1>2, <1>3, <3>2, <4>1, SMT
        <5>2. q[i].c_time <= q[j].c_time
          BY <2>1, <3>2, <4>1, <5>1 DEF Proper
        <5> QED BY <1>3, <2>1, <4>1, <5>1, <5>2, SMT
      <4>2. CASE n <= j
        <5>1. r[j].c_time = 0
          BY <1>2, <2>4, <3>2, <4>2
        <5>2. i \in 1 .. j
          BY <1>2, <1>3, <3>2, SMT
        <5> QED BY <3>2, <5>1, <5>2 DEF AllDue
      <4> QED BY <1>2, <1>3, <4>1, <4>2, SMT
    <3> QED BY <1>2, <3>1, <3>2 DEF Proper
  <2> QED BY <2>5, <2>6
<1> QED BY <1>0, <1>2, <1>4, <1>5 DEF r

(* The loop of hardclock takes one tick off every deadline. *)
THEOREM LeftOfTicked ==
  ASSUME NEW q, Proper(q)
  PROVE  Left(Ticked(q)) = {[c EXCEPT !.ticks = @ - 1] : c \in Left(q)}
<1> DEFINE r == Ticked(q)
           E(x, i) == [call |-> x[i].c_arg, ticks |-> Remaining(x, i)]
<1>1. /\ q \in Seq(Entries) /\ r \in Seq(Entries) /\ Len(r) = Len(q)
      /\ \A i \in 1 .. Len(q) : r[i].c_arg = q[i].c_arg /\ Remaining(r, i) = Remaining(q, i) - 1
  BY TickOfQueue DEF Proper
<1>2. DOMAIN q = 1 .. Len(q) /\ DOMAIN r = 1 .. Len(q)
  BY <1>1, EntryType
<1> HIDE DEF r
<1>3. ASSUME NEW i \in 1 .. Len(q) PROVE E(r, i) = [E(q, i) EXCEPT !.ticks = @ - 1]
  BY <1>1, SMT
<1>4. ASSUME NEW e \in Left(r) PROVE e \in {[c EXCEPT !.ticks = @ - 1] : c \in Left(q)}
  <2>1. PICK i \in 1 .. Len(q) : e = E(r, i)
    BY <1>2 DEF Left
  <2>2. E(q, i) \in Left(q)
    BY <1>2 DEF Left
  <2> QED BY <1>3, <2>1, <2>2
<1>5. ASSUME NEW c \in Left(q) PROVE [c EXCEPT !.ticks = @ - 1] \in Left(r)
  <2>1. PICK i \in 1 .. Len(q) : c = E(q, i)
    BY <1>2 DEF Left
  <2>2. E(r, i) \in Left(r)
    BY <1>2 DEF Left
  <2> QED BY <1>3, <2>1, <2>2
<1> QED BY <1>4, <1>5 DEF r

(* No call has two deadlines. *)
LEMMA OneDeadline ==
  ASSUME NEW q, Proper(q), NEW d \in Left(q), NEW e \in Left(q), d.call = e.call
  PROVE  d = e
<1>1. DOMAIN q = 1 .. Len(q)
  BY EntryType DEF Proper
<1>2. PICK i \in 1 .. Len(q) : d = [call |-> q[i].c_arg, ticks |-> Remaining(q, i)]
  BY <1>1 DEF Left
<1>3. PICK j \in 1 .. Len(q) : e = [call |-> q[j].c_arg, ticks |-> Remaining(q, j)]
  BY <1>1 DEF Left
<1>4. i = j
  BY <1>2, <1>3 DEF Proper
<1> QED BY <1>2, <1>3, <1>4

-----------------------------------------------------------------------------
(* untimeout.  n is the entry that goes. *)
LEMMA UntimeoutShape ==
  ASSUME NEW q \in Seq(Entries), NEW a, \E i \in 1 .. Len(q) : q[i].c_arg = a
  PROVE  LET r == Untimeout(q, a) IN
         /\ r \in Seq(Entries) /\ Len(r) = Len(q) - 1
         /\ \E n \in 1 .. Len(q) :
              /\ q[n].c_arg = a
              /\ \A i \in 1 .. n - 1 : r[i] = q[i]
              /\ \A i \in n .. Len(q) - 1 : r[i].c_arg = q[i + 1].c_arg
              /\ \A i \in n + 1 .. Len(q) - 1 : r[i] = q[i + 1]
              /\ n < Len(q) => r[n].c_time = q[n + 1].c_time + Wait(q, n)
<1> DEFINE I == {i \in 1 .. Len(q) : q[i].c_arg = a}
<1>1. Len(q) \in Nat /\ DOMAIN q = 1 .. Len(q) /\ \A i \in 1 .. Len(q) : q[i] \in Entries /\ q[i].c_time \in Int
  BY EntryType, ElementOfSeq
<1> DEFINE n == First(I)
<1>2. n \in I /\ \A m \in I : n <= m
  <2>1. I \subseteq Nat /\ I # {}
    BY <1>1, SMT
  <2> QED BY <2>1, FirstIsLeast
<1>4. n \in 1 .. Len(q) /\ q[n].c_arg = a
  BY <1>2
<1> DEFINE w == IF n < Len(q) /\ q[n].c_time > 0
                THEN [q EXCEPT ![n + 1].c_time = @ + q[n].c_time] ELSE q
           s == SubSeq(w, 1, n - 1)
           t == SubSeq(w, n + 1, Len(w))
<1>5. Untimeout(q, a) = s \o t
  BY <1>1, <1>4 DEF Untimeout
<1> HIDE DEF n, I
<1>6. /\ w \in Seq(Entries) /\ Len(w) = Len(q)
      /\ \A i \in 1 .. Len(q) : i # n + 1 => w[i] = q[i]
      /\ n < Len(q) => /\ w[n + 1].c_arg = q[n + 1].c_arg
                       /\ w[n + 1].c_time = q[n + 1].c_time + Wait(q, n)
  <2>1. CASE n < Len(q) /\ q[n].c_time > 0
    <3>1. w = [i \in 1 .. Len(q) |-> IF i = n + 1 THEN [q[n + 1] EXCEPT !.c_time = @ + q[n].c_time] ELSE q[i]]
      BY <1>1, <1>4, <2>1
    <3>2. n + 1 \in 1 .. Len(q) /\ n \in 1 .. Len(q)
      BY <1>1, <1>4, <2>1, SMT
    <3>3. /\ w[n + 1] = [q[n + 1] EXCEPT !.c_time = @ + q[n].c_time]
          /\ \A i \in 1 .. Len(q) : i # n + 1 => w[i] = q[i]
      BY <3>1, <3>2
    <3>4. /\ w[n + 1] \in Entries
          /\ w[n + 1].c_arg = q[n + 1].c_arg
          /\ w[n + 1].c_time = q[n + 1].c_time + q[n].c_time
      BY <1>1, <3>2, <3>3, SMT DEF Entries
    <3>5. \A i \in 1 .. Len(q) : w[i] \in Entries
      BY <1>1, <3>3, <3>4
    <3>6. w \in [1 .. Len(q) -> Entries]
      <4>1. DOMAIN w = 1 .. Len(q) /\ w = [i \in 1 .. Len(q) |-> w[i]]
        BY <3>1
      <4> HIDE DEF w
      <4> QED BY <3>5, <4>1
    <3>7. w \in Seq(Entries) /\ DOMAIN w = 1 .. Len(q)
      BY <1>1, <3>6, FunctionIsSeq
    <3>8. Len(w) = Len(q)
      BY <1>1, <3>7, LenProperties, SMT
    <3> HIDE DEF w
    <3> QED BY <2>1, <3>3, <3>4, <3>7, <3>8 DEF Wait
  <2>2. CASE ~(n < Len(q) /\ q[n].c_time > 0)
    <3>1. w = q
      BY <2>2
    <3>2. n < Len(q) => Wait(q, n) = 0 /\ n + 1 \in 1 .. Len(q)
      BY <1>1, <1>4, <2>2, SMT DEF Wait
    <3> HIDE DEF w
    <3> QED BY <1>1, <3>1, <3>2, SMT
  <2> QED BY <2>1, <2>2
<1> HIDE DEF w
<1>7. /\ s \in Seq(Entries) /\ Len(s) = n - 1 /\ \A i \in 1 .. n - 1 : s[i] = w[i]
      /\ t \in Seq(Entries) /\ Len(t) = Len(q) - n /\ \A i \in 1 .. Len(q) - n : t[i] = w[n + i]
  <2>1. \A i \in 1 .. Len(w) : w[i] \in Entries
    BY <1>6, ElementOfSeq
  <2>2. \A i \in 1 .. n - 1 : w[i] \in Entries /\ 1 + i - 1 = i
    BY <1>1, <1>4, <1>6, <2>1, SMT
  <2>3. \A i \in n + 1 .. Len(w) : w[i] \in Entries
    BY <1>1, <1>4, <1>6, <2>1, SMT
  <2>4. 1 \in Int /\ n - 1 \in Int /\ n + 1 \in Int /\ Len(w) \in Int
    BY <1>1, <1>4, <1>6, SMT
  <2>5. /\ s \in Seq(Entries)
        /\ Len(s) = (IF 1 <= n - 1 THEN (n - 1) - 1 + 1 ELSE 0)
        /\ \A i \in 1 .. (n - 1) - 1 + 1 : s[i] = w[1 + i - 1]
    BY <2>2, <2>4, SubSeqProperties, SMT
  <2>6. /\ t \in Seq(Entries)
        /\ Len(t) = (IF n + 1 <= Len(w) THEN Len(w) - (n + 1) + 1 ELSE 0)
        /\ \A i \in 1 .. Len(w) - (n + 1) + 1 : t[i] = w[n + 1 + i - 1]
    BY <2>3, <2>4, SubSeqProperties, SMT
  <2>7. (n - 1) - 1 + 1 = n - 1 /\ Len(w) - (n + 1) + 1 = Len(q) - n /\ \A i \in Int : n + 1 + i - 1 = n + i
    BY <1>1, <1>4, <1>6, SMT
  <2> HIDE DEF s, t
  <2>8. Len(s) = n - 1 /\ Len(t) = Len(q) - n
    <3>1. Len(s) = IF 1 <= n - 1 THEN (n - 1) - 1 + 1 ELSE 0
      BY <2>5
    <3>2. Len(t) = IF n + 1 <= Len(q) THEN Len(q) - (n + 1) + 1 ELSE 0
      BY <1>6, <2>6
    <3>3. n \in Nat /\ n >= 1 /\ n <= Len(q) /\ Len(q) \in Nat
      BY <1>1, <1>4, SMT
    <3>4. Len(s) = n - 1
      BY <3>1, <3>3, SMT
    <3> QED BY <3>2, <3>3, <3>4, SMT
  <2>9. ASSUME NEW i \in 1 .. n - 1 PROVE s[i] = w[i]
    BY <2>2, <2>5, <2>7
  <2>10. ASSUME NEW i \in 1 .. Len(q) - n PROVE t[i] = w[n + i]
    <3>1. i \in 1 .. Len(w) - (n + 1) + 1 /\ n + 1 + i - 1 = n + i
      BY <1>1, <1>4, <1>6, SMT
    <3> QED BY <2>6, <3>1
  <2> QED BY <2>5, <2>6, <2>8, <2>9, <2>10
<1> HIDE DEF s, t
<1> DEFINE r == s \o t
<1>8. /\ r \in Seq(Entries)
      /\ Len(r) = Len(s) + Len(t)
      /\ \A i \in 1 .. Len(s) + Len(t) : r[i] = IF i <= Len(s) THEN s[i] ELSE t[i - Len(s)]
  BY <1>7, ConcatProperties
<1> HIDE DEF r
<1>9. Len(r) = Len(q) - 1
  BY <1>1, <1>4, <1>7, <1>8, SMT
<1>10. ASSUME NEW i \in 1 .. n - 1 PROVE r[i] = q[i]
  <2>1. i \in 1 .. Len(s) + Len(t) /\ i <= Len(s) /\ i \in 1 .. Len(q) /\ i # n + 1
    BY <1>1, <1>4, <1>7, SMT
  <2> QED BY <1>6, <1>7, <1>8, <2>1
<1>11. ASSUME NEW i \in n .. Len(q) - 1 PROVE r[i] = w[i + 1] /\ i + 1 \in 1 .. Len(q)
  <2>1. /\ i \in 1 .. Len(s) + Len(t) /\ ~(i <= Len(s)) /\ i - Len(s) = i - n + 1
        /\ i - n + 1 \in 1 .. Len(q) - n /\ n + (i - n + 1) = i + 1 /\ i + 1 \in 1 .. Len(q)
    BY <1>1, <1>4, <1>7, SMT
  <2> QED BY <1>7, <1>8, <2>1
<1>12. /\ \A i \in n .. Len(q) - 1 : r[i].c_arg = q[i + 1].c_arg
       /\ \A i \in n + 1 .. Len(q) - 1 : r[i] = q[i + 1]
       /\ n < Len(q) => r[n].c_time = q[n + 1].c_time + Wait(q, n)
  <2>1. \A i \in n + 1 .. Len(q) - 1 : i \in n .. Len(q) - 1 /\ i + 1 # n + 1
    BY <1>1, <1>4, SMT
  <2>2. n < Len(q) => n \in n .. Len(q) - 1
    BY <1>1, <1>4, SMT
  <2>3. \A i \in n .. Len(q) - 1 : i = n \/ i \in n + 1 .. Len(q) - 1
    BY <1>1, <1>4, SMT
  <2>4. \A i \in n + 1 .. Len(q) - 1 : r[i] = q[i + 1]
    BY <1>6, <1>11, <2>1, SMT
  <2>5. \A i \in n .. Len(q) - 1 : n < Len(q)
    BY <1>1, <1>4, SMT
  <2> QED BY <1>6, <1>11, <2>2, <2>3, <2>4, <2>5
<1> QED BY <1>4, <1>5, <1>8, <1>9, <1>10, <1>12 DEF r

(* The other calls keep their deadlines. *)
THEOREM UntimeoutOfQueue ==
  ASSUME NEW q, Proper(q), NEW a
  PROVE  /\ Proper(Untimeout(q, a))
         /\ Left(Untimeout(q, a)) = {e \in Left(q) : e.call # a}
<1>1. q \in Seq(Entries)
  BY DEF Proper
<1>2. Len(q) \in Nat /\ DOMAIN q = 1 .. Len(q) /\ \A i \in 1 .. Len(q) : q[i].c_time \in Int
  BY <1>1, EntryType
<1>3. CASE ~ \E i \in 1 .. Len(q) : q[i].c_arg = a
  <2>1. Untimeout(q, a) = q
    BY <1>2, <1>3 DEF Untimeout
  <2>2. \A e \in Left(q) : e.call # a
    BY <1>2, <1>3, SMT DEF Left
  <2> QED BY <2>1, <2>2
<1>4. CASE \E i \in 1 .. Len(q) : q[i].c_arg = a
  <2> DEFINE r == Untimeout(q, a)
  <2>1. r \in Seq(Entries) /\ Len(r) = Len(q) - 1
    BY <1>1, <1>4, UntimeoutShape
  <2>2. PICK n \in 1 .. Len(q) :
              /\ q[n].c_arg = a
              /\ \A i \in 1 .. n - 1 : r[i] = q[i]
              /\ \A i \in n .. Len(q) - 1 : r[i].c_arg = q[i + 1].c_arg
              /\ \A i \in n + 1 .. Len(q) - 1 : r[i] = q[i + 1]
              /\ n < Len(q) => r[n].c_time = q[n + 1].c_time + Wait(q, n)
    BY <1>1, <1>4, UntimeoutShape
  <2> HIDE DEF r
  <2>3. \A i \in 1 .. Len(r) : r[i].c_time \in Int
    BY <2>1, EntryType
  <2> DEFINE up(i) == IF i < n THEN i ELSE i + 1
  <2>4. ASSUME NEW i \in 1 .. Len(r)
        PROVE  up(i) \in 1 .. Len(q) /\ up(i) # n /\ r[i].c_arg = q[up(i)].c_arg
    <3>1. CASE i < n
      <4>1. i \in 1 .. n - 1 /\ i \in 1 .. Len(q) /\ i # n
        BY <1>2, <2>1, <3>1, SMT
      <4>2. r[i] = q[i]
        BY <2>2, <4>1
      <4> QED BY <3>1, <4>1, <4>2
    <3>2. CASE ~(i < n)
      <4>1. i \in n .. Len(q) - 1 /\ i + 1 \in 1 .. Len(q) /\ i + 1 # n
        BY <1>2, <2>1, <3>2, SMT
      <4>2. r[i].c_arg = q[i + 1].c_arg
        BY <2>2, <4>1
      <4> QED BY <3>2, <4>1, <4>2
    <3> QED BY <3>1, <3>2
  <2>5. ASSUME NEW i \in 1 .. Len(r), i # n \/ q[n].c_time <= 0
        PROVE  r[i].c_time = q[up(i)].c_time
    <3>1. CASE i < n
      <4>1. i \in 1 .. n - 1
        BY <1>2, <3>1, SMT
      <4> QED BY <2>2, <3>1, <4>1
    <3>2. CASE i > n
      <4>1. i \in n + 1 .. Len(q) - 1 /\ ~(i < n)
        BY <1>2, <2>1, <3>2, SMT
      <4> QED BY <2>2, <4>1
    <3>3. CASE i = n
      <4>1. n < Len(q) /\ ~(i < n) /\ n + 1 \in 1 .. Len(q)
        BY <1>2, <2>1, <3>3, SMT
      <4>2. Wait(q, n) = 0
        BY <1>2, <2>5, <3>3, SMT DEF Wait
      <4> QED BY <1>2, <2>2, <3>3, <4>1, <4>2, SMT
    <3> QED BY <1>2, <3>1, <3>2, <3>3, SMT
  \* Up to the entry that went nothing changes; after it nothing is due
  \* unless that entry was.
  <2>6. ASSUME NEW i \in 1 .. Len(r) PROVE AllDue(r, i) <=> AllDue(q, up(i))
    <3>1. CASE i < n
      <4>1. ASSUME NEW k \in 1 .. i PROVE r[k].c_time = q[k].c_time
        <5>1. k \in 1 .. n - 1
          BY <1>2, <2>1, <3>1, SMT
        <5> QED BY <2>2, <5>1
      <4> QED BY <3>1, <4>1, SMTT(30) DEF AllDue
    <3>2. CASE n <= i /\ q[n].c_time > 0
      <4>1. n \in 1 .. i /\ n \in 1 .. up(i) /\ n < Len(q) /\ n + 1 \in 1 .. Len(q)
        BY <1>2, <2>1, <3>2, SMT
      <4>2. ~AllDue(q, up(i))
        BY <1>2, <3>2, <4>1, SMT DEF AllDue
      <4>3. q[n + 1].c_time >= 0
        <5>1. ~AllDue(q, n + 1)
          <6>1. n \in 1 .. n + 1
            BY <1>2, SMT
          <6> QED BY <1>2, <3>2, <6>1, SMT DEF AllDue
        <5> QED BY <1>2, <4>1, <5>1, SMT DEF Proper
      <4>4. r[n].c_time > 0
        BY <1>2, <2>2, <3>2, <4>1, <4>3, SMT DEF Wait
      <4>5. n \in 1 .. Len(r)
        BY <1>2, <2>1, <3>2, SMT
      <4>6. ~AllDue(r, i)
        BY <2>3, <4>1, <4>4, <4>5, SMT DEF AllDue
      <4> QED BY <4>2, <4>6
    <3>3. CASE n <= i /\ q[n].c_time <= 0
      <4>1. ASSUME AllDue(r, i), NEW k \in 1 .. up(i) PROVE q[k].c_time <= 0
        <5>1. CASE k = n
          BY <3>3, <5>1
        <5>2. CASE k < n
          <6>1. k \in 1 .. i /\ k \in 1 .. Len(r) /\ up(k) = k
            BY <1>2, <2>1, <3>3, <5>2, SMT
          <6> QED BY <2>5, <3>3, <4>1, <6>1 DEF AllDue
        <5>3. CASE k > n
          <6>1. k - 1 \in 1 .. i /\ k - 1 \in 1 .. Len(r) /\ up(k - 1) = k
            BY <1>2, <2>1, <3>3, <5>3, SMT
          <6> QED BY <2>5, <3>3, <4>1, <6>1 DEF AllDue
        <5> QED BY <1>2, <5>1, <5>2, <5>3, SMT
      <4>2. ASSUME AllDue(q, up(i)), NEW k \in 1 .. i PROVE r[k].c_time <= 0
        <5>1. up(k) \in 1 .. up(i) /\ k \in 1 .. Len(r)
          BY <1>2, <2>1, <3>3, SMT
        <5> QED BY <2>5, <3>3, <4>2, <5>1 DEF AllDue
      <4> QED BY <4>1, <4>2 DEF AllDue
    <3> QED BY <1>2, <2>3, <3>1, <3>2, <3>3, SMT
  <2>7. ASSUME NEW i \in 1 .. Len(r) PROVE Lead(r, i) = Lead(q, up(i)) /\ Lead(r, i) \in Nat
    <3> DEFINE m == n - 1
    <3>1. m \in Nat /\ m <= Len(q) /\ m <= Len(r) /\ n = m + 1 /\ n \in 1 .. Len(q)
      BY <1>2, <2>1, SMT
    <3>2. ASSUME NEW k \in 0 .. m PROVE Lead(q, k) = Lead(r, k) /\ Lead(q, k) \in Nat /\ Lead(r, k) \in Nat
      <4>1. ASSUME NEW j \in 1 .. k PROVE Wait(q, 0 + j) = Wait(r, 0 + j)
        <5>1. 0 + j = j /\ j \in 1 .. n - 1
          BY <3>1, SMT
        <5> QED BY <2>2, <5>1 DEF Wait
      <4>2. 0 + k <= Len(q) /\ 0 + k <= Len(r) /\ 0 \in Nat /\ k \in Nat /\ 0 + k = k
        BY <1>2, <2>1, <3>1, SMT
      <4>3. Span(q, 0, k) = Span(r, 0, k)
        <5>1. SameWaits(q, 0, r, 0, k)
          BY <4>1 DEF SameWaits
        <5> QED BY <1>1, <2>1, <4>2, <5>1, LeadAligned, SMT
      <4>4. Lead(q, k) \in Nat /\ Lead(r, k) \in Nat /\ Lead(q, 0) = 0 /\ Lead(r, 0) = 0
        <5>1. k \in 0 .. Len(q) /\ k \in 0 .. Len(r)
          BY <1>2, <2>1, <3>1, SMT
        <5> QED BY <1>1, <2>1, <5>1, LeadStep
      <4> HIDE DEF m
      <4> QED BY <4>2, <4>3, <4>4, SMT DEF Span
    <3>3. CASE i < n
      BY <3>1, <3>2, <3>3, SMT
    <3>4. CASE n <= i
      <4>1. /\ n < Len(q) /\ n \in 1 .. Len(r) /\ n + 1 \in 1 .. Len(q) /\ n - 1 = m /\ (n + 1) - 1 = n
            /\ m \in 0 .. m /\ n + 1 \in 0 .. Len(q) /\ n \in 0 .. Len(r) /\ i + 1 \in 0 .. Len(q) /\ i \in 0 .. Len(r)
        BY <1>2, <2>1, <3>1, <3>4, SMT
      <4>2. /\ Lead(q, n) = Lead(q, m) + Wait(q, n)
            /\ Lead(q, n + 1) = Lead(q, n) + Wait(q, n + 1)
            /\ Lead(r, n) = Lead(r, m) + Wait(r, n)
            /\ Lead(q, i + 1) \in Nat /\ Lead(r, i) \in Nat /\ Lead(q, n + 1) \in Nat /\ Lead(r, n) \in Nat
        BY <1>1, <2>1, <3>1, <4>1, LeadStep
      <4>3. Wait(r, n) = Wait(q, n) + Wait(q, n + 1)
        <5>1. r[n].c_time = q[n + 1].c_time + Wait(q, n)
          BY <2>2, <4>1
        <5>2. q[n].c_time \in Int /\ q[n + 1].c_time \in Int
          BY <1>2, <4>1
        <5>3. CASE q[n].c_time > 0
          <6>1. ~AllDue(q, n + 1)
            <7>1. n \in 1 .. n + 1
              BY <1>2, SMT
            <7> QED BY <5>2, <5>3, <7>1, SMT DEF AllDue
          <6>2. q[n + 1].c_time >= 0
            BY <4>1, <5>2, <6>1, SMT DEF Proper
          <6> QED BY <5>1, <5>2, <5>3, <6>2, SMT DEF Wait
        <5>4. CASE ~(q[n].c_time > 0)
          BY <5>1, <5>2, <5>4, SMT DEF Wait
        <5> QED BY <5>3, <5>4
      <4>4. Lead(r, n) = Lead(q, n + 1)
        <5>1. Wait(q, n) \in Nat /\ Wait(q, n + 1) \in Nat
          BY <1>2, <4>1, SMT DEF Wait
        <5>2. Lead(q, m) = Lead(r, m) /\ Lead(q, m) \in Nat
          BY <3>2, <4>1
        <5> HIDE DEF m
        <5> QED BY <4>2, <4>3, <5>1, <5>2, SMT
      <4>5. ASSUME NEW k \in 1 .. i - n PROVE Wait(q, (n + 1) + k) = Wait(r, n + k)
        <5>1. n + k \in n + 1 .. Len(q) - 1 /\ (n + k) + 1 = (n + 1) + k
          BY <1>2, <2>1, SMT
        <5>2. r[n + k] = q[(n + k) + 1]
          BY <2>2, <5>1
        <5> QED BY <5>1, <5>2 DEF Wait
      <4>6. /\ n + 1 \in Nat /\ n \in Nat /\ i - n \in Nat /\ (n + 1) + (i - n) <= Len(q) /\ n + (i - n) <= Len(r)
            /\ i - n \in 0 .. i - n /\ (n + 1) + (i - n) = i + 1 /\ n + (i - n) = i
        BY <1>2, <2>1, <3>4, SMT
      <4>7. Span(q, n + 1, i - n) = Span(r, n, i - n)
        <5> DEFINE d == i - n
                   u == n + 1
        <5>1. /\ d \in Nat /\ u \in Nat /\ u + d <= Len(q) /\ n + d <= Len(r)
              /\ SameWaits(q, u, r, n, d)
          BY <4>5, <4>6 DEF SameWaits
        <5> HIDE DEF d, u
        <5>2. Span(q, u, d) = Span(r, n, d)
          BY <1>1, <2>1, <4>6, <5>1, LeadAligned, SMT
        <5> QED BY <5>2 DEF d, u
      <4>8. Lead(q, i + 1) - Lead(q, n + 1) = Lead(r, i) - Lead(r, n)
        BY <4>6, <4>7 DEF Span
      <4>9. Lead(q, i + 1) = Lead(r, i)
        <5> HIDE DEF m
        <5> QED BY <4>2, <4>4, <4>8, SMT
      <4>10. up(i) = i + 1
        BY <1>2, <3>4, SMT
      <4> HIDE DEF m, up
      <4> QED BY <4>2, <4>9, <4>10
    <3> QED BY <1>2, <3>3, <3>4, SMT
  <2>8. ASSUME NEW i \in 1 .. Len(r) PROVE Remaining(r, i) = Remaining(q, up(i))
    <3>1. CASE AllDue(r, i)
      <4>1. i # n \/ q[n].c_time <= 0
        <5>1. AllDue(q, up(i)) /\ (i = n => n \in 1 .. up(i))
          BY <1>2, <2>6, <3>1, SMT
        <5> QED BY <5>1 DEF AllDue
      <4>2. r[i].c_time = q[up(i)].c_time
        BY <2>5, <4>1
      <4> HIDE DEF up
      <4> QED BY <1>1, <2>1, <2>4, <2>6, <3>1, <4>2, RemainingCases, SMTT(30)
    <3>2. CASE ~AllDue(r, i)
      <4> HIDE DEF up
      <4> QED BY <1>1, <2>1, <2>4, <2>6, <2>7, <3>2, RemainingCases
    <3> QED BY <3>1, <3>2
  <2>9. Proper(r)
    <3>1. ASSUME NEW i \in 1 .. Len(r), NEW j \in 1 .. Len(r), r[i].c_arg = r[j].c_arg PROVE i = j
      <4>1. up(i) = up(j)
        <5> HIDE DEF up
        <5> QED BY <2>4, <3>1, SMT DEF Proper
      <4> QED BY <1>2, <2>1, <4>1, SMT
    <3>2. ASSUME NEW i \in 1 .. Len(r), r[i].c_time < 0 PROVE AllDue(r, i)
      <4>1. CASE i # n \/ q[n].c_time <= 0
        <5> HIDE DEF up
        <5> QED BY <2>4, <2>5, <2>6, <3>2, <4>1 DEF Proper
      <4>2. CASE i = n /\ q[n].c_time > 0
        <5>1. n < Len(q) /\ n + 1 \in 1 .. Len(q) /\ n \in 1 .. n + 1
          BY <1>2, <2>1, <4>2, SMT
        <5>2. ~AllDue(q, n + 1)
          BY <1>2, <4>2, <5>1, SMT DEF AllDue
        <5>3. q[n + 1].c_time >= 0
          BY <1>2, <5>1, <5>2, SMT DEF Proper
        <5> QED BY <1>2, <2>2, <3>2, <4>2, <5>1, <5>3, SMT DEF Wait
      <4> QED BY <1>2, <4>1, <4>2, SMT
    <3>3. ASSUME NEW i \in 1 .. Len(r), NEW j \in 1 .. Len(r), i <= j, AllDue(r, j)
          PROVE  r[i].c_time <= r[j].c_time
      <4>1. AllDue(q, up(j)) /\ up(i) <= up(j)
        BY <1>2, <2>1, <2>6, <3>3, SMT
      <4>2. (i = n => n \in 1 .. up(j)) /\ (j = n => n \in 1 .. up(j))
        BY <1>2, <2>1, <3>3, SMT
      <4>3. r[i].c_time = q[up(i)].c_time /\ r[j].c_time = q[up(j)].c_time
        <5> HIDE DEF up
        <5> QED BY <2>5, <4>1, <4>2 DEF AllDue
      <4> HIDE DEF up
      <4> QED BY <2>4, <4>1, <4>3 DEF Proper
    <3> QED BY <2>1, <3>1, <3>2, <3>3 DEF Proper
  <2>10. Left(r) = {e \in Left(q) : e.call # a}
    <3> DEFINE E(x, i) == [call |-> x[i].c_arg, ticks |-> Remaining(x, i)]
    <3>1. DOMAIN r = 1 .. Len(r)
      BY <2>1, EntryType
    <3>2. ASSUME NEW i \in 1 .. Len(r)
          PROVE  E(r, i) = E(q, up(i)) /\ q[up(i)].c_arg # a /\ up(i) \in 1 .. Len(q)
      <4> HIDE DEF up
      <4> QED BY <2>2, <2>4, <2>8 DEF Proper
    <3>3. ASSUME NEW i \in 1 .. Len(q), q[i].c_arg # a
          PROVE  \E j \in 1 .. Len(r) : i = up(j)
      <4>1. i # n
        BY <2>2, <3>3
      <4>2. CASE i < n
        <5>1. i \in 1 .. Len(r) /\ up(i) = i
          BY <1>2, <2>1, <4>2, SMT
        <5> HIDE DEF up
        <5> QED BY <5>1
      <4>3. CASE i > n
        <5>1. i - 1 \in 1 .. Len(r) /\ up(i - 1) = i
          BY <1>2, <2>1, <4>3, SMT
        <5> HIDE DEF up
        <5> QED BY <5>1
      <4> QED BY <1>2, <4>1, <4>2, <4>3, SMT
    <3> HIDE DEF up
    <3>4. Left(r) \subseteq {e \in Left(q) : e.call # a}
      <4> SUFFICES ASSUME NEW e \in Left(r) PROVE e \in Left(q) /\ e.call # a
        OBVIOUS
      <4>1. PICK i \in 1 .. Len(r) : e = E(r, i)
        BY <3>1 DEF Left
      <4>2. e = E(q, up(i)) /\ up(i) \in DOMAIN q /\ e.call # a
        BY <1>2, <3>2, <4>1
      <4> QED BY <4>2 DEF Left
    <3>5. {e \in Left(q) : e.call # a} \subseteq Left(r)
      <4> SUFFICES ASSUME NEW e \in Left(q), e.call # a PROVE e \in Left(r)
        OBVIOUS
      <4>0. PICK i \in 1 .. Len(q) : e = E(q, i)
        BY <1>2 DEF Left
      <4>1. PICK j \in 1 .. Len(r) : i = up(j)
        BY <3>3, <4>0
      <4>2. E(q, i) = E(r, j)
        BY <3>2, <4>1, SMTT(30)
      <4> QED BY <3>1, <4>0, <4>2 DEF Left
    <3> QED BY <3>4, <3>5
  <2> QED BY <2>9, <2>10 DEF r
<1> QED BY <1>3, <1>4

-----------------------------------------------------------------------------
(* timeout.  p entries come before the new one. *)
Delay(ticks) == IF ticks <= 0 THEN 1 ELSE ticks

(* What the walk of timeout does to each entry. *)
LEMMA TimeoutShape ==
  ASSUME NEW q \in Seq(Entries), NEW a \in Procs, NEW ticks \in Int
  PROVE  LET t == Delay(ticks)
             r == Timeout(q, a, ticks)
         IN
         /\ r \in Seq(Entries) /\ Len(r) = Len(q) + 1
         /\ \E p \in 0 .. Len(q) :
              /\ \A n \in 0 .. p - 1 : t - Lead(q, n) > q[n + 1].c_time
              /\ p < Len(q) => t - Lead(q, p) <= q[p + 1].c_time
              /\ \A i \in 1 .. p : r[i] = q[i]
              /\ r[p + 1] = [c_arg |-> a, c_time |-> t - Lead(q, p)]
              /\ \A i \in p + 1 .. Len(q) : r[i + 1].c_arg = q[i].c_arg
              /\ \A i \in p + 2 .. Len(q) : r[i + 1] = q[i]
              /\ p < Len(q) => r[p + 2].c_time = q[p + 1].c_time - (t - Lead(q, p))
<1> DEFINE t == Delay(ticks)
           stops == {n \in 0 .. Len(q) : n = Len(q) \/ t - Lead(q, n) <= q[n + 1].c_time}
           p == First(stops)
           new == [c_arg |-> a, c_time |-> t - Lead(q, p)]
           rest == SubSeq(q, p + 1, Len(q))
           tail == IF rest = <<>> THEN rest ELSE [rest EXCEPT ![1].c_time = @ - new.c_time]
           head == SubSeq(q, 1, p)
<1>1. Len(q) \in Nat /\ DOMAIN q = 1 .. Len(q) /\ \A i \in 1 .. Len(q) : q[i] \in Entries /\ q[i].c_time \in Int
  BY EntryType, ElementOfSeq
<1>0. Len(q) \in Nat
  BY <1>1
<1>2. p \in stops /\ \A m \in stops : p <= m
  <2>1. stops \subseteq Nat /\ Len(q) \in stops
    BY <1>1, SMT
  <2> HIDE DEF stops
  <2> QED BY <2>1, FirstIsLeast
<1>3. Timeout(q, a, ticks) = (head \o <<new>>) \o tail
  BY DEF Timeout, Delay
<1>4. t \in Nat /\ \A n \in 0 .. Len(q) : Lead(q, n) \in Nat
  BY LeadStep, SMT DEF Delay
<1> HIDE DEF t, p
<1>5. /\ p \in 0 .. Len(q) /\ (p < Len(q) => t - Lead(q, p) <= q[p + 1].c_time)
      /\ \A n \in 0 .. p - 1 : t - Lead(q, n) > q[n + 1].c_time
  <2>1. p \in 0 .. Len(q) /\ (p < Len(q) => t - Lead(q, p) <= q[p + 1].c_time)
    <3>1. p \in 0 .. Len(q) /\ (p = Len(q) \/ t - Lead(q, p) <= q[p + 1].c_time)
      BY <1>2
    <3> QED BY <1>0, <3>1, SMT
  <2>2. ASSUME NEW n \in 0 .. p - 1 PROVE t - Lead(q, n) > q[n + 1].c_time
    <3>1. n \in 0 .. Len(q) /\ n # Len(q) /\ ~(p <= n) /\ n + 1 \in 1 .. Len(q)
      BY <1>0, <2>1, SMT
    <3>2. n \notin stops
      <4> HIDE DEF stops
      <4> QED BY <1>2, <3>1
    <3>3. ~(t - Lead(q, n) <= q[n + 1].c_time)
      BY <3>1, <3>2
    <3>4. t - Lead(q, n) \in Int /\ q[n + 1].c_time \in Int
      <4>1. Lead(q, n) \in Nat /\ t \in Nat
        BY <1>4, <3>1, SMTT(30)
      <4>2. q[n + 1].c_time \in Int
        BY <1>1, <3>1
      <4> QED BY <4>1, <4>2, SMT
    <3> QED BY <3>3, <3>4, SMT
  <2> QED BY <2>1, <2>2
<1> HIDE DEF stops
<1>6. new \in Entries /\ new.c_arg = a /\ new.c_time = t - Lead(q, p) /\ new.c_time \in Int
  <2>1. t - Lead(q, p) \in Int
    BY <1>4, <1>5, SMT
  <2> QED BY <2>1 DEF Entries
<1>7. /\ head \in Seq(Entries) /\ Len(head) = p /\ \A i \in 1 .. p : head[i] = q[i]
      /\ rest \in Seq(Entries) /\ Len(rest) = Len(q) - p /\ \A i \in 1 .. Len(q) - p : rest[i] = q[p + i]
  <2>1. /\ \A i \in 1 .. p : q[i] \in Entries
        /\ \A i \in p + 1 .. Len(q) : q[i] \in Entries
        /\ 1 \in Int /\ p \in Int /\ p + 1 \in Int /\ Len(q) \in Int
    BY <1>1, <1>5, SMT
  <2>2. /\ head \in Seq(Entries)
        /\ Len(head) = (IF 1 <= p THEN p - 1 + 1 ELSE 0)
        /\ \A i \in 1 .. p - 1 + 1 : head[i] = q[1 + i - 1]
    BY <2>1, SubSeqProperties, SMT
  <2>3. /\ rest \in Seq(Entries)
        /\ Len(rest) = (IF p + 1 <= Len(q) THEN Len(q) - (p + 1) + 1 ELSE 0)
        /\ \A i \in 1 .. Len(q) - (p + 1) + 1 : rest[i] = q[p + 1 + i - 1]
    BY <2>1, SubSeqProperties, SMT
  <2> HIDE DEF head, rest
  <2>4. Len(head) = p
    <3>1. Len(head) = IF 1 <= p THEN p - 1 + 1 ELSE 0
      BY <2>2
    <3> QED BY <1>0, <1>5, <3>1, SMT
  <2>5. Len(rest) = Len(q) - p
    <3>1. Len(rest) = IF p + 1 <= Len(q) THEN Len(q) - (p + 1) + 1 ELSE 0
      BY <2>3
    <3> DEFINE l == Len(q)
               m == Len(rest)
    <3>2. l \in Nat /\ p \in Nat /\ p <= l
      BY <1>0, <1>5, SMT
    <3>3. m = IF p + 1 <= l THEN l - (p + 1) + 1 ELSE 0
      BY <3>1
    <3> HIDE DEF l, m
    <3>4. m = l - p
      BY <3>2, <3>3, SMT
    <3> QED BY <3>4 DEF l, m
  <2>6. ASSUME NEW i \in 1 .. p PROVE head[i] = q[i]
    <3>1. i \in 1 .. p - 1 + 1 /\ 1 + i - 1 = i
      BY <1>1, <1>5, SMT
    <3> QED BY <2>2, <3>1
  <2>7. ASSUME NEW i \in 1 .. Len(q) - p PROVE rest[i] = q[p + i]
    <3>1. i \in 1 .. Len(q) - (p + 1) + 1 /\ p + 1 + i - 1 = p + i
      BY <1>1, <1>5, SMT
    <3> QED BY <2>3, <3>1
  <2> QED BY <2>2, <2>3, <2>4, <2>5, <2>6, <2>7
<1> HIDE DEF head, rest, new
<1>8. /\ tail \in Seq(Entries) /\ Len(tail) = Len(q) - p
      /\ \A i \in 2 .. Len(q) - p : tail[i] = q[p + i]
      /\ p < Len(q) => tail[1].c_arg = q[p + 1].c_arg /\ tail[1].c_time = q[p + 1].c_time - new.c_time
  <2>1. CASE rest = <<>>
    <3>1. tail = rest /\ Len(rest) = 0 /\ ~(p < Len(q)) /\ \A i \in 2 .. Len(q) - p : FALSE
      <4>1. Len(rest) = 0 /\ tail = rest
        BY <1>7, <2>1, EmptySeq
      <4> HIDE DEF tail
      <4>2. p \in 0 .. Len(q) /\ Len(q) - p = 0
        BY <1>5, <1>7, <4>1
      <4> QED BY <1>0, <4>1, <4>2, SMT
    <3> HIDE DEF tail
    <3> QED BY <1>7, <3>1
  <2>2. CASE rest # <<>>
    <3> DEFINE n == Len(q) - p
    <3>1. n \in Nat /\ n >= 1 /\ p < Len(q) /\ Len(rest) = n /\ DOMAIN rest = 1 .. n /\ 1 \in 1 .. n
      <4>1. Len(rest) # 0 /\ Len(rest) \in Nat
        BY <1>7, <2>2, EmptySeq
      <4>2. p \in 0 .. Len(q) /\ Len(rest) = n /\ DOMAIN rest = 1 .. n
        BY <1>5, <1>7, EntryType
      <4> QED BY <1>0, <4>1, <4>2, SMT
    <3> HIDE DEF n
    <3>2. tail = [i \in 1 .. n |-> IF i = 1 THEN [rest[1] EXCEPT !.c_time = @ - new.c_time] ELSE rest[i]]
      BY <2>2, <3>1
    <3>3. \A i \in 1 .. n : rest[i] \in Entries
      BY <1>7, <3>1, ElementOfSeq
    <3>4. tail[1] = [rest[1] EXCEPT !.c_time = @ - new.c_time] /\ \A i \in 1 .. n : i # 1 => tail[i] = rest[i]
      BY <3>1, <3>2
    <3>5. DOMAIN tail = 1 .. n /\ tail = [i \in 1 .. n |-> tail[i]]
      BY <3>2
    <3> HIDE DEF tail
    <3>6. rest[1] \in Entries
      BY <3>1, <3>3
    <3>7. tail[1] \in Entries /\ tail[1].c_arg = rest[1].c_arg /\ tail[1].c_time = rest[1].c_time - new.c_time
      BY <1>6, <3>4, <3>6, SMT DEF Entries
    <3>8. tail \in [1 .. n -> Entries]
      BY <3>3, <3>4, <3>5, <3>7
    <3>9. tail \in Seq(Entries) /\ Len(tail) = n
      <4>1. tail \in Seq(Entries)
        BY <3>1, <3>8, FunctionIsSeq
      <4> QED BY <3>1, <3>5, <4>1, LenProperties, SMT
    <3>10. rest[1] = q[p + 1] /\ \A i \in 2 .. n : rest[i] = q[p + i] /\ i \in 1 .. n /\ i # 1
      BY <1>7, <3>1, SMT DEF n
    <3> QED BY <3>4, <3>7, <3>9, <3>10 DEF n
  <2> QED BY <2>1, <2>2
<1> HIDE DEF tail
<1> DEFINE h == head \o <<new>>
           r == h \o tail
<1>9. h \in Seq(Entries) /\ Len(h) = p + 1 /\ (\A i \in 1 .. p : h[i] = q[i]) /\ h[p + 1] = new
  <2>1. <<new>> \in Seq(Entries) /\ Len(<<new>>) = 1 /\ <<new>>[1] = new
    BY <1>6, SMT
  <2>2. /\ h \in Seq(Entries)
        /\ Len(h) = Len(head) + Len(<<new>>)
        /\ \A i \in 1 .. Len(head) + Len(<<new>>) :
             h[i] = IF i <= Len(head) THEN head[i] ELSE <<new>>[i - Len(head)]
    BY <1>7, <2>1, ConcatProperties, SMT
  <2> HIDE DEF h
  <2>3. p \in Nat /\ (\A i \in 1 .. p : i \in 1 .. p + 1 /\ i <= p) /\ p + 1 \in 1 .. p + 1 /\ ~(p + 1 <= p) /\ (p + 1) - p = 1
    BY <1>1, <1>5, SMT
  <2>4. \A i \in 1 .. p + 1 : h[i] = IF i <= p THEN head[i] ELSE <<new>>[i - p]
    BY <1>7, <2>1, <2>2
  <2>5. Len(h) = p + 1 /\ h \in Seq(Entries)
    BY <1>7, <2>1, <2>2
  <2>6. h[p + 1] = new
    BY <2>1, <2>3, <2>4
  <2>7. \A i \in 1 .. p : h[i] = q[i]
    BY <1>7, <2>3, <2>4
  <2> QED BY <2>5, <2>6, <2>7
<1> HIDE DEF h
<1>10. /\ r \in Seq(Entries)
       /\ Len(r) = Len(q) + 1
       /\ \A i \in 1 .. Len(q) + 1 : r[i] = IF i <= p + 1 THEN h[i] ELSE tail[i - (p + 1)]
  <2>1. /\ r \in Seq(Entries)
        /\ Len(r) = Len(h) + Len(tail)
        /\ \A i \in 1 .. Len(h) + Len(tail) : r[i] = IF i <= Len(h) THEN h[i] ELSE tail[i - Len(h)]
    BY <1>8, <1>9, ConcatProperties
  <2>2. Len(h) + Len(tail) = Len(q) + 1
    BY <1>1, <1>5, <1>8, <1>9, SMT
  <2> HIDE DEF r
  <2> QED BY <1>9, <2>1, <2>2
<1> HIDE DEF r
<1>11. (\A i \in 1 .. p : r[i] = q[i]) /\ r[p + 1] = new
  <2>1. p + 1 \in 1 .. Len(q) + 1 /\ p + 1 <= p + 1 /\ \A i \in 1 .. p : i \in 1 .. Len(q) + 1 /\ i <= p + 1
    BY <1>1, <1>5, SMT
  <2> QED BY <1>9, <1>10, <2>1
<1>12. ASSUME NEW i \in p + 1 .. Len(q) PROVE r[i + 1] = tail[i - p]
  <2>1. i + 1 \in 1 .. Len(q) + 1 /\ ~(i + 1 <= p + 1) /\ (i + 1) - (p + 1) = i - p
    BY <1>1, <1>5, SMT
  <2> QED BY <1>10, <2>1
<1>13. ASSUME NEW i \in p + 2 .. Len(q) PROVE r[i + 1] = q[i]
  <2>1. i \in p + 1 .. Len(q) /\ i - p \in 2 .. Len(q) - p /\ p + (i - p) = i
    BY <1>1, <1>5, SMT
  <2> QED BY <1>8, <1>12, <2>1
<1>14. ASSUME p < Len(q)
       PROVE  r[p + 2].c_arg = q[p + 1].c_arg /\ r[p + 2].c_time = q[p + 1].c_time - (t - Lead(q, p))
  <2>1. p + 1 \in p + 1 .. Len(q) /\ (p + 1) + 1 = p + 2 /\ (p + 1) - p = 1
    BY <1>1, <1>5, <1>14, SMT
  <2> QED BY <1>6, <1>8, <1>12, <1>14, <2>1
<1>15. ASSUME NEW i \in p + 1 .. Len(q) PROVE r[i + 1].c_arg = q[i].c_arg
  <2>1. (i = p + 1 /\ p < Len(q) /\ i + 1 = p + 2) \/ i \in p + 2 .. Len(q)
    BY <1>1, <1>5, SMT
  <2> QED BY <1>13, <1>14, <2>1
<1>16. r[p + 1] = [c_arg |-> a, c_time |-> t - Lead(q, p)]
  BY <1>11 DEF new
<1> QED BY <1>3, <1>5, <1>10, <1>11, <1>13, <1>14, <1>15, <1>16 DEF r, h, t

(* The new call gets its deadline, the others keep theirs. *)
THEOREM TimeoutOfQueue ==
  ASSUME NEW q, Proper(q), NEW a \in Procs, NEW ticks \in Int,
         \A i \in 1 .. Len(q) : q[i].c_arg # a
  PROVE  /\ Proper(Timeout(q, a, ticks))
         /\ Left(Timeout(q, a, ticks)) = Left(q) \cup {[call |-> a, ticks |-> Delay(ticks)]}
<1> DEFINE t == Delay(ticks)
           r == Timeout(q, a, ticks)
<1>1. q \in Seq(Entries)
  BY DEF Proper
<1>2. Len(q) \in Nat
  BY <1>1, EntryType
<1>3. t \in Nat /\ t > 0
  BY SMT DEF Delay
<1>4. r \in Seq(Entries) /\ Len(r) = Len(q) + 1
  BY <1>1, TimeoutShape
<1>5. PICK p \in 0 .. Len(q) :
              /\ \A n \in 0 .. p - 1 : t - Lead(q, n) > q[n + 1].c_time
              /\ p < Len(q) => t - Lead(q, p) <= q[p + 1].c_time
              /\ \A i \in 1 .. p : r[i] = q[i]
              /\ r[p + 1] = [c_arg |-> a, c_time |-> t - Lead(q, p)]
              /\ \A i \in p + 1 .. Len(q) : r[i + 1].c_arg = q[i].c_arg
              /\ \A i \in p + 2 .. Len(q) : r[i + 1] = q[i]
              /\ p < Len(q) => r[p + 2].c_time = q[p + 1].c_time - (t - Lead(q, p))
  BY <1>1, TimeoutShape
<1> HIDE DEF t, r
<1>6. /\ \A i \in 1 .. Len(q) : q[i].c_time \in Int
      /\ \A i \in 1 .. Len(r) : r[i].c_time \in Int
      /\ \A i \in 0 .. Len(q) : Lead(q, i) \in Nat
      /\ \A i \in 0 .. Len(r) : Lead(r, i) \in Nat
      /\ DOMAIN q = 1 .. Len(q) /\ DOMAIN r = 1 .. Len(r)
  BY <1>1, <1>4, EntryType, LeadStep
<1> DEFINE c == t - Lead(q, p)
\* The new difference is positive: the walk went on only where time was left.
<1>7. c \in Nat /\ c > 0
  <2> DEFINE T == {n \in Nat : n <= p => t - Lead(q, n) > 0}
  <2>1. 0 \in T
    BY <1>1, <1>3, LeadStep, SMT
  <2>2. ASSUME NEW n \in T PROVE n + 1 \in T
    <3> SUFFICES ASSUME n + 1 <= p PROVE t - Lead(q, n + 1) > 0
      BY SMT
    <3>1. /\ n \in 0 .. p - 1 /\ n \in 0 .. Len(q) /\ n + 1 \in 1 .. Len(q) /\ n + 1 \in 0 .. Len(q)
          /\ (n + 1) - 1 = n /\ n <= p
      BY <1>2, SMT
    <3>2. t - Lead(q, n) > 0 /\ t - Lead(q, n) > q[n + 1].c_time
      BY <1>5, <3>1
    <3>3. Lead(q, n + 1) = Lead(q, n) + Wait(q, n + 1)
      BY <1>1, <3>1, LeadStep
    <3>4. Lead(q, n) \in Nat /\ q[n + 1].c_time \in Int
      BY <1>6, <3>1
    <3> QED BY <1>3, <3>2, <3>3, <3>4, SMT DEF Wait
  <2>3. T = Nat
    <3>1. T \subseteq Nat
      OBVIOUS
    <3> HIDE DEF T
    <3> QED BY <2>1, <2>2, <3>1, NatSetInduction
  <2>4. p \in T /\ p \in 0 .. Len(q) /\ p <= p
    BY <1>2, <2>3, SMT
  <2>5. Lead(q, p) \in Nat
    BY <1>6
  <2> QED BY <1>3, <2>4, <2>5, SMT
<1>8. ASSUME p < Len(q)
      PROVE  /\ p + 1 \in 1 .. Len(q) /\ p + 2 \in 1 .. Len(r)
             /\ q[p + 1].c_time >= c /\ q[p + 1].c_time > 0 /\ r[p + 2].c_time = q[p + 1].c_time - c
  <2>1. p + 1 \in 1 .. Len(q) /\ p + 2 \in 1 .. Len(r)
    BY <1>2, <1>4, <1>8, SMT
  <2>2. c <= q[p + 1].c_time /\ r[p + 2].c_time = q[p + 1].c_time - c /\ q[p + 1].c_time \in Int
    BY <1>5, <1>6, <1>8, <2>1
  <2> HIDE DEF c
  <2> QED BY <1>7, <2>1, <2>2, SMT
<1>9. p + 1 \in 1 .. Len(r) /\ r[p + 1].c_arg = a /\ r[p + 1].c_time = c /\ p \in Nat
  <2>1. p + 1 \in 1 .. Len(r) /\ p \in Nat
    BY <1>2, <1>4, SMT
  <2> QED BY <1>5, <2>1, SMT
<1> HIDE DEF c
\* Nothing is due from the new entry on.
<1>10. ASSUME NEW i \in 1 .. Len(r), p < i PROVE ~AllDue(r, i)
  <2>1. p + 1 \in 1 .. i
    BY <1>2, <1>4, <1>10, SMT
  <2> QED BY <1>7, <1>9, <2>1, SMT DEF AllDue
<1>11. ASSUME NEW i \in 1 .. Len(q), p < i PROVE ~AllDue(q, i)
  <2>1. p + 1 \in 1 .. i /\ p < Len(q) /\ p + 1 \in 1 .. Len(q)
    BY <1>2, <1>11, SMT
  <2>2. q[p + 1].c_time > 0 /\ q[p + 1].c_time \in Int
    BY <1>6, <1>8, <2>1
  <2> QED BY <2>1, <2>2, SMT DEF AllDue
<1>12. ASSUME NEW i \in 1 .. p
       PROVE  i \in 1 .. Len(q) /\ i \in 1 .. Len(r) /\ r[i] = q[i] /\ (AllDue(r, i) <=> AllDue(q, i))
  <2>1. i \in 1 .. Len(q) /\ i \in 1 .. Len(r) /\ \A k \in 1 .. i : k \in 1 .. p
    BY <1>2, <1>4, SMT
  <2>2. \A k \in 1 .. i : r[k] = q[k]
    BY <1>5, <2>1
  <2> QED BY <1>5, <2>1, <2>2 DEF AllDue
<1>13. ASSUME NEW k \in 0 .. p PROVE Lead(r, k) = Lead(q, k)
  <2>1. SameWaits(q, 0, r, 0, k)
    <3> SUFFICES ASSUME NEW j \in 1 .. k PROVE Wait(q, 0 + j) = Wait(r, 0 + j)
      BY DEF SameWaits
    <3>1. 0 + j = j /\ j \in 1 .. p
      BY <1>2, SMT
    <3> QED BY <1>5, <3>1 DEF Wait
  <2>2. k \in Nat /\ 0 \in Nat /\ 0 + k <= Len(q) /\ 0 + k <= Len(r) /\ 0 + k = k /\ k \in 0 .. Len(q) /\ k \in 0 .. Len(r)
    BY <1>2, <1>4, SMT
  <2>3. Span(q, 0, k) = Span(r, 0, k)
    BY <1>1, <1>4, <2>1, <2>2, LeadAligned, SMT
  <2>4. Lead(q, k) \in Nat /\ Lead(r, k) \in Nat /\ Lead(q, 0) = 0 /\ Lead(r, 0) = 0
    BY <1>1, <1>4, <1>6, <2>2, LeadStep
  <2> QED BY <2>2, <2>3, <2>4, SMT DEF Span
<1>14. Lead(r, p + 1) = t
  <2>1. (p + 1) - 1 = p /\ p \in 0 .. p /\ p \in 0 .. Len(q)
    BY <1>2, SMT
  <2>2. Lead(r, p + 1) = Lead(q, p) + Wait(r, p + 1)
    BY <1>4, <1>9, <1>13, <2>1, LeadStep
  <2>3. Wait(r, p + 1) = c
    BY <1>7, <1>9 DEF Wait
  <2>4. Lead(q, p) \in Nat
    BY <1>6, <2>1
  <2> QED BY <1>3, <2>2, <2>3, <2>4, SMT DEF c
<1>15. ASSUME NEW i \in p + 1 .. Len(q) PROVE Lead(r, i + 1) = Lead(q, i)
  <2>1. /\ p < Len(q) /\ p + 1 \in 1 .. Len(q) /\ (p + 1) - 1 = p /\ p \in 0 .. p /\ p \in 0 .. Len(q)
        /\ p + 2 \in 1 .. Len(r) /\ (p + 2) - 1 = p + 1 /\ p + 1 \in 0 .. Len(q) /\ p + 2 \in 0 .. Len(r)
        /\ i + 1 \in 0 .. Len(r) /\ i \in 0 .. Len(q)
    BY <1>2, <1>4, SMT
  <2>2. Lead(q, p + 1) = Lead(q, p) + Wait(q, p + 1) /\ Lead(r, p + 2) = t + Wait(r, p + 2)
    BY <1>1, <1>4, <1>14, <2>1, LeadStep
  <2>3. Lead(r, p + 2) = Lead(q, p + 1)
    <3>1. Wait(q, p + 1) = q[p + 1].c_time /\ q[p + 1].c_time \in Int
      BY <1>6, <1>8, <2>1 DEF Wait
    <3>2. Wait(r, p + 2) = q[p + 1].c_time - c
      <4>1. r[p + 2].c_time = q[p + 1].c_time - c /\ q[p + 1].c_time >= c
        BY <1>8, <2>1
      <4>2. q[p + 1].c_time - c >= 0
        BY <1>7, <3>1, <4>1, SMT
      <4> QED BY <1>7, <3>1, <4>1, <4>2, SMT DEF Wait
    <3>3. Lead(q, p) \in Nat
      BY <1>6, <2>1
    <3> QED BY <1>3, <2>2, <3>1, <3>2, <3>3, SMT DEF c
  <2> DEFINE u == p + 1
             v == p + 2
             d == i - (p + 1)
  <2>4. u \in Nat /\ v \in Nat /\ d \in Nat /\ u + d = i /\ v + d = i + 1 /\ u + d <= Len(q) /\ v + d <= Len(r)
    BY <1>2, <1>4, SMT
  <2>5. SameWaits(q, u, r, v, d)
    <3> SUFFICES ASSUME NEW k \in 1 .. d PROVE Wait(q, u + k) = Wait(r, v + k)
      BY DEF SameWaits
    <3>1. u + k \in p + 2 .. Len(q) /\ (u + k) + 1 = v + k
      BY <1>2, SMT
    <3>2. r[(u + k) + 1] = q[u + k]
      BY <1>5, <3>1
    <3> HIDE DEF u, v, d
    <3> QED BY <3>1, <3>2 DEF Wait
  <2>6. Lead(q, u) \in Nat /\ Lead(r, v) \in Nat /\ Lead(q, i) \in Nat /\ Lead(r, i + 1) \in Nat /\ Lead(q, u) = Lead(r, v)
    BY <1>6, <2>1, <2>3
  <2> HIDE DEF u, v, d
  <2>7. Span(q, u, d) = Span(r, v, d)
    BY <1>1, <1>4, <2>4, <2>5, LeadAligned, SMT
  <2>8. Lead(q, i) - Lead(q, u) = Lead(r, i + 1) - Lead(r, v)
    BY <2>4, <2>7, SMTT(30) DEF Span
  <2> QED BY <2>6, <2>8, SMT
<1> DEFINE E(x, i) == [call |-> x[i].c_arg, ticks |-> Remaining(x, i)]
           up(i) == IF i <= p THEN i ELSE i + 1
<1>16. ASSUME NEW i \in 1 .. Len(q)
       PROVE  /\ up(i) \in 1 .. Len(r) /\ up(i) # p + 1
              /\ r[up(i)].c_arg = q[i].c_arg /\ Remaining(r, up(i)) = Remaining(q, i)
  <2>1. CASE i <= p
    <3>1. i \in 1 .. p /\ i \in 0 .. p /\ up(i) = i /\ i # p + 1
      BY <1>2, <2>1, SMT
    <3> HIDE DEF up
    <3> QED BY <1>1, <1>4, <1>12, <1>13, <3>1, RemainingCases, ZenonT(30)
  <2>2. CASE p < i
    <3>1. i \in p + 1 .. Len(q) /\ up(i) = i + 1 /\ i + 1 \in 1 .. Len(r) /\ p < i + 1 /\ i + 1 # p + 1
      BY <1>2, <1>4, <2>2, SMT
    <3>2. Lead(r, i + 1) = Lead(q, i) /\ r[i + 1].c_arg = q[i].c_arg
      BY <1>5, <1>15, <3>1
    <3>3. ~AllDue(q, i) /\ ~AllDue(r, i + 1)
      BY <1>10, <1>11, <2>2, <3>1
    <3> HIDE DEF up
    <3> QED BY <1>1, <1>4, <3>1, <3>2, <3>3, RemainingCases
  <2> QED BY <1>2, <2>1, <2>2, SMT
<1>17. Remaining(r, p + 1) = t
  <2>1. p < p + 1
    BY <1>9, SMT
  <2> QED BY <1>4, <1>9, <1>10, <1>14, <2>1, RemainingCases
<1>18. ASSUME NEW i \in 1 .. Len(r), i # p + 1 PROVE \E k \in 1 .. Len(q) : i = up(k)
  <2>1. CASE i <= p
    <3>1. i \in 1 .. Len(q) /\ i = up(i)
      BY <1>2, <1>4, <2>1, SMT
    <3> QED BY <3>1
  <2>2. CASE ~(i <= p)
    <3>1. i - 1 \in 1 .. Len(q) /\ i = up(i - 1)
      BY <1>2, <1>4, <1>18, <2>2, SMT
    <3> QED BY <3>1
  <2> QED BY <2>1, <2>2
<1>19. Left(r) = Left(q) \cup {[call |-> a, ticks |-> t]}
  <2> HIDE DEF up
  <2>1. ASSUME NEW e \in Left(r) PROVE e \in Left(q) \cup {[call |-> a, ticks |-> t]}
    <3>1. PICK i \in 1 .. Len(r) : e = E(r, i)
      BY <1>6 DEF Left
    <3>2. CASE i = p + 1
      BY <1>9, <1>17, <3>1, <3>2
    <3>3. CASE i # p + 1
      <4>1. PICK k \in 1 .. Len(q) : i = up(k)
        BY <1>18, <3>3
      <4>2. e = E(q, k)
        BY <1>16, <3>1, <4>1
      <4> QED BY <1>6, <4>2 DEF Left
    <3> QED BY <3>2, <3>3
  <2>2. ASSUME NEW e \in Left(q) PROVE e \in Left(r)
    <3>1. PICK i \in 1 .. Len(q) : e = E(q, i)
      BY <1>6 DEF Left
    <3>2. e = E(r, up(i)) /\ up(i) \in DOMAIN r
      BY <1>6, <1>16, <3>1
    <3> QED BY <3>2 DEF Left
  <2>3. [call |-> a, ticks |-> t] \in Left(r)
    <3>1. [call |-> a, ticks |-> t] = E(r, p + 1) /\ p + 1 \in DOMAIN r
      BY <1>6, <1>9, <1>17
    <3> QED BY <3>1 DEF Left
  <2> QED BY <2>1, <2>2, <2>3
<1>20. Proper(r)
  <2>1. ASSUME NEW i \in 1 .. Len(r), NEW j \in 1 .. Len(r), r[i].c_arg = r[j].c_arg PROVE i = j
    <3> HIDE DEF up
    <3>1. \A k \in 1 .. Len(r) : k # p + 1 => r[k].c_arg # a /\ \E m \in 1 .. Len(q) : k = up(m) /\ r[k].c_arg = q[m].c_arg
      BY <1>16, <1>18, SMT
    <3>2. CASE i = p + 1 \/ j = p + 1
      BY <1>9, <2>1, <3>1, <3>2
    <3>3. CASE i # p + 1 /\ j # p + 1
      <4>1. PICK m \in 1 .. Len(q) : i = up(m) /\ r[i].c_arg = q[m].c_arg
        BY <3>1, <3>3
      <4>2. PICK n \in 1 .. Len(q) : j = up(n) /\ r[j].c_arg = q[n].c_arg
        BY <3>1, <3>3
      <4>3. m = n
        BY <2>1, <4>1, <4>2 DEF Proper
      <4> QED BY <4>1, <4>2, <4>3
    <3> QED BY <3>2, <3>3
  <2>2. ASSUME NEW i \in 1 .. Len(r), r[i].c_time < 0 PROVE AllDue(r, i)
    <3>1. CASE i <= p
      <4>1. i \in 1 .. p
        BY <1>2, <1>4, <3>1, SMT
      <4> QED BY <1>12, <2>2, <4>1 DEF Proper
    <3>2. CASE i = p + 1
      BY <1>7, <1>9, <2>2, <3>2, SMT
    <3>3. CASE i = p + 2
      <4>1. p < Len(q)
        BY <1>2, <1>4, <3>3, SMT
      <4> QED BY <1>6, <1>7, <1>8, <2>2, <3>3, <4>1, SMT
    <3>4. CASE i > p + 2
      <4>1. i - 1 \in p + 2 .. Len(q) /\ (i - 1) + 1 = i /\ i - 1 \in 1 .. Len(q) /\ p < i - 1
        BY <1>2, <1>4, <3>4, SMT
      <4>2. r[i] = q[i - 1]
        BY <1>5, <4>1
      <4> QED BY <1>11, <2>2, <4>1, <4>2 DEF Proper
    <3> QED BY <1>9, <3>1, <3>2, <3>3, <3>4, SMT
  <2>3. ASSUME NEW i \in 1 .. Len(r), NEW j \in 1 .. Len(r), i <= j, AllDue(r, j)
        PROVE  r[i].c_time <= r[j].c_time
    <3>1. j <= p
      BY <1>4, <1>2, <1>10, <2>3, SMT
    <3>2. i \in 1 .. p /\ j \in 1 .. p
      BY <1>2, <1>4, <2>3, <3>1, SMT
    <3> QED BY <1>12, <2>3, <3>2 DEF Proper
  <2> QED BY <1>4, <2>1, <2>2, <2>3 DEF Proper
<1> QED BY <1>19, <1>20 DEF r, t

-----------------------------------------------------------------------------
(* Sleeping processes.                                                     *)

(* A process that is not in tsleep has nothing of a sleep left. *)
AwakeInv(p) ==
  frame[p].at \in {"user", "userret", "dead"} =>
    /\ frame[p] = [Idle EXCEPT !.at = frame[p].at]
    /\ p_wchan[p] = NoChan /\ ~p_timeout[p] /\ ~woken[p] /\ age[p] = 0

(* Where a process can be in each of its states. *)
StatInv(p) ==
  /\ frame[p].at = "user" => p_stat[p] = "SRUN"
  /\ frame[p].at = "dead" <=> p_stat[p] = "SZOMB"
  /\ p_stat[p] = "SSLEEP" => p_wchan[p] # NoChan
  /\ p_wchan[p] # NoChan => /\ frame[p].at \in {"cursig", "resume"} /\ frame[p].sig = "none"
                            /\ p_stat[p] \in {"SSLEEP", "SSTOP"}
                            /\ ~p_timeout[p] /\ ~woken[p]
                            /\ p_sintr[p] = frame[p].catch
                            /\ p_stat[p] = "SSTOP" => p_sintr[p]

(* What the locals of tsleep say at each of its three halts. *)
FrameInv(p) ==
  /\ frame[p].at = "cursig" => frame[p].catch /\ frame[p].sig = "none"
  /\ frame[p].at = "cursig2" => /\ frame[p].catch /\ frame[p].sig = "none" /\ ~p_timeout[p]
                                /\ woken[p] \/ p_sigcatch[p]
  /\ frame[p].sig # "none" => /\ frame[p].at = "resume" /\ frame[p].catch
                              /\ p_stat[p] = "SRUN" /\ p_siglist[p] # {}
  /\ p_timeout[p] => /\ frame[p].at \in {"cursig", "resume"} /\ frame[p].timo # 0
                     /\ age[p] = frame[p].timo /\ ~woken[p]

(* Why a process that tsleep queued is not on a queue: a wakeup, its       *)
(* timeout, a signal, or a SIGCONT that it catches.                        *)
ReasonInv(p) ==
  frame[p].at \in {"cursig", "resume"} /\ p_wchan[p] = NoChan =>
    \/ woken[p] \/ p_timeout[p] \/ p_sigcatch[p]
    \/ frame[p].sig # "none"
    \/ frame[p].catch /\ p_siglist[p] \cap {"INT", "KILL"} # {}

(* A pending endtsleep belongs to the sleep that its process is in, and    *)
(* that sleep is as old as the timeout says.                               *)
TimerInv(e) ==
  LET f == frame[e.call] IN
  /\ e.call \in Procs /\ e.ticks \in Int
  /\ f.at \in {"cursig", "resume"} /\ f.timo # 0 /\ ~p_timeout[e.call]
  /\ e.ticks <= f.timo
  /\ age[e.call] = IF e.ticks > 0 THEN f.timo - e.ticks ELSE f.timo

ProcInv(p) == AwakeInv(p) /\ StatInv(p) /\ FrameInv(p) /\ ReasonInv(p)

IInv ==
  /\ TypeOK
  /\ \A p \in Procs : ProcInv(p)
  /\ Proper(calltodo)
  /\ \A e \in Left(calltodo) : TimerInv(e)

-----------------------------------------------------------------------------
SigSet == {"INT", "KILL", "STOP", "CONT"}

(* What issignal says of a list of pending signals. *)
LEMMA CursigFacts ==
  ASSUME NEW p \in Procs, NEW list \in SUBSET SigSet, p_sigcatch \in [Procs -> BOOLEAN]
  PROVE  LET c == Cursig(p, list) IN
         /\ c.stops \in BOOLEAN /\ c.sig \in {"none", "INT", "KILL", "CONT"} /\ c.left \in SUBSET SigSet
         /\ c.stops => /\ c.sig = "none" /\ c.left = list
                       /\ "STOP" \in list /\ list \cap {"INT", "KILL"} = {}
         /\ list \cap {"INT", "KILL"} # {} => c.sig # "none"
         /\ c.sig # "none" => c.left = list /\ list # {}
BY DEF Cursig, SigSet

(* A step that changes nothing of q keeps the invariant of q. *)
SameProc(q) ==
  /\ p_stat'[q] = p_stat[q] /\ p_wchan'[q] = p_wchan[q] /\ p_siglist'[q] = p_siglist[q]
  /\ p_sigcatch'[q] = p_sigcatch[q] /\ p_sintr'[q] = p_sintr[q] /\ p_timeout'[q] = p_timeout[q]
  /\ frame'[q] = frame[q] /\ woken'[q] = woken[q] /\ age'[q] = age[q]

(* ... and so the invariant of that process. *)
LEMMA SameProcInv ==
  ASSUME NEW q \in Procs, ProcInv(q), SameProc(q)
  PROVE  ProcInv(q)'
BY DEF ProcInv, SameProc, AwakeInv, StatInv, FrameInv, ReasonInv, Idle

(* ... and of its timeout. *)
LEMMA SameTimerInv ==
  ASSUME NEW e, TimerInv(e), SameProc(e.call)
  PROVE  TimerInv(e)'
BY DEF TimerInv, SameProc

(* A process has an endtsleep in the queue exactly when it has a deadline. *)
LEMMA ArmedIsLeft ==
  ASSUME NEW p
  PROVE  Armed(p) <=> \E e \in Left(calltodo) : e.call = p
<1>1. ASSUME NEW i \in DOMAIN calltodo, calltodo[i].c_arg = p
      PROVE  \E e \in Left(calltodo) : e.call = p
  <2> DEFINE e == [call |-> calltodo[i].c_arg, ticks |-> Remaining(calltodo, i)]
  <2>1. e \in Left(calltodo) /\ e.call = p
    BY <1>1 DEF Left
  <2> QED BY <2>1
<1>2. ASSUME NEW e \in Left(calltodo), e.call = p
      PROVE  \E i \in DOMAIN calltodo : calltodo[i].c_arg = p
  <2>1. PICK i \in DOMAIN calltodo : e = [call |-> calltodo[i].c_arg, ticks |-> Remaining(calltodo, i)]
    BY DEF Left
  <2> QED BY <1>2, <2>1
<1> QED BY <1>1, <1>2 DEF Armed

(* The types of the arguments of tsleep. *)
LEMMA TimoType ==
  /\ \A x \in Timos \cup {0} : x \in Nat
  /\ \A s \in Sleeps : s.chan \in Chans /\ s.timo \in Timos
  /\ NoChan \notin Chans
BY SleepsAssumption, SMT DEF Timos, Chans

(* The invariant holds when the system starts. *)
LEMMA InitInv == Init => IInv
<1> SUFFICES ASSUME Init PROVE IInv
  OBVIOUS
<1>1. TypeOK
  <2>1. calltodo \in Seq(Entries)
    BY SMT DEF Init
  <2>2. \A p \in Procs : frame[p] = Idle
    BY DEF Init
  <2> QED BY <2>1 DEF Init, TypeOK, Idle
<1>2. ASSUME NEW p \in Procs PROVE ProcInv(p)
  BY DEF Init, ProcInv, AwakeInv, StatInv, FrameInv, ReasonInv, Idle
<1>3. Proper(calltodo) /\ Left(calltodo) = {}
  <2>1. calltodo = <<>> /\ calltodo \in Seq(Entries) /\ Len(calltodo) = 0 /\ DOMAIN calltodo = {}
    BY SMT DEF Init
  <2> QED BY <2>1, SMT DEF Proper, Left
<1> QED BY <1>1, <1>2, <1>3 DEF IInv

-----------------------------------------------------------------------------
(* tsleep goes to sleep, stops in issignal, or runs on. *)
LEMMA GoToSleepKeeps ==
  ASSUME IInv, NEW p \in Procs, NEW f, NEW list \in SUBSET SigSet, NEW wchan \in Chans \cup {NoChan},
         GoToSleep(p, f, list, wchan),
         UNCHANGED <<p_sigcatch, p_timeout, woken, age>>,
         f \in [at : {"user", "cursig"}, catch : BOOLEAN, timo : Timos \cup {0}, sig : {"none"}],
         list \cap {"INT", "KILL"} = p_siglist[p] \cap {"INT", "KILL"},
         \/ wchan # NoChan /\ ~p_timeout[p] /\ ~woken[p]
         \/ /\ wchan = NoChan /\ wchan = p_wchan[p] /\ f.catch /\ f = frame[p]
            /\ "STOP" \notin list
            /\ frame[p].at = "cursig"
  PROVE  /\ p_stat' \in [Procs -> {"SRUN", "SSLEEP", "SSTOP", "SZOMB"}]
         /\ p_wchan' \in [Procs -> Chans \cup {NoChan}]
         /\ p_siglist' \in [Procs -> SUBSET SigSet]
         /\ p_sintr' \in [Procs -> BOOLEAN]
         /\ frame' \in [Procs -> [at : {"user", "cursig", "resume", "cursig2", "userret", "dead"},
                                  catch : BOOLEAN, timo : Timos \cup {0},
                                  sig : {"none", "INT", "KILL", "CONT"}]]
         /\ \A q \in Procs : q # p => SameProc(q)
         /\ frame'[p].at \in {"cursig", "resume"} /\ frame'[p].timo = f.timo
         /\ ProcInv(p)'
<1> DEFINE c == IF f.catch THEN Cursig(p, list) ELSE [stops |-> FALSE, sig |-> "none", left |-> list]
           sleeps == ~c.stops /\ c.sig = "none" /\ wchan # NoChan
           g == [f EXCEPT !.at = IF c.stops THEN "cursig" ELSE "resume", !.sig = c.sig,
                          !.catch = @ /\ (c.stops \/ sleeps \/ c.sig # "none")]
<1>1. TypeOK /\ ProcInv(p)
  BY DEF IInv
<1>2. /\ c.stops \in BOOLEAN /\ c.sig \in {"none", "INT", "KILL", "CONT"} /\ c.left \in SUBSET SigSet
      /\ c.stops => /\ c.sig = "none" /\ c.left = list
                    /\ "STOP" \in list /\ list \cap {"INT", "KILL"} = {}
      /\ f.catch /\ list \cap {"INT", "KILL"} # {} => c.sig # "none"
      /\ c.sig # "none" => c.left = list /\ list # {} /\ f.catch
      /\ c.stops => f.catch
  <2>1. CASE f.catch
    <3>1. c = Cursig(p, list)
      BY <2>1
    <3>2. p_sigcatch \in [Procs -> BOOLEAN]
      BY <1>1 DEF TypeOK
    <3> HIDE DEF c
    <3> QED BY <2>1, <3>1, <3>2, CursigFacts, SMT
  <2>2. CASE ~f.catch
    BY <2>2
  <2> QED BY <2>1, <2>2
<1>3. /\ p_siglist' = [p_siglist EXCEPT ![p] = c.left]
      /\ p_sintr' = [p_sintr EXCEPT ![p] = f.catch]
      /\ p_stat' = [p_stat EXCEPT ![p] = IF c.stops THEN "SSTOP" ELSE IF sleeps THEN "SSLEEP" ELSE "SRUN"]
      /\ p_wchan' = [p_wchan EXCEPT ![p] = IF c.stops \/ sleeps THEN wchan ELSE NoChan]
      /\ frame' = [frame EXCEPT ![p] = g]
  BY DEF GoToSleep
<1> HIDE DEF c
<1>4. /\ g.at = (IF c.stops THEN "cursig" ELSE "resume") /\ g.sig = c.sig /\ g.timo = f.timo
      /\ g.catch = (f.catch /\ (c.stops \/ sleeps \/ c.sig # "none"))
      /\ g \in [at : {"cursig", "resume"}, catch : BOOLEAN, timo : Timos \cup {0},
                sig : {"none", "INT", "KILL", "CONT"}]
  BY <1>2
<1> HIDE DEF g
<1>5. /\ p_stat' \in [Procs -> {"SRUN", "SSLEEP", "SSTOP", "SZOMB"}]
      /\ p_wchan' \in [Procs -> Chans \cup {NoChan}]
      /\ p_siglist' \in [Procs -> SUBSET SigSet]
      /\ p_sintr' \in [Procs -> BOOLEAN]
  BY <1>1, <1>2, <1>3 DEF TypeOK, SigSet
<1>6. frame' \in [Procs -> [at : {"user", "cursig", "resume", "cursig2", "userret", "dead"},
                            catch : BOOLEAN, timo : Timos \cup {0},
                            sig : {"none", "INT", "KILL", "CONT"}]]
  BY <1>1, <1>3, <1>4 DEF TypeOK
<1>7. ASSUME NEW q \in Procs, q # p PROVE SameProc(q)
  BY <1>1, <1>3, <1>7 DEF SameProc, TypeOK
<1>8. /\ p_siglist'[p] = c.left /\ p_sintr'[p] = f.catch
      /\ p_stat'[p] = (IF c.stops THEN "SSTOP" ELSE IF sleeps THEN "SSLEEP" ELSE "SRUN")
      /\ p_wchan'[p] = (IF c.stops \/ sleeps THEN wchan ELSE NoChan)
      /\ frame'[p] = g
      /\ p_sigcatch' = p_sigcatch /\ p_timeout' = p_timeout /\ woken' = woken /\ age' = age
  BY <1>1, <1>3 DEF TypeOK
<1>9. frame'[p].at \in {"cursig", "resume"} /\ frame'[p].timo = f.timo
  BY <1>4, <1>8
<1>10. /\ frame[p].at = "cursig" /\ wchan = NoChan => ReasonInv(p) /\ FrameInv(p) /\ frame[p].sig = "none" /\ ~c.stops
       /\ wchan # NoChan => ~p_timeout[p] /\ ~woken[p]
  BY <1>1, <1>2 DEF ProcInv, FrameInv
<1>11. AwakeInv(p)'
  BY <1>9 DEF AwakeInv
<1>12. StatInv(p)'
  <2>1. CASE c.stops
    BY <1>2, <1>4, <1>8, <1>10, <2>1 DEF StatInv
  <2>2. CASE ~c.stops
    BY <1>2, <1>4, <1>8, <1>10, <2>2 DEF StatInv
  <2> QED BY <2>1, <2>2
<1>13. FrameInv(p)'
  BY <1>2, <1>4, <1>8, <1>10, SMT DEF FrameInv
<1>14. ReasonInv(p)'
  <2>1. CASE wchan # NoChan
    BY <1>4, <1>8, <2>1 DEF ReasonInv
  <2>2. CASE wchan = NoChan
    <3>1. woken[p] \/ p_timeout[p] \/ p_sigcatch[p] \/ c.sig # "none"
      BY <1>2, <1>10, <2>2 DEF ReasonInv
    <3> QED BY <1>4, <1>8, <3>1 DEF ReasonInv
  <2> QED BY <2>1, <2>2
<1> QED BY <1>5, <1>6, <1>7, <1>9, <1>11, <1>12, <1>13, <1>14 DEF ProcInv

(* What tsleep keeps on the stack of a process. *)
FrameSet == [at : {"user", "cursig", "resume", "cursig2", "userret", "dead"},
             catch : BOOLEAN, timo : Timos \cup {0}, sig : {"none", "INT", "KILL", "CONT"}]

(* tsleep starts a timeout only for a process that has none. *)
LEMMA TsleepKeeps ==
  ASSUME IInv, NEW s \in Sleeps, TsleepCall(s.proc, s.chan, s.catch, s.timo)
  PROVE  /\ IInv'
         /\ Left(calltodo') = Left(calltodo) \/ Left(calltodo') = Left(calltodo) \cup {[call |-> s.proc, ticks |-> s.timo]}
         /\ s.timo # 0 => s.timo > 0 /\ [call |-> s.proc, ticks |-> s.timo] \in Left(calltodo')
<1> DEFINE p == s.proc
           f == [at |-> "user", catch |-> s.catch, timo |-> s.timo, sig |-> "none"]
           e0 == [call |-> p, ticks |-> s.timo]
<1>1. p \in Procs /\ s.chan \in Chans /\ s.chan # NoChan /\ s.catch \in BOOLEAN /\ s.timo \in Nat /\ s.timo \in Timos
  BY SleepsAssumption, TimoType
<1>2. TypeOK /\ ProcInv(p) /\ frame[p].at = "user" /\ p_siglist[p] \in SUBSET SigSet
  BY <1>1 DEF IInv, TsleepCall, TypeOK, SigSet
<1>3. AwakeInv(p)
  BY <1>2 DEF ProcInv
<1>4. ~p_timeout[p] /\ ~woken[p] /\ age[p] = 0
  BY <1>2, <1>3 DEF AwakeInv
<1>5. /\ GoToSleep(p, f, p_siglist[p], s.chan)
      /\ UNCHANGED <<p_sigcatch, p_timeout, woken, age>>
      /\ ret' = [ret EXCEPT ![p] = "none"]
      /\ calltodo' = IF s.timo # 0 THEN Timeout(calltodo, p, s.timo) ELSE calltodo
  BY DEF TsleepCall, history
<1>6. f \in [at : {"user", "cursig"}, catch : BOOLEAN, timo : Timos \cup {0}, sig : {"none"}] /\ f.timo = s.timo
  BY <1>1
<1> HIDE DEF f, p
<1>7. /\ p_stat' \in [Procs -> {"SRUN", "SSLEEP", "SSTOP", "SZOMB"}]
      /\ p_wchan' \in [Procs -> Chans \cup {NoChan}]
      /\ p_siglist' \in [Procs -> SUBSET SigSet]
      /\ p_sintr' \in [Procs -> BOOLEAN]
      /\ frame' \in [Procs -> FrameSet]
      /\ \A q \in Procs : q # p => SameProc(q)
      /\ frame'[p].at \in {"cursig", "resume"} /\ frame'[p].timo = f.timo
      /\ ProcInv(p)'
  BY <1>1, <1>2, <1>4, <1>5, <1>6, GoToSleepKeeps DEF FrameSet
<1>8. ASSUME NEW q \in Procs PROVE ProcInv(q)'
  <2>1. CASE q = p
    BY <1>7, <2>1
  <2>2. CASE q # p
    BY <1>7, <2>2, SameProcInv DEF IInv
  <2> QED BY <2>1, <2>2
\* The process has no timeout yet: every pending one is of a sleeper.
<1>9. ASSUME NEW e \in Left(calltodo) PROVE e.call \in Procs /\ e.call # p
  BY <1>2 DEF IInv, TimerInv
<1>10. Proper(calltodo) /\ calltodo \in Seq(Entries) /\ \A i \in 1 .. Len(calltodo) : calltodo[i].c_arg # p
  <2>1. Proper(calltodo) /\ calltodo \in Seq(Entries)
    BY DEF IInv, Proper
  <2>2. ~Armed(p)
    BY <1>9, ArmedIsLeft
  <2> QED BY <2>1, <2>2, EntryType DEF Armed
<1>11. /\ Proper(calltodo')
       /\ s.timo # 0 => Left(calltodo') = Left(calltodo) \cup {e0} /\ s.timo > 0
       /\ s.timo = 0 => Left(calltodo') = Left(calltodo)
  <2>1. CASE s.timo = 0
    BY <1>5, <1>10, <2>1
  <2>2. CASE s.timo # 0
    <3>1. calltodo' = Timeout(calltodo, p, s.timo) /\ s.timo \in Int /\ Delay(s.timo) = s.timo /\ s.timo > 0
      BY <1>1, <1>5, <2>2, SMT DEF Delay
    <3>2. /\ Proper(Timeout(calltodo, p, s.timo))
          /\ Left(Timeout(calltodo, p, s.timo)) = Left(calltodo) \cup {[call |-> p, ticks |-> Delay(s.timo)]}
      BY <1>1, <1>10, <3>1, TimeoutOfQueue
    <3> QED BY <2>2, <3>1, <3>2
  <2> QED BY <2>1, <2>2
<1>12. ASSUME NEW e \in Left(calltodo') PROVE TimerInv(e)'
  <2>1. CASE e \in Left(calltodo)
    <3>1. TimerInv(e) /\ SameProc(e.call)
      BY <1>7, <1>9, <2>1 DEF IInv
    <3> QED BY <3>1, SameTimerInv
  <2>2. CASE e = e0 /\ s.timo # 0
    <3>1. e.call = p /\ e.ticks = s.timo
      BY <2>2
    <3>2. frame'[p].at \in {"cursig", "resume"} /\ frame'[p].timo = s.timo /\ ~p_timeout'[p] /\ age'[p] = 0
      BY <1>4, <1>5, <1>6, <1>7
    <3> QED BY <1>1, <1>11, <2>2, <3>1, <3>2, SMT DEF TimerInv
  <2> QED BY <1>11, <2>1, <2>2
<1>13. TypeOK'
  <2>1. calltodo' \in Seq(Entries)
    BY <1>11 DEF Proper
  <2> QED BY <1>2, <1>5, <1>7, <2>1 DEF TypeOK, FrameSet, SigSet
<1>14. IInv'
  BY <1>8, <1>11, <1>12, <1>13 DEF IInv
<1> QED BY <1>11, <1>14 DEF p

(* A step of one process that leaves the queue of timeouts alone. *)
LEMMA OneProcKeeps ==
  ASSUME IInv, TypeOK', NEW p \in Procs, calltodo' = calltodo,
         \A q \in Procs : q # p => SameProc(q),
         ProcInv(p)',
         \A e \in Left(calltodo) : e.call = p => TimerInv(e)'
  PROVE  IInv'
<1>1. ASSUME NEW q \in Procs PROVE ProcInv(q)'
  BY SameProcInv DEF IInv
<1>2. ASSUME NEW e \in Left(calltodo) PROVE TimerInv(e)'
  <2>1. TimerInv(e) /\ e.call \in Procs
    BY DEF IInv, TimerInv
  <2> QED BY <2>1, SameTimerInv
<1> QED BY <1>1, <1>2 DEF IInv

(* Back from the stop in issignal before the sleep. *)
LEMMA CursigReturnsKeeps ==
  ASSUME IInv, NEW p \in Procs, CursigReturns(p)
  PROVE  IInv'
<1> DEFINE list == p_siglist[p] \ {"STOP"}
<1>1. TypeOK /\ ProcInv(p) /\ frame[p].at = "cursig" /\ p_stat[p] = "SRUN"
  BY DEF IInv, CursigReturns
<1>2. /\ list \in SUBSET SigSet /\ list \cap {"INT", "KILL"} = p_siglist[p] \cap {"INT", "KILL"}
      /\ "STOP" \notin list /\ p_wchan[p] \in Chans \cup {NoChan}
  BY <1>1 DEF TypeOK, SigSet
<1>3. frame[p].catch /\ frame[p].sig = "none" /\ p_wchan[p] = NoChan
  BY <1>1 DEF ProcInv, FrameInv, StatInv
<1>4. frame[p] \in [at : {"user", "cursig"}, catch : BOOLEAN, timo : Timos \cup {0}, sig : {"none"}]
  BY <1>1, <1>3 DEF TypeOK
<1>5. /\ GoToSleep(p, frame[p], list, p_wchan[p])
      /\ UNCHANGED <<p_sigcatch, p_timeout, woken, age>> /\ ret' = ret /\ calltodo' = calltodo
  BY DEF CursigReturns, history
<1> HIDE DEF list
<1>7. /\ p_stat' \in [Procs -> {"SRUN", "SSLEEP", "SSTOP", "SZOMB"}]
      /\ p_wchan' \in [Procs -> Chans \cup {NoChan}]
      /\ p_siglist' \in [Procs -> SUBSET SigSet]
      /\ p_sintr' \in [Procs -> BOOLEAN]
      /\ frame' \in [Procs -> FrameSet]
      /\ \A q \in Procs : q # p => SameProc(q)
      /\ frame'[p].at \in {"cursig", "resume"} /\ frame'[p].timo = frame[p].timo
      /\ ProcInv(p)'
  BY <1>1, <1>2, <1>3, <1>4, <1>5, GoToSleepKeeps DEF FrameSet
<1>8. TypeOK'
  BY <1>1, <1>5, <1>7 DEF TypeOK, FrameSet, SigSet
<1>9. ASSUME NEW e \in Left(calltodo), e.call = p PROVE TimerInv(e)'
  <2>1. TimerInv(e)
    BY DEF IInv
  <2> QED BY <1>5, <1>7, <1>9, <2>1 DEF TimerInv
<1> QED BY <1>5, <1>7, <1>8, <1>9, OneProcKeeps

(* What tsleep may say when it returns. *)
TrueReturn(p) ==
  ret[p] = "none" =>
       CASE ret'[p] = "0"           -> woken[p] \/ p_sigcatch[p]
         [] ret'[p] = "EWOULDBLOCK" -> frame[p].timo # 0 /\ age[p] = frame[p].timo /\ ~woken[p]
         [] ret'[p] = "EINTR"       -> frame[p].catch /\ p_siglist'[p] # {}
         [] OTHER                   -> TRUE

(* A step that returns from no tsleep says nothing wrong. *)
LEMMA SameReturn ==
  ASSUME NEW p, ret'[p] = ret[p] \/ ret'[p] = "none"
  PROVE  TrueReturn(p)
BY DEF TrueReturn

(* tsleep returns. *)
LEMMA ReturnsKeeps ==
  ASSUME TypeOK, NEW p \in Procs, NEW v \in {"0", "EWOULDBLOCK", "EINTR"}, Returns(p, v),
         p_stat'[p] = "SRUN", p_wchan'[p] = NoChan, ~p_timeout'[p]
  PROVE  /\ frame' \in [Procs -> FrameSet]
         /\ ret' \in [Procs -> {"none", "0", "EWOULDBLOCK", "EINTR"}]
         /\ woken' \in [Procs -> BOOLEAN] /\ age' \in [Procs -> Nat]
         /\ \A q \in Procs : q # p => /\ frame'[q] = frame[q] /\ woken'[q] = woken[q]
                                      /\ age'[q] = age[q] /\ ret'[q] = ret[q]
         /\ ret'[p] = v
         /\ frame'[p].at = "user"
         /\ ProcInv(p)'
<1>1. Idle \in FrameSet /\ Idle.at = "user" /\ Idle.sig = "none" /\ Idle = [Idle EXCEPT !.at = "user"]
  BY SMT DEF Idle, FrameSet
<1>2. frame'[p] = Idle /\ ret'[p] = v /\ ~woken'[p] /\ age'[p] = 0
  BY DEF Returns, TypeOK
<1>3. /\ frame' \in [Procs -> FrameSet]
      /\ ret' \in [Procs -> {"none", "0", "EWOULDBLOCK", "EINTR"}]
      /\ woken' \in [Procs -> BOOLEAN] /\ age' \in [Procs -> Nat]
      /\ \A q \in Procs : q # p => /\ frame'[q] = frame[q] /\ woken'[q] = woken[q]
                                   /\ age'[q] = age[q] /\ ret'[q] = ret[q]
  BY <1>1 DEF Returns, TypeOK, FrameSet
<1>4. ProcInv(p)'
  BY <1>1, <1>2 DEF ProcInv, AwakeInv, StatInv, FrameInv, ReasonInv
<1> QED BY <1>1, <1>2, <1>3, <1>4

(* The last test for a signal: tsleep stops once more or returns. *)
LEMMA LastCursigKeeps ==
  ASSUME IInv, NEW p \in Procs, NEW list \in SUBSET SigSet, LastCursig(p, list),
         p_wchan' = p_wchan, p_sigcatch' = p_sigcatch, ~p_timeout'[p],
         \A q \in Procs : q # p => p_sintr'[q] = p_sintr[q] /\ p_timeout'[q] = p_timeout[q],
         frame[p].at \in {"resume", "cursig2"}, frame[p].catch, frame[p].sig = "none",
         p_wchan[p] = NoChan,
         list \cap {"INT", "KILL"} = {} => woken[p] \/ p_sigcatch[p]
  PROVE  /\ p_stat' \in [Procs -> {"SRUN", "SSLEEP", "SSTOP", "SZOMB"}]
         /\ p_siglist' \in [Procs -> SUBSET SigSet]
         /\ frame' \in [Procs -> FrameSet]
         /\ ret' \in [Procs -> {"none", "0", "EWOULDBLOCK", "EINTR"}]
         /\ woken' \in [Procs -> BOOLEAN] /\ age' \in [Procs -> Nat]
         /\ \A q \in Procs : q # p => SameProc(q)
         /\ frame'[p].at \notin {"cursig", "resume"}
         /\ ProcInv(p)'
         /\ \A q \in Procs : TrueReturn(q)
<1> DEFINE c == Cursig(p, list)
<1>1. TypeOK /\ ProcInv(p)
  BY DEF IInv
<1>2. /\ c.stops \in BOOLEAN /\ c.sig \in {"none", "INT", "KILL", "CONT"} /\ c.left \in SUBSET SigSet
      /\ c.stops => /\ c.sig = "none" /\ c.left = list
                    /\ "STOP" \in list /\ list \cap {"INT", "KILL"} = {}
      /\ list \cap {"INT", "KILL"} # {} => c.sig # "none"
      /\ c.sig # "none" => c.left = list /\ list # {}
  <2>1. p_sigcatch \in [Procs -> BOOLEAN]
    BY <1>1 DEF TypeOK
  <2> QED BY <2>1, CursigFacts
<1>3. /\ p_siglist' = [p_siglist EXCEPT ![p] = c.left]
      /\ p_stat' = [p_stat EXCEPT ![p] = IF c.stops THEN "SSTOP" ELSE "SRUN"]
      /\ IF c.stops
         THEN frame' = [frame EXCEPT ![p].at = "cursig2"] /\ ret' = ret /\ woken' = woken /\ age' = age
         ELSE Returns(p, IF c.sig = "none" THEN "0" ELSE "EINTR")
  BY DEF LastCursig, history
<1> HIDE DEF c
<1>4. /\ p_stat' \in [Procs -> {"SRUN", "SSLEEP", "SSTOP", "SZOMB"}]
      /\ p_siglist' \in [Procs -> SUBSET SigSet]
      /\ \A q \in Procs : q # p => p_stat'[q] = p_stat[q] /\ p_siglist'[q] = p_siglist[q]
      /\ p_siglist'[p] = c.left /\ p_stat'[p] = IF c.stops THEN "SSTOP" ELSE "SRUN"
  BY <1>1, <1>2, <1>3, SMT DEF TypeOK, SigSet
<1>5. CASE c.stops
  <2> DEFINE g == [frame[p] EXCEPT !.at = "cursig2"]
  <2>1. frame' = [frame EXCEPT ![p] = g] /\ ret' = ret /\ woken' = woken /\ age' = age
    BY <1>1, <1>3, <1>5 DEF TypeOK
  <2>2. frame[p] \in FrameSet
    BY <1>1 DEF TypeOK, FrameSet
  <2>3. g \in FrameSet /\ g.at = "cursig2" /\ g.catch = frame[p].catch /\ g.sig = "none"
    BY <2>2 DEF FrameSet
  <2> HIDE DEF g
  <2>4. frame' \in [Procs -> FrameSet] /\ frame'[p] = g /\ \A q \in Procs : q # p => frame'[q] = frame[q]
    BY <1>1, <2>1, <2>3 DEF TypeOK, FrameSet
  <2>5. ProcInv(p)'
    <3>1. p_wchan'[p] = NoChan /\ p_stat'[p] = "SSTOP" /\ ~p_timeout'[p] /\ (woken'[p] \/ p_sigcatch'[p])
      BY <1>2, <1>4, <1>5, <2>1
    <3> QED BY <2>3, <2>4, <3>1 DEF ProcInv, AwakeInv, StatInv, FrameInv, ReasonInv
  <2>6. \A q \in Procs : q # p => SameProc(q)
    BY <1>4, <2>1, <2>4 DEF SameProc
  <2>7. \A q \in Procs : TrueReturn(q)
    BY <2>1, SameReturn
  <2> QED BY <1>1, <1>4, <2>1, <2>3, <2>4, <2>5, <2>6, <2>7 DEF TypeOK
<1>6. CASE ~c.stops
  <2> DEFINE v == IF c.sig = "none" THEN "0" ELSE "EINTR"
  <2>1. Returns(p, v) /\ p_stat'[p] = "SRUN" /\ p_wchan'[p] = NoChan /\ v \in {"0", "EWOULDBLOCK", "EINTR"}
    BY <1>3, <1>4, <1>6
  <2> HIDE DEF v
  <2>2. /\ frame' \in [Procs -> FrameSet]
        /\ ret' \in [Procs -> {"none", "0", "EWOULDBLOCK", "EINTR"}]
        /\ woken' \in [Procs -> BOOLEAN] /\ age' \in [Procs -> Nat]
        /\ \A q \in Procs : q # p => /\ frame'[q] = frame[q] /\ woken'[q] = woken[q]
                                     /\ age'[q] = age[q] /\ ret'[q] = ret[q]
        /\ ret'[p] = v
        /\ frame'[p].at = "user"
        /\ ProcInv(p)'
    BY <1>1, <2>1, ReturnsKeeps
  <2>3. TrueReturn(p)
    <3>1. CASE c.sig = "none"
      <4>1. ret'[p] = "0" /\ (woken[p] \/ p_sigcatch[p])
        BY <1>2, <2>2, <3>1 DEF v
      <4> QED BY <4>1 DEF TrueReturn
    <3>2. CASE c.sig # "none"
      <4>1. ret'[p] = "EINTR" /\ p_siglist'[p] # {}
        BY <1>2, <1>4, <2>2, <3>2 DEF v
      <4> QED BY <4>1 DEF TrueReturn
    <3> QED BY <3>1, <3>2
  <2>4. \A q \in Procs : q # p => SameProc(q)
    BY <1>4, <2>2 DEF SameProc
  <2>5. \A q \in Procs : TrueReturn(q)
    BY <2>2, <2>3, SameReturn
  <2> QED BY <1>4, <2>2, <2>4, <2>5
<1> QED BY <1>2, <1>5, <1>6

(* A step of one process that ends with its timeout out of the queue. *)
LEMMA EndOfSleepKeeps ==
  ASSUME IInv, TypeOK', NEW p \in Procs, Proper(calltodo'),
         Left(calltodo') = {e \in Left(calltodo) : e.call # p},
         \A q \in Procs : q # p => SameProc(q),
         ProcInv(p)'
  PROVE  IInv'
<1>1. ASSUME NEW q \in Procs PROVE ProcInv(q)'
  BY SameProcInv DEF IInv
<1>2. ASSUME NEW e \in Left(calltodo') PROVE TimerInv(e)'
  <2>1. e \in Left(calltodo) /\ TimerInv(e) /\ e.call # p
    BY DEF IInv
  <2>2. e.call \in Procs
    BY <2>1 DEF TimerInv
  <2> QED BY <2>1, <2>2, SameTimerInv
<1> QED BY <1>1, <1>2 DEF IInv

(* The end of tsleep takes the timeout of the process out of the queue. *)
LEMMA ResumeKeeps ==
  ASSUME IInv, NEW p \in Procs, Resume(p)
  PROVE  /\ IInv'
         /\ Left(calltodo') = {e \in Left(calltodo) : e.call # p}
         /\ \A q \in Procs : TrueReturn(q)
<1> DEFINE f == frame[p]
<1>1. TypeOK /\ ProcInv(p) /\ Proper(calltodo) /\ \A e \in Left(calltodo) : TimerInv(e)
  BY DEF IInv
<1>2. f.at = "resume" /\ p_stat[p] = "SRUN" /\ f \in FrameSet
  BY <1>1 DEF Resume, TypeOK, FrameSet
<1>3. p_wchan[p] = NoChan
  BY <1>1, <1>2 DEF ProcInv, StatInv
<1>4. Proper(calltodo') /\ Left(calltodo') = {e \in Left(calltodo) : e.call # p}
  <2>1. CASE ~p_timeout[p] /\ f.timo # 0
    <3>1. calltodo' = Untimeout(calltodo, p)
      BY <2>1 DEF Resume
    <3> QED BY <1>1, <3>1, UntimeoutOfQueue
  <2>2. CASE ~(~p_timeout[p] /\ f.timo # 0)
    <3>1. calltodo' = calltodo
      BY <2>2 DEF Resume
    <3>2. \A e \in Left(calltodo) : e.call # p
      BY <1>1, <2>2 DEF TimerInv
    <3> QED BY <1>1, <3>1, <3>2
  <2> QED BY <2>1, <2>2
<1>5. /\ p_sintr' = [p_sintr EXCEPT ![p] = FALSE] /\ p_timeout' = [p_timeout EXCEPT ![p] = FALSE]
      /\ p_wchan' = p_wchan /\ p_sigcatch' = p_sigcatch
      /\ IF p_timeout[p] /\ f.sig = "none"
         THEN Returns(p, "EWOULDBLOCK") /\ UNCHANGED <<p_stat, p_siglist>>
         ELSE IF f.catch /\ f.sig = "none" THEN LastCursig(p, p_siglist[p])
         ELSE Returns(p, IF f.catch THEN "EINTR" ELSE "0") /\ UNCHANGED <<p_stat, p_siglist>>
  BY SMTT(30) DEF Resume
<1>6. /\ p_sintr' \in [Procs -> BOOLEAN] /\ p_timeout' \in [Procs -> BOOLEAN] /\ ~p_timeout'[p]
      /\ \A q \in Procs : q # p => p_sintr'[q] = p_sintr[q] /\ p_timeout'[q] = p_timeout[q]
      /\ calltodo' \in Seq(Entries)
  BY <1>1, <1>4, <1>5 DEF TypeOK, Proper
<1>7. CASE f.catch /\ f.sig = "none" /\ ~p_timeout[p]
  <2>1. LastCursig(p, p_siglist[p]) /\ p_siglist[p] \in SUBSET SigSet
    BY <1>1, <1>5, <1>7, SMTT(30) DEF TypeOK, SigSet
  <2>2. p_siglist[p] \cap {"INT", "KILL"} = {} => woken[p] \/ p_sigcatch[p]
    BY <1>1, <1>2, <1>3, <1>7 DEF ProcInv, ReasonInv
  <2>3. /\ p_stat' \in [Procs -> {"SRUN", "SSLEEP", "SSTOP", "SZOMB"}]
        /\ p_siglist' \in [Procs -> SUBSET SigSet]
        /\ frame' \in [Procs -> FrameSet]
        /\ ret' \in [Procs -> {"none", "0", "EWOULDBLOCK", "EINTR"}]
        /\ woken' \in [Procs -> BOOLEAN] /\ age' \in [Procs -> Nat]
        /\ \A q \in Procs : q # p => SameProc(q)
        /\ ProcInv(p)'
        /\ \A q \in Procs : TrueReturn(q)
    BY <1>2, <1>3, <1>5, <1>6, <1>7, <2>1, <2>2, LastCursigKeeps
  <2>4. TypeOK'
    BY <1>1, <1>5, <1>6, <2>3 DEF TypeOK, FrameSet, SigSet
  <2> QED BY <1>4, <2>3, <2>4, EndOfSleepKeeps
<1>8. CASE ~(f.catch /\ f.sig = "none" /\ ~p_timeout[p])
  <2> DEFINE v == IF p_timeout[p] /\ f.sig = "none" THEN "EWOULDBLOCK" ELSE IF f.catch THEN "EINTR" ELSE "0"
  <2>1. Returns(p, v) /\ p_stat' = p_stat /\ p_siglist' = p_siglist /\ v \in {"0", "EWOULDBLOCK", "EINTR"}
    BY <1>5, <1>8
  <2>2. /\ v = "EWOULDBLOCK" => f.timo # 0 /\ age[p] = f.timo /\ ~woken[p]
        /\ v = "EINTR" => f.catch /\ p_siglist[p] # {}
        /\ v = "0" => woken[p] \/ p_sigcatch[p]
    <3>1. FrameInv(p) /\ ReasonInv(p)
      BY <1>1 DEF ProcInv
    <3> QED BY <1>2, <1>3, <1>8, <3>1 DEF FrameInv, ReasonInv
  <2> HIDE DEF v
  <2>3. /\ frame' \in [Procs -> FrameSet]
        /\ ret' \in [Procs -> {"none", "0", "EWOULDBLOCK", "EINTR"}]
        /\ woken' \in [Procs -> BOOLEAN] /\ age' \in [Procs -> Nat]
        /\ \A q \in Procs : q # p => /\ frame'[q] = frame[q] /\ woken'[q] = woken[q]
                                     /\ age'[q] = age[q] /\ ret'[q] = ret[q]
        /\ ret'[p] = v
        /\ frame'[p].at = "user"
        /\ ProcInv(p)'
    <3>1. /\ TypeOK /\ p \in Procs /\ v \in {"0", "EWOULDBLOCK", "EINTR"} /\ Returns(p, v)
          /\ p_stat'[p] = "SRUN" /\ p_wchan'[p] = NoChan /\ ~p_timeout'[p]
      BY <1>1, <1>2, <1>3, <1>5, <1>6, <2>1
    <3> QED BY <3>1, ReturnsKeeps
  <2>4. TypeOK'
    BY <1>1, <1>5, <1>6, <2>1, <2>3, SMTT(30) DEF TypeOK, FrameSet
  <2>5. \A q \in Procs : q # p => SameProc(q)
    BY <1>5, <1>6, <2>1, <2>3 DEF SameProc
  <2>6. TrueReturn(p)
    BY <2>1, <2>2, <2>3 DEF TrueReturn
  <2>7. \A q \in Procs : TrueReturn(q)
    BY <2>3, <2>6, SameReturn
  <2> QED BY <1>4, <2>3, <2>4, <2>5, <2>7, EndOfSleepKeeps
<1> QED BY <1>7, <1>8

(* Back from the stop in the last issignal of tsleep. *)
LEMMA LastCursigReturnsKeeps ==
  ASSUME IInv, NEW p \in Procs, LastCursigReturns(p)
  PROVE  /\ IInv'
         /\ calltodo' = calltodo
         /\ \A q \in Procs : TrueReturn(q)
<1> DEFINE list == p_siglist[p] \ {"STOP"}
<1>1. TypeOK /\ ProcInv(p) /\ frame[p].at = "cursig2" /\ p_stat[p] = "SRUN"
  BY DEF IInv, LastCursigReturns
<1>2. /\ frame[p].catch /\ frame[p].sig = "none" /\ ~p_timeout[p] /\ p_wchan[p] = NoChan
      /\ woken[p] \/ p_sigcatch[p]
  BY <1>1 DEF ProcInv, FrameInv, StatInv
<1>3. /\ LastCursig(p, list) /\ p_wchan' = p_wchan /\ p_sigcatch' = p_sigcatch
      /\ p_sintr' = p_sintr /\ p_timeout' = p_timeout /\ calltodo' = calltodo
      /\ list \in SUBSET SigSet
  BY <1>1, SMTT(30) DEF LastCursigReturns, TypeOK, SigSet
<1> HIDE DEF list
<1>4. /\ p_stat' \in [Procs -> {"SRUN", "SSLEEP", "SSTOP", "SZOMB"}]
      /\ p_siglist' \in [Procs -> SUBSET SigSet]
      /\ frame' \in [Procs -> FrameSet]
      /\ ret' \in [Procs -> {"none", "0", "EWOULDBLOCK", "EINTR"}]
      /\ woken' \in [Procs -> BOOLEAN] /\ age' \in [Procs -> Nat]
      /\ \A q \in Procs : q # p => SameProc(q)
      /\ ProcInv(p)'
      /\ \A q \in Procs : TrueReturn(q)
  BY <1>1, <1>2, <1>3, LastCursigKeeps
<1>5. TypeOK'
  BY <1>1, <1>3, <1>4 DEF TypeOK, FrameSet, SigSet
<1>6. \A e \in Left(calltodo) : e.call # p
  BY <1>1 DEF IInv, TimerInv
<1> QED BY <1>3, <1>4, <1>5, <1>6, OneProcKeeps

(* The way back to user mode. *)
LEMMA UserReturnKeeps ==
  ASSUME IInv, NEW p \in Procs, UserReturn(p)
  PROVE  IInv' /\ calltodo' = calltodo
<1> DEFINE list == IF frame[p].at = "userret" THEN p_siglist[p] \ {"STOP"} ELSE p_siglist[p]
           at == IF "KILL" \in list THEN "dead" ELSE IF "STOP" \in list THEN "userret" ELSE "user"
           g == [Idle EXCEPT !.at = at]
           st == CASE at = "dead" -> "SZOMB" [] at = "userret" -> "SSTOP" [] OTHER -> "SRUN"
<1>1. TypeOK /\ ProcInv(p) /\ frame[p].at \in {"user", "userret"} /\ p_stat[p] = "SRUN"
  BY DEF IInv, UserReturn
<1>2. AwakeInv(p)
  BY <1>1 DEF ProcInv
<1>3. p_wchan[p] = NoChan /\ ~p_timeout[p] /\ ~woken[p] /\ age[p] = 0
  BY <1>1, <1>2 DEF AwakeInv
<1>4. /\ frame' = [frame EXCEPT ![p] = g]
      /\ p_stat' = [p_stat EXCEPT ![p] = st]
      /\ p_siglist' = [p_siglist EXCEPT ![p] = IF at = "userret" THEN {"STOP"} ELSE {}]
      /\ ret' = [ret EXCEPT ![p] = "none"]
      /\ UNCHANGED <<p_wchan, p_sigcatch, p_sintr, p_timeout, calltodo, woken, age>>
  BY DEF UserReturn, history
<1>5. at \in {"dead", "userret", "user"}
  OBVIOUS
<1> HIDE DEF list, at
<1>6. g \in FrameSet /\ g.at = at /\ g.sig = "none" /\ g = [Idle EXCEPT !.at = g.at]
  BY <1>5 DEF FrameSet, Idle
<1>7. /\ st \in {"SZOMB", "SSTOP", "SRUN"} /\ (at = "dead" <=> st = "SZOMB") /\ (at = "user" => st = "SRUN")
  BY <1>5
<1> HIDE DEF g, st
<1>8. /\ frame'[p] = g /\ p_stat'[p] = st /\ p_wchan'[p] = NoChan /\ ~p_timeout'[p] /\ ~woken'[p] /\ age'[p] = 0
      /\ frame' \in [Procs -> FrameSet] /\ p_stat' \in [Procs -> {"SRUN", "SSLEEP", "SSTOP", "SZOMB"}]
  BY <1>1, <1>3, <1>4, <1>6, <1>7 DEF TypeOK, FrameSet
<1>9. TypeOK'
  BY <1>1, <1>4, <1>8 DEF TypeOK, FrameSet
<1>10. ProcInv(p)'
  BY <1>5, <1>6, <1>7, <1>8 DEF ProcInv, AwakeInv, StatInv, FrameInv, ReasonInv
<1>11. \A q \in Procs : q # p => SameProc(q)
  BY <1>1, <1>4 DEF SameProc, TypeOK
<1>12. \A e \in Left(calltodo) : e.call # p
  BY <1>1, SMTT(30) DEF IInv, TimerInv
<1> QED BY <1>4, <1>9, <1>10, <1>11, <1>12, OneProcKeeps

-----------------------------------------------------------------------------
(* wakeup *)
LEMMA WakeupKeeps ==
  ASSUME IInv, NEW chan \in Chans, Wakeup(chan)
  PROVE  IInv' /\ calltodo' = calltodo /\ ret' = ret
<1> DEFINE found == {p \in Procs : p_wchan[p] = chan}
<1>1. TypeOK /\ chan # NoChan
  BY TimoType DEF IInv
<1>2. /\ p_wchan' = [p \in Procs |-> IF p \in found THEN NoChan ELSE p_wchan[p]]
      /\ p_stat' = [p \in Procs |-> IF p \in found /\ p_stat[p] = "SSLEEP" THEN "SRUN" ELSE p_stat[p]]
      /\ woken' = [p \in Procs |-> woken[p] \/ p \in found]
      /\ UNCHANGED <<p_siglist, p_sigcatch, p_sintr, p_timeout, calltodo, frame, ret, age>>
  BY DEF Wakeup
<1>3. TypeOK'
  BY <1>1, <1>2 DEF TypeOK
<1>4. ASSUME NEW p \in Procs PROVE ProcInv(p)'
  <2>1. ProcInv(p)
    BY DEF IInv
  <2>2. CASE p \in found
    <3>1. p_wchan[p] # NoChan
      BY <1>1, <2>2
    <3>2. /\ frame[p].at \in {"cursig", "resume"} /\ frame[p].sig = "none"
          /\ p_stat[p] \in {"SSLEEP", "SSTOP"} /\ ~p_timeout[p]
      BY <2>1, <3>1 DEF ProcInv, StatInv
    <3>3. FrameInv(p)
      BY <2>1 DEF ProcInv
    <3>4. /\ p_wchan'[p] = NoChan /\ p_stat'[p] \in {"SRUN", "SSTOP"} /\ woken'[p]
      BY <1>2, <2>2, <3>2
    <3>5. frame' = frame /\ p_timeout' = p_timeout /\ p_siglist' = p_siglist /\ p_sigcatch' = p_sigcatch /\ age' = age
      BY <1>2
    <3> HIDE DEF found
    <3> QED BY <3>2, <3>3, <3>4, <3>5 DEF ProcInv, AwakeInv, StatInv, FrameInv, ReasonInv
  <2>3. CASE p \notin found
    <3>1. SameProc(p)
      BY <1>1, <1>2, <2>3 DEF SameProc, TypeOK
    <3> QED BY <2>1, <3>1, SameProcInv
  <2> QED BY <2>2, <2>3
<1>5. ASSUME NEW e \in Left(calltodo') PROVE TimerInv(e)'
  BY <1>2 DEF IInv, TimerInv
<1> QED BY <1>2, <1>3, <1>4, <1>5 DEF IInv

(* psignal: a process it takes off a queue has the signal pending, or      *)
(* catches SIGCONT.                                                        *)
LEMMA PsignalKeeps ==
  ASSUME IInv, NEW p \in Procs, NEW sig \in SigSet, Psignal(p, sig)
  PROVE  IInv' /\ calltodo' = calltodo /\ ret' = ret
<1>1. TypeOK /\ ProcInv(p) /\ frame[p].at # "dead"
  BY DEF IInv, Psignal
<1>2. /\ p_siglist' = [p_siglist EXCEPT ![p] =
           (CASE sig = "CONT" -> @ \ {"STOP"} [] sig = "STOP" -> @ \ {"CONT"} [] OTHER -> @)
             \cup (IF TakenAtOnce(p, sig) THEN {} ELSE {sig})]
      /\ UNCHANGED <<p_sigcatch, p_sintr, p_timeout, calltodo, frame, ret, woken, age>>
      /\ PsignalAsleep(p, sig) \/ PsignalStopped(p, sig) \/ PsignalOther(p)
  BY DEF Psignal, history
<1>3. /\ p_siglist' \in [Procs -> SUBSET SigSet]
      /\ \A q \in Procs : q # p => p_siglist'[q] = p_siglist[q]
      /\ p_siglist[p] \cap {"INT", "KILL"} \subseteq p_siglist'[p]
      /\ ~TakenAtOnce(p, sig) => sig \in p_siglist'[p]
  BY <1>1, <1>2 DEF TypeOK, SigSet
<1>4. \* where the process goes
      \/ p_stat' = p_stat /\ p_wchan' = p_wchan
      \/ /\ p_wchan' = p_wchan /\ p_stat' = [p_stat EXCEPT ![p] = "SSTOP"]
         /\ p_stat[p] = "SSLEEP" /\ p_sintr[p]
      \/ /\ p_wchan' = p_wchan /\ p_stat' = [p_stat EXCEPT ![p] = "SSLEEP"]
         /\ p_stat[p] = "SSTOP" /\ p_wchan[p] # NoChan
      \/ /\ p_wchan' = [p_wchan EXCEPT ![p] = NoChan]
         /\ p_stat' = [p_stat EXCEPT ![p] = "SRUN"] \/ p_stat' = p_stat
         /\ p_stat[p] = "SSTOP" \/ (p_stat[p] = "SSLEEP" /\ p_sintr[p])
         /\ p_sigcatch[p] \/ sig \in {"INT", "KILL"} \/ p_wchan[p] = NoChan
  BY <1>2 DEF PsignalAsleep, PsignalStopped, PsignalOther, Setrunnable, Unsleep, SigSet
<1>5. /\ p_stat' \in [Procs -> {"SRUN", "SSLEEP", "SSTOP", "SZOMB"}]
      /\ p_wchan' \in [Procs -> Chans \cup {NoChan}]
      /\ \A q \in Procs : q # p => p_stat'[q] = p_stat[q] /\ p_wchan'[q] = p_wchan[q]
  BY <1>1, <1>4 DEF TypeOK
<1>6. TypeOK'
  BY <1>1, <1>2, <1>3, <1>5 DEF TypeOK, SigSet
<1>7. \A q \in Procs : q # p => SameProc(q)
  BY <1>2, <1>3, <1>5 DEF SameProc
<1>8. /\ frame' = frame /\ p_sigcatch' = p_sigcatch /\ p_timeout' = p_timeout /\ woken' = woken /\ age' = age
      /\ p_sintr' = p_sintr
  BY <1>2
<1>9. StatInv(p) /\ AwakeInv(p) /\ FrameInv(p) /\ ReasonInv(p)
  BY <1>1 DEF ProcInv
\* A signal that comes to a running process is pending afterwards.
<1>10. p_stat[p] = "SRUN" => p_stat'[p] = "SRUN" /\ p_wchan'[p] = p_wchan[p] /\ p_siglist'[p] # {}
  <2> SUFFICES ASSUME p_stat[p] = "SRUN" PROVE p_stat'[p] = "SRUN" /\ p_wchan'[p] = p_wchan[p] /\ p_siglist'[p] # {}
    OBVIOUS
  <2>1. ~TakenAtOnce(p, sig)
    BY DEF TakenAtOnce
  <2> QED BY <1>3, <1>4, <2>1, SMTT(30)
<1>11. StatInv(p)'
  <2>1. CASE p_stat'[p] = p_stat[p] /\ p_wchan'[p] = p_wchan[p]
    BY <1>8, <1>9, <2>1 DEF StatInv
  <2>2. CASE p_wchan'[p] = p_wchan[p] /\ p_stat'[p] = "SSTOP" /\ p_stat[p] = "SSLEEP" /\ p_sintr[p]
    BY <1>8, <1>9, <2>2 DEF StatInv
  <2>3. CASE p_wchan'[p] = p_wchan[p] /\ p_stat'[p] = "SSLEEP" /\ p_stat[p] = "SSTOP" /\ p_wchan[p] # NoChan
    BY <1>8, <1>9, <2>3 DEF StatInv
  <2>4. CASE /\ p_wchan'[p] = NoChan /\ p_stat[p] \in {"SSTOP", "SSLEEP"}
             /\ p_stat'[p] = "SRUN" \/ (p_stat'[p] = p_stat[p] /\ p_stat[p] = "SSTOP")
    BY <1>1, <1>8, <1>9, <2>4 DEF StatInv
  <2>5. /\ p_stat[p] = "SSLEEP" => p_wchan[p] # NoChan
        /\ p_stat \in [Procs -> {"SRUN", "SSLEEP", "SSTOP", "SZOMB"}]
        /\ p_wchan \in [Procs -> Chans \cup {NoChan}]
    BY <1>1, <1>9 DEF StatInv, TypeOK
  <2>6. p_stat[p] = "SSLEEP" => ~(p_wchan' = [p_wchan EXCEPT ![p] = NoChan] /\ p_stat' = p_stat)
    BY <1>2, <2>5 DEF PsignalAsleep, PsignalStopped, PsignalOther, Setrunnable, SigSet
  <2> QED BY <1>4, <2>1, <2>2, <2>3, <2>4, <2>5, <2>6
<1>12. AwakeInv(p)'
  BY <1>4, <1>5, <1>8, <1>9, <1>1, SMTT(30) DEF AwakeInv, TypeOK
<1>13. FrameInv(p)'
  BY <1>8, <1>9, <1>10 DEF FrameInv
<1>14. ReasonInv(p)'
  <2> SUFFICES ASSUME frame[p].at \in {"cursig", "resume"}, p_wchan'[p] = NoChan,
                      ~woken[p], ~p_timeout[p], ~p_sigcatch[p], frame[p].sig = "none"
               PROVE  frame[p].catch /\ p_siglist'[p] \cap {"INT", "KILL"} # {}
    BY <1>8 DEF ReasonInv
  <2>1. CASE p_wchan[p] = NoChan
    BY <1>3, <1>9, <2>1 DEF ReasonInv
  <2>2. CASE p_wchan[p] # NoChan
    <3>1. p_wchan' # p_wchan
      BY <2>2
    <3>2. sig \in {"INT", "KILL"} /\ (p_stat[p] = "SSTOP" \/ (p_stat[p] = "SSLEEP" /\ p_sintr[p]))
      BY <1>4, <2>2, <3>1, SMTT(30)
    <3>3. frame[p].catch
      BY <1>9, <2>2, <3>2 DEF StatInv
    <3>4. ~TakenAtOnce(p, sig)
      BY <3>2 DEF TakenAtOnce
    <3> QED BY <1>3, <3>2, <3>3, <3>4
  <2> QED BY <2>1, <2>2
<1>15. ASSUME NEW e \in Left(calltodo) PROVE TimerInv(e)'
  BY <1>8 DEF IInv, TimerInv
<1>16. ProcInv(p)'
  BY <1>11, <1>12, <1>13, <1>14 DEF ProcInv
<1> QED BY <1>2, <1>6, <1>7, <1>15, <1>16, OneProcKeeps

-----------------------------------------------------------------------------
(* hardclock: the sleeps grow older as their timeouts come closer. *)
LEMMA HardclockKeeps ==
  ASSUME IInv, Hardclock
  PROVE  /\ IInv' /\ ret' = ret
         /\ Left(calltodo') = {[c EXCEPT !.ticks = @ - 1] : c \in Left(calltodo)}
<1>1. TypeOK /\ Proper(calltodo)
  BY SMTT(30) DEF IInv
<1>2. /\ calltodo' = Ticked(calltodo)
      /\ age' = [p \in Procs |-> IF age[p] < frame[p].timo THEN age[p] + 1 ELSE age[p]]
      /\ UNCHANGED <<p_stat, p_wchan, p_siglist, p_sigcatch, p_sintr, p_timeout, frame, ret, woken>>
  BY DEF Hardclock, procvars
<1>3. Proper(calltodo') /\ Left(calltodo') = {[c EXCEPT !.ticks = @ - 1] : c \in Left(calltodo)}
  BY <1>1, <1>2, TickOfQueue, LeftOfTicked
<1>4. TypeOK'
  <2>1. calltodo' \in Seq(Entries)
    BY <1>3 DEF Proper
  <2>2. age' \in [Procs -> Nat]
    BY <1>1, <1>2, SMT DEF TypeOK
  <2> QED BY <1>1, <1>2, <2>1, <2>2 DEF TypeOK
<1>5. ASSUME NEW p \in Procs
      PROVE  /\ age'[p] = IF age[p] < frame[p].timo THEN age[p] + 1 ELSE age[p]
             /\ age[p] \in Nat /\ frame[p].timo \in Nat
  BY <1>1, <1>2, TimoType DEF TypeOK
<1>6. ASSUME NEW p \in Procs PROVE ProcInv(p)'
  <2>1. AwakeInv(p) /\ StatInv(p) /\ FrameInv(p) /\ ReasonInv(p)
    BY DEF IInv, ProcInv
  <2>2. AwakeInv(p)'
    <3>1. frame[p].at \in {"user", "userret", "dead"} => frame[p].timo = 0 /\ age[p] = 0
      BY <2>1 DEF AwakeInv, Idle
    <3>2. frame[p].at \in {"user", "userret", "dead"} => age'[p] = 0
      <4>1. ~(0 < 0)
        BY SMT
      <4> QED BY <1>5, <3>1, <4>1
    <3> QED BY <1>2, <2>1, <3>2 DEF AwakeInv
  <2>3. StatInv(p)' /\ ReasonInv(p)'
    BY <1>2, <2>1 DEF StatInv, ReasonInv
  <2>4. FrameInv(p)'
    <3>1. \A a \in Nat : ~(a < a)
      BY SMT
    <3>2. age[p] = frame[p].timo => age'[p] = age[p]
      BY <1>5, <3>1
    <3> QED BY <1>2, <2>1, <3>2 DEF FrameInv
  <2> QED BY <2>2, <2>3, <2>4 DEF ProcInv
<1>7. ASSUME NEW e \in Left(calltodo') PROVE TimerInv(e)'
  <2>1. PICK c \in Left(calltodo) : e = [c EXCEPT !.ticks = @ - 1]
    BY <1>3
  <2>2. c = [call |-> c.call, ticks |-> c.ticks]
    BY SMT DEF Left
  <2>3. e.call = c.call /\ e.ticks = c.ticks - 1
    BY <2>1, <2>2
  <2>4. TimerInv(c)
    BY DEF IInv
  <2>5. c.call \in Procs
    BY <2>4 DEF TimerInv
  <2> QED BY <1>2, <1>5, <2>3, <2>4, <2>5, SMT DEF TimerInv
<1> QED BY <1>2, <1>3, <1>4, <1>6, <1>7 DEF IInv

(* softclock and endtsleep *)
LEMMA SoftclockKeeps ==
  ASSUME IInv, Softclock
  PROVE  /\ IInv' /\ ret' = ret
         /\ LET c == [call |-> calltodo[1].c_arg, ticks |-> calltodo[1].c_time] IN
            /\ c \in Left(calltodo) /\ c.ticks <= 0 /\ \A d \in Left(calltodo) : c.ticks <= d.ticks
            /\ Left(calltodo') = Left(calltodo) \ {c}
<1>1. TypeOK /\ Proper(calltodo) /\ Due(calltodo)
  BY DEF IInv, Softclock
<1>0. calltodo[1].c_arg \in Procs /\ calltodo[1].c_time \in Int
  <2>1. calltodo \in Seq(Entries) /\ calltodo # <<>>
    BY <1>1 DEF Proper, Due
  <2>2. 1 \in 1 .. Len(calltodo)
    BY <2>1, EntryType, EmptySeq, SMT
  <2> QED BY <2>1, <2>2, EntryType
<1>a. PICK p \in Procs : p = calltodo[1].c_arg
  BY <1>0
<1>b. PICK t \in Int : t = calltodo[1].c_time
  BY <1>0
<1> DEFINE c == [call |-> p, ticks |-> t]
<1>2. /\ calltodo' = Tail(calltodo) /\ Endtsleep(p)
      /\ UNCHANGED <<p_siglist, p_sigcatch, p_sintr, frame, ret, woken, age>>
  BY <1>a DEF Softclock, history
<1>3. c \in Left(calltodo) /\ c.ticks <= 0 /\ \A d \in Left(calltodo) : c.ticks <= d.ticks
  BY <1>1, <1>a, <1>b, DueIsFirst
<1>4. Proper(calltodo') /\ Left(calltodo') = Left(calltodo) \ {c}
  BY <1>1, <1>2, <1>a, <1>b, TailOfQueue DEF Due
<1>5. TimerInv(c) /\ c.call = p
  BY <1>3 DEF IInv
<1>6. \A e \in Left(calltodo') : e \in Left(calltodo) /\ e.call # p
  BY <1>1, <1>3, <1>4, OneDeadline
<1>7. c.ticks \in Int
  BY <1>5 DEF TimerInv
<1> HIDE DEF c
<1>8. /\ p \in Procs /\ frame[p].at \in {"cursig", "resume"} /\ frame[p].timo # 0 /\ ~p_timeout[p]
      /\ age[p] = frame[p].timo
  BY <1>3, <1>5, <1>7, SMT DEF TimerInv
<1>9. \/ p_stat' = p_stat /\ p_wchan' = p_wchan /\ p_timeout' = p_timeout
      \/ /\ p_wchan[p] # NoChan
         /\ p_wchan' = [p_wchan EXCEPT ![p] = NoChan]
         /\ p_timeout' = [p_timeout EXCEPT ![p] = TRUE]
         /\ \/ p_stat[p] = "SSLEEP" /\ p_stat' = [p_stat EXCEPT ![p] = "SRUN"]
            \/ p_stat[p] # "SSLEEP" /\ p_stat' = p_stat
  BY <1>2 DEF Endtsleep, Setrunnable, Unsleep
<1>10. TypeOK'
  <2>1. calltodo' \in Seq(Entries)
    BY <1>4 DEF Proper
  <2>2. /\ p_stat' \in [Procs -> {"SRUN", "SSLEEP", "SSTOP", "SZOMB"}]
        /\ p_wchan' \in [Procs -> Chans \cup {NoChan}] /\ p_timeout' \in [Procs -> BOOLEAN]
    BY <1>1, <1>9 DEF TypeOK
  <2> QED BY <1>1, <1>2, <2>1, <2>2 DEF TypeOK
<1>11. \A q \in Procs : q # p => SameProc(q)
  BY <1>1, <1>2, <1>9 DEF SameProc, TypeOK
<1>12. ProcInv(p)'
  <2>1. ProcInv(p)
    BY <1>8 DEF IInv
  <2>2. CASE p_stat' = p_stat /\ p_wchan' = p_wchan /\ p_timeout' = p_timeout
    <3>1. SameProc(p)
      BY <1>2, <2>2 DEF SameProc
    <3> QED BY <1>8, <2>1, <3>1, SameProcInv, SMTT(30)
  <2>3. CASE ~(p_stat' = p_stat /\ p_wchan' = p_wchan /\ p_timeout' = p_timeout)
    <3>1. /\ p_wchan[p] # NoChan /\ p_wchan'[p] = NoChan /\ p_timeout'[p]
          /\ \/ p_stat[p] = "SSLEEP" /\ p_stat'[p] = "SRUN"
             \/ p_stat[p] # "SSLEEP" /\ p_stat'[p] = p_stat[p]
      BY <1>1, <1>8, <1>9, <2>3, SMTT(30) DEF TypeOK
    <3>2. /\ frame[p].sig = "none" /\ p_stat[p] \in {"SSLEEP", "SSTOP"} /\ ~woken[p]
          /\ FrameInv(p)
      BY <2>1, <3>1 DEF ProcInv, StatInv
    <3> QED BY <1>2, <1>8, <3>1, <3>2 DEF ProcInv, AwakeInv, StatInv, FrameInv, ReasonInv
  <2> QED BY <2>2, <2>3
<1>13. Left(calltodo') = {e \in Left(calltodo) : e.call # p}
  <2>1. c.call = p
    BY <1>5, SMTT(30)
  <2> QED BY <1>4, <1>6, <2>1
<1>14. IInv'
  BY <1>4, <1>8, <1>10, <1>11, <1>12, <1>13, EndOfSleepKeeps
<1> QED BY <1>2, <1>3, <1>4, <1>14, <1>a, <1>b DEF c

-----------------------------------------------------------------------------
(* Every step keeps the invariant, says only what is true when tsleep      *)
(* returns, and does to the deadlines what module Deadlines allows.        *)
LEMMA NextKeeps ==
  ASSUME IInv, Next
  PROVE  IInv' /\ \A q \in Procs : TrueReturn(q)
<1>1. ASSUME NEW s \in Sleeps, TsleepCall(s.proc, s.chan, s.catch, s.timo)
      PROVE  IInv' /\ \A q \in Procs : TrueReturn(q)
  <2>1. IInv'
    BY <1>1, TsleepKeeps
  <2>2. ret' = [ret EXCEPT ![s.proc] = "none"] /\ ret \in [Procs -> {"none", "0", "EWOULDBLOCK", "EINTR"}]
    BY <1>1 DEF TsleepCall, IInv, TypeOK
  <2>3. ASSUME NEW q \in Procs PROVE ret'[q] = ret[q] \/ ret'[q] = "none"
    BY <2>2
  <2> QED BY <2>1, <2>3, SameReturn
<1>2. ASSUME NEW p \in Procs, Runs(p)
      PROVE  IInv' /\ \A q \in Procs : TrueReturn(q)
  <2>1. CASE CursigReturns(p)
    <3>1. ret' = ret
      BY <2>1 DEF CursigReturns
    <3> QED BY <2>1, <3>1, CursigReturnsKeeps, SameReturn
  <2>2. CASE Resume(p)
    BY <2>2, ResumeKeeps
  <2>3. CASE LastCursigReturns(p)
    BY <2>3, LastCursigReturnsKeeps
  <2>4. CASE UserReturn(p)
    <3>1. ret' = [ret EXCEPT ![p] = "none"] /\ ret \in [Procs -> {"none", "0", "EWOULDBLOCK", "EINTR"}]
      BY <2>4 DEF UserReturn, IInv, TypeOK
    <3>2. ASSUME NEW q \in Procs PROVE ret'[q] = ret[q] \/ ret'[q] = "none"
      BY <3>1
    <3> QED BY <2>4, <3>2, UserReturnKeeps, SameReturn
  <2> QED BY <1>2, <2>1, <2>2, <2>3, <2>4 DEF Runs
<1>3. ASSUME NEW chan \in Chans, Wakeup(chan)
      PROVE  IInv' /\ \A q \in Procs : TrueReturn(q)
  BY <1>3, WakeupKeeps, SameReturn
<1>4. ASSUME NEW s \in Signals, Psignal(s[1], s[2])
      PROVE  IInv' /\ \A q \in Procs : TrueReturn(q)
  <2>1. s[1] \in Procs /\ s[2] \in SigSet
    BY SignalsAssumption DEF SigSet
  <2> QED BY <1>4, <2>1, PsignalKeeps, SameReturn
<1>5. CASE Hardclock
  BY <1>5, HardclockKeeps, SameReturn
<1>6. CASE Softclock
  BY <1>6, SoftclockKeeps, SameReturn
<1> QED BY <1>1, <1>2, <1>3, <1>4, <1>5, <1>6 DEF Next

(* An untouched state keeps the invariant. *)
LEMMA StutterKeeps ==
  ASSUME IInv, UNCHANGED vars
  PROVE  IInv' /\ \A q \in Procs : TrueReturn(q)
<1>1. /\ UNCHANGED <<p_stat, p_wchan, p_siglist, p_sigcatch, p_sintr, p_timeout>>
      /\ UNCHANGED <<calltodo, frame, ret, woken, age>>
  BY DEF vars, procvars, history
<1>2. TypeOK'
  BY <1>1 DEF IInv, TypeOK
<1>3. ASSUME NEW p \in Procs PROVE ProcInv(p)'
  <2>1. SameProc(p)
    BY <1>1 DEF SameProc
  <2> QED BY <2>1, SameProcInv DEF IInv
<1>4. ASSUME NEW e \in Left(calltodo) PROVE TimerInv(e)'
  BY <1>1 DEF IInv, TimerInv
<1>5. \A q \in Procs : TrueReturn(q)
  BY <1>1, SameReturn
<1> QED BY <1>1, <1>2, <1>3, <1>4, <1>5 DEF IInv

(* The invariant is inductive: no interleaving of sleeps, wakeups,         *)
(* signals, clock ticks and timeouts breaks it.                            *)
THEOREM Inductive == Spec => []IInv
<1>1. IInv /\ [Next]_vars => IInv'
  BY NextKeeps, StutterKeeps
<1> QED BY <1>1, InitInv, PTL DEF Spec

(* No panic in wakeup and setrunnable, no sleeper off its queue. *)
THEOREM SleepersStayQueued == Spec => []SleepersAreQueued
<1>1. IInv => SleepersAreQueued
  BY DEF IInv, ProcInv, StatInv, SleepersAreQueued
<1> QED BY <1>1, Inductive, PTL

(* No wakeup is lost, whatever stops and continuations come with it. *)
THEOREM NoWakeupIsLost == Spec => []WakeupsStick
<1>1. IInv => WakeupsStick
  BY DEF IInv, ProcInv, StatInv, WakeupsStick
<1> QED BY <1>1, Inductive, PTL

(* A timeout never outlives the sleep that set it. *)
THEOREM TimeoutsStayWithTheSleep == Spec => []TimeoutsEndWithTheSleep
<1>1. IInv => TimeoutsEndWithTheSleep
  <2> SUFFICES ASSUME IInv PROVE TimeoutsEndWithTheSleep
    OBVIOUS
  <2>1. ASSUME NEW p \in Procs, Armed(p)
        PROVE  InTsleep(p) /\ frame[p].timo # 0 /\ ~p_timeout[p]
    <3>1. PICK e \in Left(calltodo) : e.call = p
      BY <2>1, ArmedIsLeft
    <3>2. TimerInv(e)
      BY DEF IInv
    <3> QED BY <3>1, <3>2 DEF TimerInv, InTsleep
  <2>2. ASSUME NEW p \in Procs, p_timeout[p]
        PROVE  InTsleep(p) /\ frame[p].timo # 0
    BY <2>2, SMTT(30) DEF IInv, ProcInv, FrameInv, InTsleep
  <2>3. \A i, j \in DOMAIN calltodo : calltodo[i].c_arg = calltodo[j].c_arg => i = j
    BY EntryType DEF IInv, Proper
  <2> QED BY <2>1, <2>2, <2>3 DEF TimeoutsEndWithTheSleep
<1> QED BY <1>1, Inductive, PTL

(* What tsleep returns is what happened. *)
THEOREM TsleepTellsTheTruth == Spec => ReturnsAreTrue
<1>1. IInv /\ [Next]_vars => [\A p \in Procs : TrueReturn(p)]_vars
  BY NextKeeps
<1>2. [][\A p \in Procs : TrueReturn(p)]_vars => ReturnsAreTrue
  BY PTL DEF ReturnsAreTrue, TrueReturn
<1> QED BY <1>1, <1>2, Inductive, PTL DEF Spec

-----------------------------------------------------------------------------
(* The deadlines change only as module Deadlines says. *)
LEMMA StepIsAllowed ==
  ASSUME IInv, Next
  PROVE  D!Next \/ Left(calltodo)' = Left(calltodo)
<1> DEFINE L == Left(calltodo)
<1>1. ASSUME NEW s \in Sleeps, TsleepCall(s.proc, s.chan, s.catch, s.timo)
      PROVE  D!Set \/ L' = L
  <2> DEFINE e == [call |-> s.proc, ticks |-> s.timo]
  <2>1. /\ L' = L \/ L' = L \cup {e}
        /\ s.timo # 0 => s.timo > 0 /\ e \in L'
    BY <1>1, TsleepKeeps
  <2>2. CASE L' = L
    BY <2>2
  <2>3. CASE L' # L
    <3>1. s.timo # 0
      BY <1>1, <2>3 DEF TsleepCall
    <3>2. e \in L' /\ e.ticks > 0 /\ L' = L \cup {e}
      BY <2>1, <2>3, <3>1
    <3> QED BY <3>2 DEF D!Set, Left
  <2> QED BY <2>2, <2>3
<1>2. ASSUME NEW p \in Procs, Runs(p)
      PROVE  D!Cancel \/ L' = L
  <2>1. CASE Resume(p)
    <3>1. L' = {e \in L : e.call # p}
      BY <2>1, ResumeKeeps
    <3>2. CASE \A e \in L : e.call # p
      BY <3>1, <3>2
    <3>3. ASSUME NEW c \in L, c.call = p PROVE D!Cancel
      <4>1. \A e \in L : e.call = p => e = c
        BY <3>3, OneDeadline DEF IInv
      <4>2. L' = L \ {c}
        BY <3>1, <3>3, <4>1
      <4> QED BY <4>2 DEF D!Cancel, Left
    <3> QED BY <3>2, <3>3
  <2>2. CASE CursigReturns(p) \/ LastCursigReturns(p) \/ UserReturn(p)
    BY <2>2 DEF CursigReturns, LastCursigReturns, UserReturn
  <2> QED BY <1>2, <2>1, <2>2 DEF Runs
<1>3. ASSUME NEW chan \in Chans, Wakeup(chan) PROVE L' = L
  BY <1>3 DEF Wakeup
<1>4. ASSUME NEW s \in Signals, Psignal(s[1], s[2]) PROVE L' = L
  BY <1>4 DEF Psignal
<1>5. CASE Hardclock
  BY <1>5, HardclockKeeps DEF D!Next, D!Tick, Left
<1>6. ASSUME Softclock PROVE D!Call
  <2> DEFINE c == [call |-> calltodo[1].c_arg, ticks |-> calltodo[1].c_time]
  <2>1. /\ c \in L /\ c.ticks <= 0 /\ \A d \in L : c.ticks <= d.ticks
        /\ L' = L \ {c}
    BY <1>6, SoftclockKeeps
  <2> QED BY <2>1 DEF D!Call, Left
<1> QED BY <1>1, <1>2, <1>3, <1>4, <1>5, <1>6 DEF Next, D!Next

(* softclock makes the call with the earliest deadline, once it is due. *)
LEMMA SoftclockIsCall ==
  ASSUME IInv, Softclock
  PROVE  D!Call
<1> DEFINE c == [call |-> calltodo[1].c_arg, ticks |-> calltodo[1].c_time]
<1>1. /\ c \in Left(calltodo) /\ c.ticks <= 0 /\ \A d \in Left(calltodo) : c.ticks <= d.ticks
      /\ Left(calltodo') = Left(calltodo) \ {c}
  BY SoftclockKeeps
<1> QED BY <1>1 DEF D!Call, Left

(* The queue of differences is a set of deadlines, for any number of       *)
(* processes and any timeouts: timeout and untimeout of kern_clock.c move  *)
(* no other call, and softclock makes each when it is due, in order.       *)
THEOREM QueueImplementsDeadlines == Spec => ImplementsDeadlines
<1>1. Init => D!Init
  BY SMT DEF Init, D!Init
<1>2. IInv /\ [Next]_vars => [D!Next]_(Left(calltodo))
  <2> SUFFICES ASSUME IInv, [Next]_vars PROVE D!Next \/ Left(calltodo)' = Left(calltodo)
    OBVIOUS
  <2>1. CASE Next
    BY <2>1, StepIsAllowed
  <2>2. CASE UNCHANGED vars
    BY <2>2 DEF vars
  <2> QED BY <2>1, <2>2
<1>3. IInv /\ [Next]_vars => [Softclock => D!Call]_vars
  BY SoftclockIsCall
<1> QED BY <1>1, <1>2, <1>3, Inductive, PTL DEF Spec, D!Spec, ImplementsDeadlines, Left
=============================================================================

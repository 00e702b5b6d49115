---------------------------- MODULE LuaGCProofs ----------------------------
(***************************************************************************)
(* Proofs about LuaGC, for any heap.  GCInv is the inductive invariant.    *)
(* First come the steps of the collector, which keep it, then the          *)
(* operations of the Lua program with the write barriers they call.  From  *)
(* that the theorems: nothing the program can come to is freed, and        *)
(* finalizers run once.  They assume ~SetsShared: a black closure that has *)
(* its upvalue to itself is what the barrier of lua_setupvalue relies on   *)
(* (OwnersAreBlack), and for a shared one NothingDangles is violated.      *)
(***************************************************************************)
EXTENDS LuaGC, TLAPS

\* Steps are proved by Zenon unless they name another prover.
USE Zenon

(* The objects that are not about to be freed. *)
Good == {o \in Objs : ~IsDead(o)}

Weaks == {"weakv", "weakk"}

(* What an object refers to, weakly or not. *)
Refs(o) ==
  CASE Kind(o) = "thread" -> StackOf(o)
    [] Kind(o) = "upval" -> {UpvalValue(o)} \ {Nil}
    [] OTHER -> {ref[o]} \ {Nil}

(* What the program can hold: not an upvalue. *)
IsValue(v) == v = Nil \/ (v \in Cells /\ tt[v] # "upval")
IsTable(v) == v = Nil \/ (v \in Cells /\ tt[v] = "table")

HeapTypes ==
  /\ tt \in [Cells -> Kinds] /\ tt \in Shapes /\ live \subseteq Cells
  /\ ref \in [Cells -> Values] /\ stack \in [Slots -> Values]
  /\ slot \in [Cells -> Slots \cup {Nil}]

(* What refers to what; a freed cell refers to nothing. *)
HeapInv ==
  /\ HeapTypes
  /\ \A s \in Slots : IsValue(stack[s])
  /\ IsTable(mt) /\ running \in Objs /\ Kind(running) = "thread"
  /\ \A c \in Cells :
       /\ tt[c] \in {"table", "weakv", "weakk", "upval"} => IsValue(ref[c])
       /\ tt[c] = "udata" => IsTable(ref[c])
       /\ tt[c] = "closure" /\ c \in live => ref[c] \in Cells /\ tt[ref[c]] = "upval"
       /\ tt[c] \in {"string", "thread"} => ref[c] = Nil
       /\ slot[c] # Nil => /\ c \in live /\ tt[c] = "upval"
                           /\ Kind(slot[c][1]) = "thread" /\ slot[c][1] \in Objs
       /\ c \notin live /\ tt[c] # "upval" => ref[c] = Nil
       /\ c \notin live /\ tt[c] # "upval" => stack[<<c, 1>>] = Nil

(* What is not dead refers to nothing dead and nothing freed. *)
LiveInv ==
  /\ \A o \in Good : Refs(o) \subseteq Good
  /\ running \in Good /\ mt \in Good \cup {Nil} /\ tmudata \subseteq Good

Colours == {"white", "dead", "gray", "black"}

(* The colours a kind of object may have. *)
ColourOK(m, o) ==
  /\ Kind(o) \in Weaks \cup {"thread", "string"} \/ (Kind(o) = "upval" /\ IsOpen(o)) => m[o] # "black"
  /\ Kind(o) = "udata" \/ (Kind(o) = "upval" /\ ~IsOpen(o)) => m[o] # "gray"

ListTypes(g) ==
  /\ g.gray \subseteq Of(Listed) /\ g.grayagain \subseteq Of({"table", "thread"}) /\ g.weak \subseteq Of(Weaks)
  /\ g.gray \cap g.grayagain = {} /\ g.gray \cap g.weak = {}

(* The state of marking, where the black objects of skip may still refer to white ones. *)
MarkOK(g, skip) ==
  /\ g.marked \in [Cells \cup {Main} -> Colours]
  /\ \A o \in Objs : g.marked[o] # "dead" /\ ColourOK(g.marked, o)
  /\ ListTypes(g)
  /\ \A o \in Of(Listed) : g.marked[o] = "gray" <=> o \in g.gray \cup g.grayagain \cup g.weak
  /\ \A o \in Objs \ skip : g.marked[o] = "black" => Strong(o) \cap White(g.marked) = {}

Sweeping == {"sweepstring", "sweep"}

(* Where the collector is and what that says of the colours. *)
PhaseInv ==
  /\ marked \in [Cells \cup {Main} -> Colours] /\ marked[Main] # "dead"
  /\ \A o \in Objs : ColourOK(marked, o)
  /\ ListTypes(G0) /\ grayagain \cup weak \subseteq Good
  /\ gcstate \in {"pause", "propagate", "sweepstring", "sweep", "finalize"}
  /\ full \in {"no", "sweep", "mark"}
  /\ gcstate # "propagate" => gray = {}
  /\ gcstate = "propagate" => MarkOK(G0, tmudata) /\ marked[Main] = "gray"
  /\ gcstate \in {"pause", "finalize"} => \A o \in Objs : marked[o] = "white" \/ o \in tmudata
  /\ gcstate \in Sweeping =>
       \A o \in Objs : \/ marked[o] = "white" \/ o \in tmudata \/ o \in sweep
                       \/ Kind(o) = "upval" /\ IsOpen(o) /\ slot[o][1] \in sweep
  /\ full = "no" /\ gcstate \in {"pause", "propagate"} => tmudata = {}
  /\ full = "sweep" => gcstate \in Sweeping \cup {"finalize"}
  /\ full = "mark" => gcstate # "pause"
  /\ sweep \subseteq Objs /\ tmudata \subseteq Of({"udata"}) /\ finalized \subseteq Of({"udata"})
  /\ \A u \in Of({"udata"}) : u \in Good \/ u \in finalized
  /\ \A u \in sweep : Kind(u) = "upval" => ~IsOpen(u)

GCInv == HeapInv /\ LiveInv /\ PhaseInv

(* While the collector marks, an upvalue that is marked was reached from a *)
(* closure, which is black by now.                                         *)
OwnersAreBlack ==
  gcstate = "propagate" =>
    \A u \in Of({"upval"}) : u \notin White(marked) =>
      \E d \in Of({"closure"}) : ref[d] = u /\ marked[d] = "black"

(***************************************************************************)
(* Objects, slots and values.                                              *)
(***************************************************************************)

AllObjs == Cells \cup {Main}

(* The collector's record while it marks. *)
Collector ==
  [marked : [AllObjs -> Colours], gray : SUBSET AllObjs, grayagain : SUBSET AllObjs,
   weak : SUBSET AllObjs]

(* The objects in use, and their kinds. *)
LEMMA ObjFacts ==
  ASSUME HeapTypes
  PROVE  /\ Objs \subseteq AllObjs /\ Main \in Objs /\ Main \notin live /\ Nil \notin Objs
         /\ Kind(Main) = "thread"
         /\ \A o \in live : o \in Cells /\ o # Main /\ Kind(o) = tt[o]
         /\ \A o \in Objs : Kind(o) \in Kinds
         /\ \A c \in Cells : c # Main /\ c # Nil /\ Kind(c) = tt[c]
<1>1. "thread" \in Kinds
  BY DEF Kinds
<1> QED BY <1>1, HeapAssumption DEF HeapTypes, Objs, AllObjs, Kind

(* Every stack slot belongs to one thread. *)
LEMMA SlotFacts ==
  /\ \A s \in Slots : s[1] \in AllObjs /\ s \in SlotsOf(s[1])
  /\ \A t \in AllObjs : SlotsOf(t) \subseteq Slots /\ \A s \in SlotsOf(t) : s[1] = t
  /\ \A c \in Cells : <<c, 1>> \in Slots /\ SlotsOf(c) = {<<c, 1>>}
BY HeapAssumption, SMT DEF Slots, SlotsOf, MainStack, AllObjs

(* The value of an upvalue is not an upvalue. *)
LEMMA UpvalFacts ==
  ASSUME HeapInv, NEW u \in live, tt[u] = "upval"
  PROVE  IsValue(UpvalValue(u)) /\ (IsOpen(u) => slot[u] \in Slots)
<1>1. u \in Cells /\ slot[u] \in Slots \cup {Nil}
  BY DEF HeapInv, HeapTypes
<1> QED BY <1>1 DEF HeapInv, UpvalValue, IsOpen

(***************************************************************************)
(* Marking.                                                                *)
(***************************************************************************)

(* What is marked from a userdata or an upvalue: a table, or a value.      *)
LEMMA ThroughFacts ==
  ASSUME HeapInv, NEW o \in Objs
  PROVE  /\ Kind(o) = "udata" => Through(o) = {ref[o]} /\ IsTable(ref[o])
         /\ Kind(o) = "upval" => Through(o) = {UpvalValue(o)} /\ IsValue(UpvalValue(o))
         /\ Kind(o) \notin {"udata", "upval"} => Through(o) = {}
<1>1. CASE o = Main
  BY <1>1, ObjFacts DEF Through, HeapInv
<1>2. CASE o \in live
  <2>1. o \in Cells /\ Kind(o) = tt[o]
    BY <1>2, ObjFacts DEF HeapInv
  <2> QED BY <1>2, <2>1, UpvalFacts DEF Through, HeapInv
<1> QED BY <1>1, <1>2 DEF Objs

(* What one step of reallymarkobject, from S to T, adds to a set of white  *)
(* objects.                                                                *)
LEMMA OneStep ==
  ASSUME NEW S, NEW white, S \subseteq white, NEW U, U = UNION {Through(o) : o \in S},
         NEW T, T = S \cup (U \cap white)
  PROVE  /\ S \subseteq T /\ T \subseteq white
         /\ \A x \in S : Through(x) \cap white \subseteq T
         /\ \A y \in T \ S : \E x \in S : y \in Through(x)
<1>1. \A x \in S : \A y \in Through(x) : y \in U
  OBVIOUS
<1>2. \A y \in U : \E x \in S : y \in Through(x)
  OBVIOUS
<1>3. T = S \cup (U \cap white)
  OBVIOUS
<1> QED BY <1>1, <1>2, <1>3

(* What markvalue does to the colours and to the gray list. *)
LEMMA MarkFacts ==
  ASSUME HeapInv, NEW g \in Collector, NEW values, NEW h, h = Mark(g, values)
  PROVE  /\ h \in Collector /\ h.grayagain = g.grayagain /\ h.weak = g.weak
         /\ White(h.marked) \subseteq White(g.marked)
         /\ values \cap White(h.marked) = {}
         /\ h.gray = g.gray \cup ((White(g.marked) \ White(h.marked)) \cap Of(Listed))
         /\ \A o \in AllObjs : o \notin White(g.marked) \ White(h.marked) => h.marked[o] = g.marked[o]
         /\ \A o \in White(g.marked) \ White(h.marked) :
               /\ h.marked[o] = IF Dark(o) THEN "black" ELSE "gray"
               /\ Through(o) \cap White(h.marked) = {}
<1> DEFINE white == White(g.marked)
           w1 == values \cap white
           w2 == w1 \cup ((UNION {Through(o) : o \in w1}) \cap white)
           new == w2 \cup ((UNION {Through(o) : o \in w2}) \cap white)
           m == [o \in DOMAIN g.marked |-> IF o \notin new THEN g.marked[o]
                                           ELSE IF Dark(o) THEN "black" ELSE "gray"]
<1>a. new = MarkedWith(white, values)
  BY DEF MarkedWith
<1>b. PICK u1 : u1 = UNION {Through(o) : o \in w1}
  OBVIOUS
<1>x. w2 = w1 \cup (u1 \cap white)
  BY <1>b
<1> HIDE DEF w2
<1>c. PICK u2 : u2 = UNION {Through(o) : o \in w2}
  OBVIOUS
<1>y. new = w2 \cup (u2 \cap white)
  BY <1>c
<1> HIDE DEF new
<1>1. h = [g EXCEPT !.marked = m, !.gray = g.gray \cup (new \cap Of(Listed))]
  BY <1>a DEF Mark
<1>e. w1 \subseteq white /\ values \cap white = w1
  OBVIOUS
<1> HIDE DEF w1
<1>f. /\ w1 \subseteq w2 /\ w2 \subseteq white
      /\ \A x \in w1 : Through(x) \cap white \subseteq w2
      /\ \A y \in w2 \ w1 : \E x \in w1 : y \in Through(x)
  BY <1>b, <1>x, <1>e, OneStep, SMT
<1>g. /\ w2 \subseteq new /\ new \subseteq white
      /\ \A x \in w2 : Through(x) \cap white \subseteq new
      /\ \A y \in new \ w2 : \E x \in w2 : y \in Through(x)
  BY <1>c, <1>y, <1>f, OneStep, SMT
<1>2. white \subseteq Objs /\ Objs \subseteq AllObjs /\ new \subseteq white /\ values \cap white \subseteq new
  BY <1>e, <1>f, <1>g, ObjFacts DEF White, HeapInv
<1>3. g.marked \in [AllObjs -> Colours] /\ DOMAIN g.marked = AllObjs
  BY DEF Collector
<1>4. ASSUME NEW o \in new PROVE Through(o) \cap white \subseteq new
  <2>1. CASE o \in w2
    BY <1>g, <2>1
  <2>2. CASE o \notin w2
    <3>1. PICK y \in w2 : o \in Through(y)
      BY <1>g, <2>2
    <3>2. y \notin w1
      BY <1>2, <1>f, <2>2, <3>1
    <3>3. PICK x \in w1 : y \in Through(x)
      BY <1>f, <3>1, <3>2
    <3>4. x \in Objs /\ y \in Objs /\ o \in Objs
      BY <1>2, <1>f, <1>g, <3>1, <3>3
    <3>5. \A z \in Objs : IsValue(z) => Kind(z) # "upval"
      BY ObjFacts DEF IsValue, HeapInv
    <3>6. \A z \in Objs : IsTable(z) => Kind(z) = "table"
      BY ObjFacts, SMT DEF IsTable, HeapInv
    <3>7. Kind(y) # "upval"
      BY <3>3, <3>4, <3>5, <3>6, ThroughFacts, SMT
    <3>8. Kind(o) = "table"
      BY <3>1, <3>4, <3>6, <3>7, ThroughFacts, SMT
    <3> QED BY <3>4, <3>8, ThroughFacts
  <2> QED BY <2>1, <2>2
<1>5. m \in [AllObjs -> Colours]
  BY <1>3 DEF Colours
<1>6. new \subseteq AllObjs /\ \A o \in AllObjs : m[o] = IF o \in new THEN IF Dark(o) THEN "black" ELSE "gray"
                                                          ELSE g.marked[o]
  BY <1>2, <1>3
<1> HIDE DEF m
<1>7. /\ h.marked = m /\ h.gray = g.gray \cup (new \cap Of(Listed))
      /\ h.grayagain = g.grayagain /\ h.weak = g.weak /\ h \in Collector
  <2>1. g.gray \cup (new \cap Of(Listed)) \in SUBSET AllObjs
    BY <1>6 DEF Collector
  <2> QED BY <1>1, <1>5, <2>1 DEF Collector
<1>8. White(h.marked) = white \ new
  BY <1>2, <1>6, <1>7 DEF White
<1>9. values \cap white \subseteq new
  BY <1>2
<1>10. white \ White(h.marked) = new
  BY <1>2, <1>8
<1> HIDE DEF white
<1>11. ASSUME NEW o \in new PROVE Through(o) \cap White(h.marked) = {}
  BY <1>4, <1>8
<1> QED BY <1>6, <1>7, <1>8, <1>9, <1>10, <1>11 DEF white

(* What a black userdata, upvalue, table or closure keeps alive. *)
LEMMA StrongFacts ==
  ASSUME HeapInv, NEW o \in Objs
  PROVE  /\ Kind(o) = "thread" => Strong(o) = StackOf(o)
         /\ Kind(o) = "upval" => Strong(o) = {UpvalValue(o)} \ {Nil}
         /\ Kind(o) \notin Weaks \cup {"thread", "upval"} => Strong(o) = {ref[o]} \ {Nil}
         /\ Kind(o) = "string" => Strong(o) = {}
         /\ Kind(o) \in {"udata", "upval"} => Strong(o) \subseteq Through(o)
         /\ Strong(o) \subseteq Refs(o)
         /\ Kind(o) \notin Weaks => Strong(o) = Refs(o)
<1>1. Kind(o) = "string" => ref[o] = Nil
  BY ObjFacts DEF HeapInv, Objs
<1> QED BY <1>1, ThroughFacts, SMT DEF Strong, Refs, Weaks

(* No open upvalue and no thread has a stack slot whose value marking has not seen. *)
ThreadsDone(g) ==
  \A t \in Of({"thread"}) :
    t \notin White(g.marked) /\ t \notin g.gray => StackOf(t) \cap White(g.marked) = {}
UpvalsDone(g) ==
  \A u \in Of({"upval"}) : u \notin White(g.marked) => UpvalValue(u) \notin White(g.marked)

(* h is g with more objects marked. *)
Advanced(g, h) ==
  /\ White(h.marked) \subseteq White(g.marked)
  /\ h.grayagain \subseteq g.grayagain \cup Of({"thread"})
  /\ ThreadsDone(g) => ThreadsDone(h)
  /\ UpvalsDone(g) => UpvalsDone(h)

(* Marking only ever goes forward. *)
LEMMA AdvancedTransitive ==
  ASSUME NEW a, NEW b, NEW c, Advanced(a, b), Advanced(b, c)
  PROVE  Advanced(a, c)
BY DEF Advanced

(* Marking keeps what the barriers rely on. *)
LEMMA MarkKeeps ==
  ASSUME HeapInv, NEW g \in Collector, NEW skip, MarkOK(g, skip), NEW values,
         NEW h, h = Mark(g, values)
  PROVE  /\ h \in Collector /\ MarkOK(h, skip) /\ Advanced(g, h)
         /\ values \cap White(h.marked) = {}
         /\ h.gray = g.gray \cup ((White(g.marked) \ White(h.marked)) \cap Of(Listed))
         /\ h.grayagain = g.grayagain
<1>1. /\ h \in Collector /\ h.grayagain = g.grayagain /\ h.weak = g.weak
      /\ White(h.marked) \subseteq White(g.marked)
      /\ values \cap White(h.marked) = {}
      /\ h.gray = g.gray \cup ((White(g.marked) \ White(h.marked)) \cap Of(Listed))
      /\ \A o \in AllObjs : o \notin White(g.marked) \ White(h.marked) => h.marked[o] = g.marked[o]
      /\ \A o \in White(g.marked) \ White(h.marked) :
            /\ h.marked[o] = IF Dark(o) THEN "black" ELSE "gray"
            /\ Through(o) \cap White(h.marked) = {}
  BY MarkFacts, SMT
<1>2. Objs \subseteq AllObjs /\ \A o \in Objs : Kind(o) \in Kinds
  BY ObjFacts DEF HeapInv
<1> DEFINE new == White(g.marked) \ White(h.marked)
<1>3. /\ g.marked \in [AllObjs -> Colours] /\ h.marked \in [AllObjs -> Colours]
      /\ new \subseteq Objs
  BY <1>1 DEF Collector, White
<1>4. \A o \in Objs : h.marked[o] # "dead" /\ ColourOK(h.marked, o)
  BY <1>1, <1>2, SMT DEF MarkOK, ColourOK, Dark, Weaks
<1>5. ListTypes(h)
  <2>1. new \cap (g.grayagain \cup g.weak) = {}
    <3>1. ASSUME NEW o \in g.grayagain \cup g.weak PROVE g.marked[o] = "gray" /\ o \in Objs
      BY <3>1 DEF MarkOK, ListTypes, Of, Listed, Weaks
    <3> QED BY <3>1 DEF White
  <2> QED BY <1>1, <1>3, <2>1 DEF ListTypes, MarkOK
<1>6. ASSUME NEW o \in Of(Listed)
      PROVE  h.marked[o] = "gray" <=> o \in h.gray \cup h.grayagain \cup h.weak
  <2>1. o \in Objs /\ o \in AllObjs /\ Kind(o) \in Listed
    BY <1>2 DEF Of
  <2>2. CASE o \in new
    BY <1>1, <2>1, <2>2 DEF Dark, Listed
  <2>3. CASE o \notin new
    BY <1>1, <2>1, <2>3, SMT DEF MarkOK
  <2> QED BY <2>2, <2>3
<1>7. ASSUME NEW o \in Objs \ skip, h.marked[o] = "black"
      PROVE  Strong(o) \cap White(h.marked) = {}
  <2>1. CASE o \in new
    <3>1. Dark(o)
      BY <1>1, <1>7, <2>1
    <3>2. Strong(o) \subseteq Through(o)
      BY <3>1, StrongFacts DEF Dark
    <3> QED BY <1>1, <2>1, <3>2
  <2>2. CASE o \notin new
    <3>1. g.marked[o] = "black"
      BY <1>1, <1>2, <1>7, <2>2
    <3> QED BY <1>1, <3>1 DEF MarkOK
  <2> QED BY <2>1, <2>2
<1>8. MarkOK(h, skip)
  BY <1>3, <1>4, <1>5, <1>6, <1>7 DEF MarkOK, AllObjs
<1>9. ASSUME ThreadsDone(g), NEW t \in Of({"thread"}), t \notin White(h.marked), t \notin h.gray
      PROVE  StackOf(t) \cap White(h.marked) = {}
  <2>1. t \in Of(Listed) /\ t \in Objs
    BY DEF Of, Listed
  <2>2. t \notin White(g.marked) /\ t \notin g.gray
    BY <1>1, <1>9, <2>1
  <2> QED BY <1>1, <1>9, <2>2 DEF ThreadsDone
<1>10. ASSUME UpvalsDone(g), NEW u \in Of({"upval"}), u \notin White(h.marked)
       PROVE  UpvalValue(u) \notin White(h.marked)
  <2>1. u \in Objs /\ Kind(u) = "upval"
    BY DEF Of
  <2>2. CASE u \in new
    BY <1>1, <2>1, <2>2, ThroughFacts, SMT
  <2>3. CASE u \notin new
    BY <1>1, <1>10, <2>3 DEF UpvalsDone
  <2> QED BY <2>2, <2>3
<1>11. Advanced(g, h)
  BY <1>1, <1>9, <1>10 DEF Advanced, ThreadsDone, UpvalsDone
<1> QED BY <1>1, <1>8, <1>11

(* propagatemark of some gray objects. *)
LEMMA PropagateKeeps ==
  ASSUME HeapInv, NEW g \in Collector, NEW skip, MarkOK(g, skip), NEW objs, objs \subseteq g.gray,
         NEW h, h = Propagate(g, objs)
  PROVE  /\ h \in Collector /\ MarkOK(h, skip) /\ Advanced(g, h)
         /\ h.gray \subseteq (g.gray \ objs) \cup (White(g.marked) \ White(h.marked))
<1> DEFINE weaks == objs \cap Of({"weakv", "weakk"})
           threads == objs \cap Of({"thread"})
           strong == objs \ (weaks \cup threads)
           m == [o \in DOMAIN g.marked |-> IF o \in strong THEN "black" ELSE g.marked[o]]
           k == [marked |-> m, gray |-> g.gray \ objs, grayagain |-> g.grayagain \cup threads,
                 weak |-> g.weak \cup weaks]
           values == {ref[o] : o \in strong} \cup UNION {StackOf(t) : t \in threads}
<1>1. h = Mark(k, values)
  BY DEF Propagate
<1>2. /\ objs \subseteq Of(Listed) /\ \A o \in objs : g.marked[o] = "gray"
      /\ objs \cap (g.grayagain \cup g.weak) = {}
  BY DEF MarkOK, ListTypes
<1>3. /\ strong \subseteq Of({"table", "closure"}) /\ weaks \subseteq Of(Weaks)
      /\ weaks \subseteq objs /\ threads \subseteq objs /\ strong \subseteq objs
      /\ threads \subseteq Of({"thread"}) /\ strong \cap (weaks \cup threads) = {}
      /\ objs = strong \cup weaks \cup threads /\ weaks \cap threads = {}
  BY <1>2 DEF Of, Listed, Weaks
<1>4. /\ \A o \in strong : ref[o] \in values
      /\ \A t \in threads : StackOf(t) \subseteq values
  OBVIOUS
<1> HIDE DEF weaks, threads, strong, values
<1>5. Objs \subseteq AllObjs /\ \A o \in Objs : Kind(o) \in Kinds
  BY ObjFacts DEF HeapInv
<1>6. /\ m \in [AllObjs -> Colours]
      /\ \A o \in AllObjs : m[o] = IF o \in strong THEN "black" ELSE g.marked[o]
  BY DEF Collector, Colours
<1>7. /\ k \in Collector /\ k.marked = m /\ k.gray = g.gray \ objs
      /\ k.grayagain = g.grayagain \cup threads /\ k.weak = g.weak \cup weaks
  <2>1. /\ g.gray \ objs \in SUBSET AllObjs /\ g.grayagain \cup threads \in SUBSET AllObjs
        /\ g.weak \cup weaks \in SUBSET AllObjs
    BY <1>3, <1>5 DEF Collector, Of
  <2> QED BY <1>6, <2>1 DEF Collector
<1> HIDE DEF m, k
<1>8. White(k.marked) = White(g.marked)
  BY <1>2, <1>3, <1>5, <1>6, <1>7, SMT DEF White
<1>9. MarkOK(k, skip \cup strong)
  <2>1. \A o \in Objs : k.marked[o] # "dead" /\ ColourOK(k.marked, o)
    BY <1>3, <1>5, <1>6, <1>7 DEF MarkOK, ColourOK, Of, Weaks
  <2>2. ListTypes(k)
    BY <1>2, <1>3, <1>7 DEF MarkOK, ListTypes, Of
  <2>3. ASSUME NEW o \in Of(Listed)
        PROVE  k.marked[o] = "gray" <=> o \in k.gray \cup k.grayagain \cup k.weak
    <3>1. o \in AllObjs
      BY <1>5 DEF Of
    <3>2. g.marked[o] = "gray" <=> o \in g.gray \cup g.grayagain \cup g.weak
      BY DEF MarkOK
    <3> QED BY <1>2, <1>3, <1>6, <1>7, <3>1, <3>2
  <2>4. ASSUME NEW o \in Objs \ (skip \cup strong), k.marked[o] = "black"
        PROVE  Strong(o) \cap White(k.marked) = {}
    BY <1>5, <1>6, <1>7, <1>8, <2>4 DEF MarkOK
  <2> QED BY <1>6, <1>7, <2>1, <2>2, <2>3, <2>4 DEF MarkOK, AllObjs
<1>10. /\ h \in Collector /\ MarkOK(h, skip \cup strong) /\ Advanced(k, h)
       /\ values \cap White(h.marked) = {}
       /\ h.gray = k.gray \cup ((White(k.marked) \ White(h.marked)) \cap Of(Listed))
       /\ h.grayagain = k.grayagain
  BY <1>1, <1>7, <1>9, MarkKeeps, SMT
<1>11. MarkOK(h, skip)
  <2>1. ASSUME NEW o \in strong PROVE Strong(o) \cap White(h.marked) = {}
    <3>1. o \in Objs /\ Strong(o) \subseteq {ref[o]}
      BY <1>3, StrongFacts DEF Of, Weaks
    <3> QED BY <1>4, <1>10, <3>1
  <2> QED BY <1>10, <2>1 DEF MarkOK
<1>12. Advanced(g, h)
  <2>1. /\ White(h.marked) \subseteq White(g.marked)
        /\ h.grayagain \subseteq g.grayagain \cup Of({"thread"})
    BY <1>3, <1>7, <1>8, <1>10 DEF Advanced
  <2>2. UpvalsDone(g) => UpvalsDone(h)
    BY <1>8, <1>10 DEF Advanced, UpvalsDone
  <2>3. ASSUME ThreadsDone(g), NEW t \in Of({"thread"}), t \notin White(h.marked), t \notin h.gray
        PROVE  StackOf(t) \cap White(h.marked) = {}
    <3>1. CASE t \in threads
      BY <1>4, <1>10, <3>1
    <3>2. CASE t \notin threads
      <4>1. t \in Of(Listed) /\ t \notin objs
        BY <1>3, <3>2 DEF Of, Listed, Weaks
      <4>2. t \notin White(g.marked) /\ t \notin g.gray
        BY <1>7, <1>8, <1>10, <2>3, <4>1
      <4> QED BY <2>1, <2>3, <4>2 DEF ThreadsDone
    <3> QED BY <3>1, <3>2
  <2> QED BY <2>1, <2>2, <2>3 DEF Advanced, ThreadsDone
<1> QED BY <1>7, <1>8, <1>10, <1>11, <1>12

-----------------------------------------------------------------------------
(* What the proofs use of the natural numbers and of finite sets.  The     *)
(* library, from which this follows, comes in behind the lemmas            *)
(* (CountingHolds).                                                        *)
Counting ==
  /\ \A T : T \subseteq Nat /\ 0 \in T /\ (\A n \in T : n + 1 \in T) => T = Nat
  /\ \A S, T : IsFiniteSet(S) /\ T \subseteq S =>
       /\ IsFiniteSet(T) /\ Cardinality(T) \in Nat
       /\ Cardinality(T) <= Cardinality(S) /\ (Cardinality(T) = Cardinality(S) => T = S)
  /\ \A S, x : IsFiniteSet(S) => IsFiniteSet(S \cup {x})

(* Induction over the natural numbers, for sets. *)
LEMMA NatSetInduction ==
  ASSUME Counting, NEW T, T \subseteq Nat, 0 \in T, \A n \in T : n + 1 \in T
  PROVE  T = Nat
BY DEF Counting

(* One round of propagateall. *)
Round(h) == IF h.gray = {} THEN h ELSE Propagate(h, h.gray)

AreRounds(r, g, n) == r = [i \in 0 .. n |-> IF i = 0 THEN g ELSE Round(r[i - 1])]

(* The rounds of propagateall, any number of them, are a function. *)
LEMMA RoundsExist ==
  ASSUME Counting, NEW g
  PROVE  \A n \in Nat : \E r : AreRounds(r, g, n)
<1> DEFINE S == {n \in Nat : \E r : AreRounds(r, g, n)}
<1>1. 0 \in S
  <2>1. AreRounds([i \in 0 .. 0 |-> g], g, 0)
    BY SMT DEF AreRounds
  <2> QED BY <2>1
<1>2. ASSUME NEW n \in Nat, n \in S PROVE n + 1 \in S
  <2>1. PICK r : AreRounds(r, g, n)
    BY <1>2
  <2> DEFINE q == [i \in 0 .. (n + 1) |-> IF i = n + 1 THEN Round(r[n]) ELSE r[i]]
  <2>2. ASSUME NEW i \in 0 .. (n + 1) PROVE q[i] = IF i = 0 THEN g ELSE Round(q[i - 1])
    <3>1. CASE i = n + 1
      BY <3>1, SMT
    <3>2. CASE i \in 0 .. n
      <4>1. r[i] = IF i = 0 THEN g ELSE Round(r[i - 1])
        BY <2>1, <3>2 DEF AreRounds
      <4>2. q[i] = r[i] /\ (i # 0 => q[i - 1] = r[i - 1])
        BY <3>2, SMT
      <4> QED BY <4>1, <4>2
    <3> QED BY <3>1, <3>2, SMT
  <2>3. q = [i \in 0 .. (n + 1) |-> q[i]]
    OBVIOUS
  <2> HIDE DEF q
  <2>4. AreRounds(q, g, n + 1)
    BY <2>2, <2>3 DEF AreRounds
  <2> QED BY <2>4, SMT
<1>3. \A n \in S : n + 1 \in S
  BY <1>2
<1>4. S \subseteq Nat
  OBVIOUS
<1> HIDE DEF S
<1>5. S = Nat
  BY <1>1, <1>3, <1>4, NatSetInduction
<1> QED BY <1>5 DEF S

(* propagateall is a number of rounds. *)
LEMMA PropagateallIsRounds ==
  ASSUME Counting, Cardinality(Objs) \in Nat, NEW g
  PROVE  \E r : AreRounds(r, g, Cardinality(Objs)) /\ Propagateall(g) = r[Cardinality(Objs)]
<1> DEFINE c == CHOOSE r : AreRounds(r, g, Cardinality(Objs))
<1>1. Propagateall(g) = c[Cardinality(Objs)]
  BY DEF Propagateall, AreRounds, Round
<1>2. AreRounds(c, g, Cardinality(Objs))
  BY RoundsExist
<1> QED BY <1>1, <1>2

(* There are finitely many objects. *)
LEMMA FiniteObjs ==
  ASSUME Counting, HeapTypes, NEW S, S \subseteq Objs
  PROVE  /\ IsFiniteSet(S) /\ Cardinality(S) \in Nat /\ IsFiniteSet(Objs)
         /\ Cardinality(Objs) \in Nat /\ Cardinality(S) <= Cardinality(Objs)
<1>1. IsFiniteSet(AllObjs)
  BY HeapAssumption DEF Counting, AllObjs
<1>2. Objs \in SUBSET AllObjs
  BY ObjFacts
<1>3. IsFiniteSet(Objs)
  BY <1>1, <1>2 DEF Counting
<1> QED BY <1>3 DEF Counting

(* A set without one of its members. *)
LEMMA FewerObjs ==
  ASSUME Counting, HeapTypes, NEW S, S \subseteq Objs, NEW T, T \subseteq S, NEW x \in S \ T
  PROVE  Cardinality(T) <= Cardinality(S) - 1
<1>1. IsFiniteSet(S) /\ Cardinality(S) \in Nat /\ Cardinality(T) \in Nat
  BY FiniteObjs
<1>2. Cardinality(T) <= Cardinality(S) /\ Cardinality(T) # Cardinality(S)
  BY <1>1 DEF Counting
<1> QED BY <1>1, <1>2, SMT

(* propagateall leaves nothing gray on its list: every round but the last marks a white  *)
(* object.                                                                               *)
LEMMA PropagateallKeeps ==
  ASSUME Counting, HeapInv, NEW g \in Collector, NEW skip, MarkOK(g, skip), NEW h, h = Propagateall(g)
  PROVE  h \in Collector /\ MarkOK(h, skip) /\ Advanced(g, h) /\ h.gray = {}
<1> DEFINE N == Cardinality(Objs)
           P(k) == k \in Collector /\ MarkOK(k, skip) /\ Advanced(g, k)
           W(k) == Cardinality(White(k.marked))
<1>1. /\ N \in Nat /\ HeapTypes /\ \A k : White(k.marked) \subseteq Objs /\ W(k) \in Nat
  <2>1. \A k : White(k.marked) \subseteq Objs
    BY DEF White
  <2> QED BY <2>1, FiniteObjs DEF HeapInv
<1>2. PICK r : AreRounds(r, g, N) /\ h = r[N]
  BY <1>1, PropagateallIsRounds
<1>3. r[0] = g /\ \A i \in 0 .. N : i # 0 => r[i] = Round(r[i - 1])
  BY <1>1, <1>2, SMT DEF AreRounds
<1>4. ASSUME NEW k, P(k)
      PROVE  P(Round(k)) /\ (Round(k).gray # {} => W(Round(k)) <= W(k) - 1)
  <2>1. CASE k.gray = {}
    BY <1>4, <2>1 DEF Round
  <2>2. CASE k.gray # {}
    <3>1. PICK n : n = Propagate(k, k.gray)
      OBVIOUS
    <3>2. /\ n \in Collector /\ MarkOK(n, skip) /\ Advanced(k, n)
          /\ n.gray \subseteq White(k.marked) \ White(n.marked)
      BY <1>4, <3>1, PropagateKeeps, SMT
    <3>3. Advanced(g, n)
      BY <1>4, <3>2, AdvancedTransitive
    <3>4. n.gray # {} => W(n) <= W(k) - 1
      BY <1>1, <3>2, FewerObjs DEF Advanced
    <3> HIDE DEF W
    <3> QED BY <2>2, <3>1, <3>2, <3>3, <3>4 DEF Round
  <2> QED BY <2>1, <2>2
<1>5. P(g) /\ (g.gray # {} => W(g) <= N - 1)
  <2>1. Advanced(g, g)
    BY DEF Advanced
  <2>2. ASSUME NEW o \in g.gray PROVE o \in Objs \ White(g.marked)
    BY DEF MarkOK, ListTypes, Of, White
  <2>3. Objs \subseteq Objs
    OBVIOUS
  <2> QED BY <1>1, <2>1, <2>2, <2>3, FewerObjs
<1> DEFINE S == {n \in Nat : n <= N => P(r[n]) /\ (r[n].gray # {} => W(r[n]) <= N - 1 - n)}
<1> HIDE DEF P, W, N
<1>6. 0 \in S
  BY <1>1, <1>3, <1>5, SMT
<1>7. ASSUME NEW n \in S PROVE n + 1 \in S
  <2> SUFFICES ASSUME n + 1 <= N
               PROVE  P(r[n + 1]) /\ (r[n + 1].gray # {} => W(r[n + 1]) <= N - 1 - (n + 1))
    BY SMT
  <2>1. n \in Nat /\ n <= N /\ n + 1 \in 0 .. N /\ (n + 1) - 1 = n /\ n + 1 # 0
    BY <1>1, <1>7, SMT
  <2>2. P(r[n]) /\ (r[n].gray # {} => W(r[n]) <= N - 1 - n)
    BY <1>7, <2>1
  <2>3. r[n + 1] = Round(r[n])
    BY <1>3, <2>1
  <2>4. P(Round(r[n])) /\ (Round(r[n]).gray # {} => W(Round(r[n])) <= W(r[n]) - 1)
    BY <1>4, <2>2
  <2>5. Round(r[n]).gray # {} => r[n].gray # {}
    BY DEF Round
  <2>6. W(r[n]) \in Nat /\ W(r[n + 1]) \in Nat
    BY <1>1
  <2> QED BY <1>1, <2>1, <2>2, <2>3, <2>4, <2>5, <2>6, SMT
<1>8. S \subseteq Nat
  OBVIOUS
<1>9. N \in S
  <2> HIDE DEF S
  <2> QED BY <1>1, <1>6, <1>7, <1>8, NatSetInduction
<1>10. P(h) /\ (h.gray # {} => W(h) <= N - 1 - N) /\ W(h) \in Nat
  BY <1>1, <1>2, <1>9, SMT
<1> QED BY <1>1, <1>10, SMT DEF P

(***************************************************************************)
(* atomic.                                                                 *)
(***************************************************************************)

(* remarkupvals: after it no upvalue that is marked has a white value. *)
LEMMA RemarkKeeps ==
  ASSUME HeapInv, NEW g \in Collector, NEW skip, skip \subseteq Of({"udata"}), MarkOK(g, skip),
         NEW h, h = Remarkupvals(g)
  PROVE  h \in Collector /\ MarkOK(h, skip) /\ Advanced(g, h) /\ UpvalsDone(h)
<1> DEFINE values == {UpvalValue(u) : u \in {u \in Of({"upval"}) : IsOpen(u) /\ g.marked[u] = "gray"}}
<1>1. h = Mark(g, values)
  BY DEF Remarkupvals
<1>2. \A u \in Of({"upval"}) : IsOpen(u) /\ g.marked[u] = "gray" => UpvalValue(u) \in values
  OBVIOUS
<1> HIDE DEF values
<1>3. /\ h \in Collector /\ MarkOK(h, skip) /\ Advanced(g, h) /\ values \cap White(h.marked) = {}
  BY <1>1, MarkKeeps
<1>4. /\ White(h.marked) \subseteq White(g.marked)
      /\ \A o \in White(g.marked) \ White(h.marked) : Through(o) \cap White(h.marked) = {}
  BY <1>1, MarkFacts, SMT
<1>5. ASSUME NEW u \in Of({"upval"}), u \notin White(h.marked)
      PROVE  UpvalValue(u) \notin White(h.marked)
  <2>1. u \in Objs /\ Kind(u) = "upval" /\ u \notin skip /\ u \in AllObjs
    BY ObjFacts DEF Of, HeapInv
  <2>2. CASE u \in White(g.marked)
    BY <1>4, <1>5, <2>1, <2>2, ThroughFacts
  <2>3. CASE u \notin White(g.marked)
    <3>1. g.marked[u] \in {"gray", "black"} /\ ColourOK(g.marked, u)
      BY <2>1, <2>3 DEF MarkOK, White, Collector, Colours
    <3>2. CASE IsOpen(u)
      BY <1>2, <1>3, <2>1, <3>1, <3>2 DEF ColourOK
    <3>3. CASE ~IsOpen(u)
      <4>1. g.marked[u] = "black"
        BY <2>1, <3>1, <3>3 DEF ColourOK
      <4>2. Strong(u) \cap White(g.marked) = {}
        BY <2>1, <4>1 DEF MarkOK
      <4>3. Nil \notin White(h.marked) /\ Strong(u) = {UpvalValue(u)} \ {Nil}
        BY <2>1, StrongFacts, ObjFacts DEF White, HeapInv
      <4> QED BY <1>4, <4>2, <4>3
    <3> QED BY <3>2, <3>3
  <2> QED BY <2>2, <2>3
<1> QED BY <1>3, <1>5 DEF UpvalsDone

(* marktmu: userdata that wait for their finalizers are marked anew, with their metatables. *)
LEMMA MarktmuKeeps ==
  ASSUME HeapInv, NEW g \in Collector, NEW skip, MarkOK(g, skip), NEW pending,
         skip \subseteq pending, pending \subseteq Of({"udata"}), NEW h, h = Marktmu(g, pending)
  PROVE  /\ h \in Collector /\ MarkOK(h, {}) /\ Advanced(g, h) /\ pending \cap White(h.marked) = {}
         /\ h.grayagain = g.grayagain
<1> DEFINE m == [o \in DOMAIN g.marked |-> IF o \in pending THEN "white" ELSE g.marked[o]]
           b == [g EXCEPT !.marked = m]
<1>1. h = Mark(b, pending)
  BY DEF Marktmu
<1>2. Objs \subseteq AllObjs /\ (\A o \in Objs : Kind(o) \in Kinds) /\ pending \subseteq Objs
  BY ObjFacts DEF HeapInv, Of
<1>3. /\ m \in [AllObjs -> Colours]
      /\ \A o \in AllObjs : m[o] = IF o \in pending THEN "white" ELSE g.marked[o]
  BY DEF Collector, Colours
<1>4. /\ b \in Collector /\ b.marked = m /\ b.gray = g.gray /\ b.grayagain = g.grayagain /\ b.weak = g.weak
  BY <1>3 DEF Collector
<1> HIDE DEF m, b
<1>5. White(b.marked) = White(g.marked) \cup pending
  BY <1>2, <1>3, <1>4 DEF White
<1>6. /\ h \in Collector /\ h.grayagain = g.grayagain /\ h.weak = g.weak
      /\ White(h.marked) \subseteq White(b.marked)
      /\ pending \cap White(h.marked) = {}
      /\ h.gray = g.gray \cup ((White(b.marked) \ White(h.marked)) \cap Of(Listed))
      /\ \A o \in AllObjs : o \notin White(b.marked) \ White(h.marked) => h.marked[o] = m[o]
      /\ \A o \in White(b.marked) \ White(h.marked) :
            /\ h.marked[o] = IF Dark(o) THEN "black" ELSE "gray"
            /\ Through(o) \cap White(h.marked) = {}
  BY <1>1, <1>4, MarkFacts, SMT
<1> DEFINE new == White(b.marked) \ White(h.marked)
<1>7. White(h.marked) \subseteq White(g.marked) /\ pending \subseteq new /\ new \subseteq Objs
  BY <1>5, <1>6, <1>2 DEF White
<1>8. \A o \in Objs : o \notin new => h.marked[o] = g.marked[o] /\ o \notin pending
  BY <1>2, <1>3, <1>6, <1>7
<1> HIDE DEF new
<1>9. \A o \in Objs : h.marked[o] # "dead" /\ ColourOK(h.marked, o)
  BY <1>2, <1>6, <1>8, SMT DEF MarkOK, ColourOK, Dark, Weaks, new
<1>10. ASSUME NEW o \in g.gray \cup g.grayagain \cup g.weak PROVE o \notin new
  <2>1. g.marked[o] = "gray" /\ o \in Of(Listed)
    BY <1>10 DEF MarkOK, ListTypes, Of, Listed, Weaks
  <2>2. o \notin White(g.marked) /\ o \notin pending
    BY <2>1 DEF White, Of, Listed
  <2> QED BY <1>5, <2>2 DEF new
<1>11. ListTypes(h)
  BY <1>6, <1>10 DEF ListTypes, MarkOK, new
<1>12. ASSUME NEW o \in Of(Listed)
       PROVE  h.marked[o] = "gray" <=> o \in h.gray \cup h.grayagain \cup h.weak
  <2>1. o \in Objs /\ o \in AllObjs /\ Kind(o) \in Listed
    BY <1>2 DEF Of
  <2>2. CASE o \in new
    BY <1>6, <2>1, <2>2 DEF Dark, Listed, new
  <2>3. CASE o \notin new
    BY <1>6, <1>8, <2>1, <2>3 DEF MarkOK, new
  <2> QED BY <2>2, <2>3
<1>13. ASSUME NEW o \in Objs, h.marked[o] = "black"
       PROVE  Strong(o) \cap White(h.marked) = {}
  <2>1. CASE o \in new
    <3>1. Dark(o)
      BY <1>6, <1>13, <2>1 DEF new
    <3>2. Strong(o) \subseteq Through(o)
      BY <3>1, StrongFacts DEF Dark
    <3> QED BY <1>6, <2>1, <3>2 DEF new
  <2>2. CASE o \notin new
    <3>1. g.marked[o] = "black" /\ o \notin skip
      BY <1>8, <1>13, <2>2
    <3> QED BY <1>7, <3>1 DEF MarkOK
  <2> QED BY <2>1, <2>2
<1>14. MarkOK(h, {})
  BY <1>6, <1>9, <1>11, <1>12, <1>13 DEF MarkOK, AllObjs, Collector
<1>15. ASSUME ThreadsDone(g), NEW t \in Of({"thread"}), t \notin White(h.marked), t \notin h.gray
       PROVE  StackOf(t) \cap White(h.marked) = {}
  <2>1. t \in Of(Listed) /\ t \in Objs
    BY DEF Of, Listed
  <2>2. t \notin White(g.marked) /\ t \notin g.gray
    BY <1>5, <1>6, <1>15, <2>1
  <2> QED BY <1>7, <1>15, <2>2 DEF ThreadsDone
<1>16. ASSUME UpvalsDone(g), NEW u \in Of({"upval"}), u \notin White(h.marked)
       PROVE  UpvalValue(u) \notin White(h.marked)
  <2>1. u \in Objs /\ Kind(u) = "upval"
    BY DEF Of
  <2>2. CASE u \in new
    BY <1>6, <2>1, <2>2, ThroughFacts, SMT DEF new
  <2>3. CASE u \notin new
    <3>1. u \notin White(g.marked)
      BY <1>5, <1>16, <2>3 DEF new
    <3> QED BY <1>7, <1>16, <3>1 DEF UpvalsDone
  <2> QED BY <2>2, <2>3
<1>17. Advanced(g, h)
  BY <1>6, <1>7, <1>15, <1>16 DEF Advanced, ThreadsDone, UpvalsDone
<1> QED BY <1>6, <1>14, <1>17

(* What marking has come to at the end of atomic. *)
Marked(g) ==
  /\ g \in Collector /\ MarkOK(g, {}) /\ g.gray = {} /\ g.grayagain \subseteq Of({"thread"})
  /\ {Main, running, mt} \cap White(g.marked) = {}
  /\ \A o \in Objs \ White(g.marked) : Kind(o) \notin Weaks => Refs(o) \cap White(g.marked) = {}
  /\ \A o \in Of(Weaks) \ White(g.marked) : o \in g.weak

(* A list of the collector becomes its gray list. *)
LEMMA ListKeeps ==
  ASSUME HeapInv, NEW g \in Collector, NEW skip, MarkOK(g, skip), g.gray = {}, NEW h,
         \/ h = [g EXCEPT !.gray = g.weak, !.weak = {}]
         \/ h = [g EXCEPT !.gray = g.grayagain, !.grayagain = {}]
  PROVE  /\ h \in Collector /\ MarkOK(h, skip) /\ h.marked = g.marked
         /\ h.grayagain \subseteq g.grayagain /\ h.gray \subseteq g.weak \cup g.grayagain
<1>1. /\ h \in Collector /\ h.marked = g.marked
      /\ h.gray \cup h.grayagain \cup h.weak = g.gray \cup g.grayagain \cup g.weak
      /\ h.grayagain \subseteq g.grayagain /\ h.weak \subseteq g.weak
      /\ h.gray \subseteq g.weak \cup g.grayagain
      /\ h.gray \cap h.grayagain \subseteq g.weak \cap g.grayagain
      /\ h.gray \cap h.weak \subseteq g.weak \cap g.grayagain
  BY DEF Collector
<1>2. g.grayagain \subseteq Of(Listed) /\ g.weak \subseteq Of(Listed) /\ g.weak \cap g.grayagain = {}
  BY DEF MarkOK, ListTypes, Of, Listed, Weaks
<1>3. ListTypes(h)
  BY <1>1, <1>2 DEF ListTypes, MarkOK
<1> QED BY <1>1, <1>3 DEF MarkOK

(* The three times atomic propagates before it looks for userdata. *)
AtomicRounds(g1, g2, g3) ==
  /\ g1 = Propagateall(Remarkupvals(G0))
  /\ g2 = Propagateall(Mark([g1 EXCEPT !.gray = g1.weak, !.weak = {}], LateRoots))
  /\ g3 = Propagateall([g2 EXCEPT !.gray = g2.grayagain, !.grayagain = {}])

(* Marking is complete when atomic is about to exchange the whites. *)
LEMMA AtomicMarks ==
  ASSUME Counting, HeapInv, LiveInv, PhaseInv, gcstate = "propagate", gray = {},
         NEW g1, NEW g2, NEW g3, AtomicRounds(g1, g2, g3),
         NEW tmu, tmudata \subseteq tmu, tmu \subseteq Of({"udata"}),
         NEW g4, g4 = Propagateall(Marktmu(g3, tmu))
  PROVE  Marked(g4) /\ tmu \cap White(g4.marked) = {} /\ White(g4.marked) \subseteq White(g3.marked)
<1> DEFINE skip == tmudata
<1>1. /\ MarkOK(G0, skip) /\ marked[Main] = "gray" /\ skip \subseteq Of({"udata"}) /\ G0 \in Collector
      /\ G0.marked = marked
  <2>1. MarkOK(G0, skip) /\ marked[Main] = "gray" /\ skip \subseteq Of({"udata"})
    BY DEF PhaseInv
  <2>2. G0.marked = marked /\ G0.gray = gray /\ G0.grayagain = grayagain /\ G0.weak = weak
    BY DEF G0
  <2>3. gray \in SUBSET AllObjs /\ grayagain \in SUBSET AllObjs /\ weak \in SUBSET AllObjs
    BY <2>1, <2>2, ObjFacts DEF MarkOK, ListTypes, Of, HeapInv
  <2>4. marked \in [AllObjs -> Colours]
    BY DEF PhaseInv, AllObjs
  <2> QED BY <2>1, <2>2, <2>3, <2>4 DEF G0, Collector
<1> HIDE DEF skip
<1>2. PICK r1 : r1 = Remarkupvals(G0)
  OBVIOUS
<1>3. r1 \in Collector /\ MarkOK(r1, skip) /\ Advanced(G0, r1) /\ UpvalsDone(r1)
  BY <1>1, <1>2, RemarkKeeps
<1>4. g1 \in Collector /\ MarkOK(g1, skip) /\ Advanced(r1, g1) /\ g1.gray = {}
  <2>1. g1 = Propagateall(r1)
    BY <1>2 DEF AtomicRounds
  <2> QED BY <1>3, <2>1, PropagateallKeeps
<1>5. PICK a2 : a2 = [g1 EXCEPT !.gray = g1.weak, !.weak = {}]
  OBVIOUS
<1>6. a2 \in Collector /\ MarkOK(a2, skip) /\ a2.marked = g1.marked
  BY <1>4, <1>5, ListKeeps
<1>7. PICK m2 : m2 = Mark(a2, LateRoots)
  OBVIOUS
<1>8. m2 \in Collector /\ MarkOK(m2, skip) /\ Advanced(a2, m2) /\ LateRoots \cap White(m2.marked) = {}
  BY <1>6, <1>7, MarkKeeps
<1>9. g2 = Propagateall(m2)
  BY <1>5, <1>7 DEF AtomicRounds
<1>10. g2 \in Collector /\ MarkOK(g2, skip) /\ Advanced(m2, g2) /\ g2.gray = {}
  BY <1>8, <1>9, PropagateallKeeps
<1>11. PICK a3 : a3 = [g2 EXCEPT !.gray = g2.grayagain, !.grayagain = {}]
  OBVIOUS
<1>12. a3 \in Collector /\ MarkOK(a3, skip) /\ a3.marked = g2.marked
  <2>1. \/ a3 = [g2 EXCEPT !.gray = g2.weak, !.weak = {}]
        \/ a3 = [g2 EXCEPT !.gray = g2.grayagain, !.grayagain = {}]
    BY <1>11
  <2>2. g2 \in Collector /\ MarkOK(g2, skip) /\ g2.gray = {}
    BY <1>10
  <2> QED BY <2>1, <2>2, ListKeeps, Zenon
<1>13. a3.grayagain = {} /\ a3.weak = g2.weak
  BY <1>10, <1>11 DEF Collector
<1>14. g3 \in Collector /\ MarkOK(g3, skip) /\ Advanced(a3, g3) /\ g3.gray = {}
  <2>1. g3 = Propagateall(a3)
    BY <1>11 DEF AtomicRounds
  <2> QED BY <1>12, <2>1, PropagateallKeeps
<1>15. PICK m4 : m4 = Marktmu(g3, tmu)
  OBVIOUS
<1>16. /\ m4 \in Collector /\ MarkOK(m4, {}) /\ Advanced(g3, m4) /\ tmu \cap White(m4.marked) = {}
       /\ m4.grayagain = g3.grayagain
  BY <1>14, <1>15, MarktmuKeeps DEF skip
<1>17. g4 \in Collector /\ MarkOK(g4, {}) /\ Advanced(m4, g4) /\ g4.gray = {}
  BY <1>15, <1>16, PropagateallKeeps
<1>18. UpvalsDone(g4)
  <2>1. UpvalsDone(a2)
    BY <1>3, <1>4, <1>6 DEF Advanced, UpvalsDone
  <2>2. UpvalsDone(g2)
    BY <2>1, <1>8, <1>10 DEF Advanced
  <2>3. UpvalsDone(a3)
    BY <2>2, <1>12 DEF UpvalsDone
  <2> QED BY <2>3, <1>14, <1>16, <1>17 DEF Advanced
<1>19. ThreadsDone(g4)
  <2>1. ASSUME NEW t \in Of({"thread"}), t \notin White(a3.marked) PROVE t \in a3.gray
    <3>1. t \in Of(Listed) /\ t \in Objs /\ Kind(t) = "thread" /\ t \in AllObjs
      BY ObjFacts DEF Of, Listed, HeapInv
    <3>2. a3.marked[t] = "gray"
      BY <1>12, <2>1, <3>1 DEF MarkOK, ColourOK, White, Collector, Colours
    <3>3. t \notin a3.weak
      BY <1>12, <3>1 DEF MarkOK, ListTypes, Of, Weaks
    <3> QED BY <1>12, <1>13, <3>1, <3>2, <3>3 DEF MarkOK
  <2>2. ThreadsDone(a3)
    BY <2>1 DEF ThreadsDone
  <2> QED BY <2>2, <1>14, <1>16, <1>17 DEF Advanced
<1>20. g4.grayagain \subseteq Of({"thread"})
  BY <1>13, <1>14, <1>16, <1>17 DEF Advanced
<1>21. /\ White(g4.marked) \subseteq White(g3.marked) /\ White(g4.marked) \subseteq White(m4.marked)
       /\ White(g4.marked) \subseteq White(m2.marked) /\ White(g4.marked) \subseteq White(marked)
  <2>1. White(g4.marked) \subseteq White(m4.marked) /\ White(m4.marked) \subseteq White(g3.marked)
    BY <1>16, <1>17 DEF Advanced
  <2>2. White(g3.marked) \subseteq White(g2.marked) /\ White(g2.marked) \subseteq White(m2.marked)
    BY <1>10, <1>12, <1>14 DEF Advanced
  <2>3. White(m2.marked) \subseteq White(g1.marked)
    BY <1>6, <1>8 DEF Advanced
  <2>4. White(g1.marked) \subseteq White(r1.marked) /\ White(r1.marked) \subseteq White(marked)
    BY <1>1, <1>3, <1>4 DEF Advanced
  <2> QED BY <2>1, <2>2, <2>3, <2>4
<1>22. {Main, running, mt} \cap White(g4.marked) = {}
  BY <1>1, <1>8, <1>21 DEF LateRoots, White
<1>23. ASSUME NEW o \in Objs, o \notin White(g4.marked), Kind(o) \notin Weaks
       PROVE  Refs(o) \cap White(g4.marked) = {}
  <2>1. Refs(o) = Strong(o) /\ o \in AllObjs /\ Kind(o) \in Kinds
    BY <1>23, StrongFacts, ObjFacts DEF HeapInv
  <2>2. g4.marked[o] \in {"gray", "black"} /\ ColourOK(g4.marked, o)
    BY <1>17, <1>23, <2>1 DEF MarkOK, White, Collector, Colours
  <2>3. CASE g4.marked[o] = "black"
    BY <1>17, <2>1, <2>3 DEF MarkOK
  <2>4. CASE g4.marked[o] = "gray"
    <3>1. CASE Kind(o) = "thread"
      BY <1>17, <1>19, <1>23, <2>1, <3>1, StrongFacts DEF ThreadsDone, Of
    <3>2. CASE Kind(o) = "upval"
      <4>1. Strong(o) \subseteq {UpvalValue(o)} /\ o \in Of({"upval"})
        BY <3>2, StrongFacts DEF Of
      <4> QED BY <1>18, <1>23, <2>1, <4>1, SMT DEF UpvalsDone
    <3>3. CASE Kind(o) = "string"
      BY <2>1, <3>3, StrongFacts, SMT
    <3>4. CASE Kind(o) \in {"table", "closure"}
      <4>1. o \in Of(Listed) /\ o \notin Of({"thread"}) /\ o \notin Of(Weaks)
        BY <3>4 DEF Of, Listed, Weaks
      <4>2. g4.weak \subseteq Of(Weaks)
        BY <1>17 DEF MarkOK, ListTypes
      <4> QED BY <1>17, <1>20, <2>4, <4>1, <4>2 DEF MarkOK
    <3>5. Kind(o) # "udata"
      BY <2>2, <2>4 DEF ColourOK
    <3> QED BY <1>23, <2>1, <3>1, <3>2, <3>3, <3>4, <3>5 DEF Kinds, Weaks
  <2> QED BY <2>2, <2>3, <2>4
<1>24. ASSUME NEW o \in Of(Weaks), o \notin White(g4.marked) PROVE o \in g4.weak
  <2>1. o \in Objs /\ o \in AllObjs /\ Kind(o) \in Weaks /\ o \in Of(Listed) /\ o \notin Of({"thread"})
    BY ObjFacts DEF Of, Weaks, Listed, HeapInv
  <2>2. g4.marked[o] = "gray"
    BY <1>17, <1>24, <2>1 DEF MarkOK, ColourOK, White, Collector, Colours
  <2> QED BY <1>17, <1>20, <2>1, <2>2 DEF MarkOK
<1> QED BY <1>16, <1>17, <1>20, <1>21, <1>22, <1>23, <1>24 DEF Marked

(* A white becomes the other white; nothing else is dead afterwards. *)
LEMMA FlipFacts ==
  ASSUME NEW c \in Colours
  PROVE  /\ Flip(c) \in Colours /\ (Flip(c) = "dead" <=> c = "white")
         /\ (Flip(c) = "black" <=> c = "black") /\ (Flip(c) = "gray" <=> c = "gray")
BY DEF Flip, Colours

(* cleartable only empties weak tables. *)
LEMMA ClearedHeap ==
  ASSUME HeapInv, NEW W, W \subseteq Of(Weaks), NEW C, C \subseteq W,
         ref' = [c \in Cells |-> IF c \in C THEN Nil ELSE ref[c]],
         UNCHANGED <<tt, live, stack, slot, mt, running>>
  PROVE  HeapInv'
<1>1. ref' \in [Cells -> Values] /\ \A c \in Cells : ref'[c] = IF c \in C THEN Nil ELSE ref[c]
  BY DEF HeapInv, HeapTypes, Values
<1>2. \A c \in C : c \in Cells /\ tt[c] \in {"weakv", "weakk"}
  <2>1. \A c \in C : c \in Objs /\ Kind(c) \in Weaks
    BY DEF Of
  <2> QED BY <2>1, ObjFacts DEF HeapInv, Objs, Weaks
<1>3. (\A v : IsValue(v)' <=> IsValue(v)) /\ (\A v : IsTable(v)' <=> IsTable(v))
  BY DEF IsValue, IsTable
<1>4. \A o : Kind(o)' = Kind(o)
  BY DEF Kind
<1>5. IsValue(Nil) /\ Objs' = Objs
  BY DEF IsValue, Objs
<1>6. HeapTypes'
  BY <1>1 DEF HeapInv, HeapTypes
<1>7. (\A s \in Slots : IsValue(stack[s])) /\ IsTable(mt) /\ running \in Objs /\ Kind(running) = "thread"
  BY DEF HeapInv
<1>8. ASSUME NEW c \in Cells
      PROVE  /\ tt[c] \in {"table", "weakv", "weakk", "upval"} => IsValue(ref'[c])
             /\ tt[c] = "udata" => IsTable(ref'[c])
             /\ tt[c] = "closure" /\ c \in live => ref'[c] \in Cells /\ tt[ref'[c]] = "upval"
             /\ tt[c] \in {"string", "thread"} => ref'[c] = Nil
             /\ slot[c] # Nil => /\ c \in live /\ tt[c] = "upval"
                                 /\ Kind(slot[c][1]) = "thread" /\ slot[c][1] \in Objs
             /\ c \notin live /\ tt[c] # "upval" => ref'[c] = Nil
             /\ c \notin live /\ tt[c] # "upval" => stack[<<c, 1>>] = Nil
  BY <1>1, <1>2, <1>5 DEF HeapInv
<1> QED BY <1>3, <1>4, <1>5, <1>6, <1>7, <1>8 DEF HeapInv

(* What atomic does once everything reachable is marked.                   *)
AtomicEnd(g3) ==
  LET found == Separateudata(g3.marked)
      fin == finalized \cup found
      tmu == tmudata \cup {u \in found : ref[u] # Nil}
  IN  \E g4 \in {Propagateall(Marktmu(g3, tmu))} :
      LET kept == {ref[h] : h \in g4.weak} \cap Of({"string"}) IN
      /\ tmudata' = tmu
      /\ finalized' = fin
      /\ marked' = [o \in DOMAIN marked |-> IF o \in kept THEN "gray" ELSE Flip(g4.marked[o])]
      /\ ref' = [c \in Cells |-> IF c \in g4.weak /\ IsCleared(g4.marked, fin, c) THEN Nil ELSE ref[c]]
      /\ gray' = {} /\ grayagain' = g4.grayagain /\ weak' = g4.weak
      /\ sweep' = Objs \ (tmu \cup {u \in Of({"upval"}) : IsOpen(u)})

(* atomic keeps the invariant: what becomes dead is what nothing refers to *)
(* any more.                                                               *)
LEMMA AtomicStep ==
  ASSUME Counting, GCInv, Atomic
  PROVE  GCInv'
<1>1. HeapInv /\ LiveInv /\ PhaseInv /\ gcstate = "propagate" /\ gray = {}
  BY DEF GCInv, Atomic
<1>2. PICK g1 \in {Propagateall(Remarkupvals(G0))} :
        \E g2 \in {Propagateall(Mark([g1 EXCEPT !.gray = g1.weak, !.weak = {}], LateRoots))} :
        \E g3 \in {Propagateall([g2 EXCEPT !.gray = g2.grayagain, !.grayagain = {}])} :
          AtomicEnd(g3)
  BY DEF Atomic, AtomicEnd
<1>3. PICK g2 \in {Propagateall(Mark([g1 EXCEPT !.gray = g1.weak, !.weak = {}], LateRoots))} :
        \E g3 \in {Propagateall([g2 EXCEPT !.gray = g2.grayagain, !.grayagain = {}])} :
          AtomicEnd(g3)
  BY <1>2
<1>4. PICK g3 \in {Propagateall([g2 EXCEPT !.gray = g2.grayagain, !.grayagain = {}])} :
          AtomicEnd(g3)
  BY <1>3
<1>5. PICK found : found = Separateudata(g3.marked)
  OBVIOUS
<1>6. PICK fin : fin = finalized \cup found
  OBVIOUS
<1>7. PICK tmu : tmu = tmudata \cup {u \in found : ref[u] # Nil}
  OBVIOUS
<1>8. PICK g4 \in {Propagateall(Marktmu(g3, tmu))} :
        LET kept == {ref[h] : h \in g4.weak} \cap Of({"string"}) IN
        /\ tmudata' = tmu /\ finalized' = fin
        /\ marked' = [o \in DOMAIN marked |-> IF o \in kept THEN "gray" ELSE Flip(g4.marked[o])]
        /\ ref' = [c \in Cells |-> IF c \in g4.weak /\ IsCleared(g4.marked, fin, c) THEN Nil ELSE ref[c]]
        /\ gray' = {} /\ grayagain' = g4.grayagain /\ weak' = g4.weak
        /\ sweep' = Objs \ (tmu \cup {u \in Of({"upval"}) : IsOpen(u)})
  BY <1>4, <1>5, <1>6, <1>7, ZenonT(30) DEF AtomicEnd
<1>9. PICK kept : kept = {ref[h] : h \in g4.weak} \cap Of({"string"})
  OBVIOUS
<1>10. /\ tmudata' = tmu /\ finalized' = fin
       /\ marked' = [o \in DOMAIN marked |-> IF o \in kept THEN "gray" ELSE Flip(g4.marked[o])]
       /\ ref' = [c \in Cells |-> IF c \in g4.weak /\ IsCleared(g4.marked, fin, c) THEN Nil ELSE ref[c]]
       /\ gray' = {} /\ grayagain' = g4.grayagain /\ weak' = g4.weak
       /\ sweep' = Objs \ (tmu \cup {u \in Of({"upval"}) : IsOpen(u)})
       /\ gcstate' = "sweepstring" /\ UNCHANGED <<tt, live, stack, slot, mt, running, full>>
  BY <1>8, <1>9 DEF Atomic
<1>11. found \subseteq Of({"udata"}) /\ tmu \subseteq Of({"udata"}) /\ fin \subseteq Of({"udata"}) /\ tmudata \subseteq tmu
  BY <1>1, <1>5, <1>6, <1>7 DEF Separateudata, PhaseInv
<1>12. Marked(g4) /\ tmu \cap White(g4.marked) = {} /\ White(g4.marked) \subseteq White(g3.marked)
  <2>1. AtomicRounds(g1, g2, g3)
    BY <1>2, <1>3, <1>4 DEF AtomicRounds
  <2> QED BY <1>1, <1>8, <1>11, <2>1, AtomicMarks
<1>13. PICK white : white = White(g4.marked)
  OBVIOUS
<1>14. /\ g4 \in Collector /\ MarkOK(g4, {}) /\ g4.grayagain \subseteq Of({"thread"}) /\ g4.weak \subseteq Of(Weaks)
       /\ {Main, running, mt} \cap white = {} /\ tmu \cap white = {}
       /\ \A o \in Objs \ white : Kind(o) \notin Weaks => Refs(o) \cap white = {}
       /\ \A o \in Of(Weaks) \ white : o \in g4.weak
  BY <1>12, <1>13 DEF Marked, MarkOK, ListTypes
<1>15. PICK C : C = {c \in g4.weak : IsCleared(g4.marked, fin, c)}
  OBVIOUS
<1>16. /\ ref' = [c \in Cells |-> IF c \in C THEN Nil ELSE ref[c]] /\ C \subseteq g4.weak
       /\ \A h \in g4.weak \ C : ref[h] # Nil /\ Kind(ref[h]) # "string" => ref[h] \notin white
  BY <1>10, <1>13, <1>15 DEF IsCleared
<1>17. HeapInv'
  BY <1>1, <1>10, <1>14, <1>16, ClearedHeap
<1>18. /\ Objs' = Objs /\ (\A o : Kind(o)' = Kind(o)) /\ (\A k : Of(k)' = Of(k))
       /\ (\A o : IsOpen(o)' <=> IsOpen(o)) /\ (\A t : StackOf(t)' = StackOf(t))
  BY <1>10 DEF Objs, Kind, Of, IsOpen, StackOf
<1>19. Objs \subseteq AllObjs /\ Main \in Objs /\ Nil \notin Objs /\ DOMAIN marked = AllObjs
  BY <1>1, ObjFacts DEF HeapInv, PhaseInv, AllObjs
<1>20. /\ marked' \in [AllObjs -> Colours]
       /\ \A o \in AllObjs : marked'[o] = IF o \in kept THEN "gray" ELSE Flip(g4.marked[o])
       /\ \A o \in AllObjs : g4.marked[o] \in Colours
  BY <1>10, <1>14, <1>19, FlipFacts DEF Collector, Colours
<1>21. ASSUME NEW o \in Objs PROVE IsDead(o)' <=> o \in white /\ o \notin kept
  <2>1. g4.marked[o] # "dead" /\ o \in AllObjs
    BY <1>14, <1>19 DEF MarkOK
  <2>2. o \in white <=> g4.marked[o] = "white"
    BY <1>13, <2>1 DEF White
  <2>3. marked'[o] = "dead" <=> o \in white /\ o \notin kept
    BY <1>20, <2>1, <2>2, FlipFacts DEF Colours
  <2> QED BY <1>14, <2>3 DEF IsDead
<1>22. Good' = kept \cup (Objs \ white) /\ kept \subseteq Objs
  BY <1>9, <1>18, <1>21 DEF Good, Of
<1>23. Good = Objs
  BY <1>1 DEF Good, IsDead, PhaseInv, MarkOK, G0
<1>24. ASSUME NEW o \in Good' PROVE Refs(o)' \subseteq Good'
  <2>1. o \in Objs /\ Refs(o) \subseteq Objs
    BY <1>1, <1>22, <1>23 DEF LiveInv
  <2>2. o \in live => o \in Cells
    BY <1>1 DEF HeapInv, HeapTypes
  <2>3. Kind(o) \notin Weaks => Refs(o)' = Refs(o)
    <3>1. Kind(o) \notin Weaks => o \notin C
      BY <1>14, <1>16 DEF Of
    <3>2. Kind(o) \notin Weaks /\ Kind(o) # "thread" => ref'[o] = ref[o]
      BY <1>16, <2>1, <2>2, <3>1 DEF Objs, Kind
    <3>3. Kind(o) = "upval" => UpvalValue(o)' = UpvalValue(o)
      BY <1>10, <1>18, <3>2 DEF UpvalValue, Weaks
    <3> QED BY <1>18, <3>2, <3>3 DEF Refs
  <2>4. CASE o \in kept
    <3>1. Kind(o) = "string"
      BY <1>9, <2>4 DEF Of
    <3>2. Refs(o) = {}
      <4>1. Strong(o) = {} /\ Refs(o) = Strong(o)
        BY <1>1, <2>1, <3>1, StrongFacts DEF Weaks
      <4> QED BY <4>1
    <3> QED BY <2>3, <3>1, <3>2 DEF Weaks
  <2>5. CASE o \notin kept /\ Kind(o) \notin Weaks
    BY <1>14, <1>22, <2>1, <2>3, <2>5
  <2>6. CASE o \notin kept /\ Kind(o) \in Weaks
    <3>1. o \in g4.weak /\ o \in live
      BY <1>14, <1>22, <2>1, <2>6, ObjFacts, <1>1 DEF Of, Objs, HeapInv, Weaks
    <3>2. Refs(o) = {ref[o]} \ {Nil} /\ Refs(o)' = {ref'[o]} \ {Nil}
      BY <1>18, <2>6 DEF Refs, Weaks
    <3>3. CASE o \in C
      BY <1>16, <2>2, <3>1, <3>2, <3>3
    <3>4. CASE o \notin C /\ ref[o] = Nil
      BY <1>16, <2>2, <3>1, <3>2, <3>4
    <3>5. CASE o \notin C /\ ref[o] # Nil
      <4>1. ref'[o] = ref[o] /\ ref[o] \in Objs
        BY <1>16, <2>1, <2>2, <3>1, <3>2, <3>5
      <4>2. CASE Kind(ref[o]) = "string"
        <5>1. ref[o] \in kept
          BY <1>9, <3>1, <4>1, <4>2 DEF Of
        <5> QED BY <1>22, <3>2, <4>1, <5>1
      <4>3. CASE Kind(ref[o]) # "string"
        <5>1. ref[o] \notin white
          BY <1>16, <3>1, <3>5, <4>1, <4>3
        <5>2. ref[o] \in Good'
          BY <1>22, <4>1, <5>1
        <5> QED BY <3>2, <4>1, <5>2
      <4> QED BY <4>2, <4>3
    <3> QED BY <3>3, <3>4, <3>5
  <2> QED BY <2>4, <2>5, <2>6
<1>25. LiveInv'
  <2>1. running \in Objs /\ mt \in Objs \cup {Nil}
    BY <1>1, <1>23 DEF LiveInv
  <2>2. tmu \subseteq Objs
    BY <1>11 DEF Of
  <2>3. running' \in Good' /\ mt' \in Good' \cup {Nil} /\ tmudata' \subseteq Good'
    BY <1>10, <1>14, <1>22, <2>1, <2>2
  <2> QED BY <1>24, <2>3 DEF LiveInv
<1>26. PhaseInv'
  <2>1. ASSUME NEW o \in Objs PROVE ColourOK(marked, o)'
    <3>1. ColourOK(g4.marked, o) /\ o \in AllObjs /\ g4.marked[o] \in Colours
      BY <1>14, <1>19, <1>20 DEF MarkOK
    <3>2. (marked'[o] = "black" => g4.marked[o] = "black") /\ (marked'[o] = "gray" => g4.marked[o] = "gray" \/ o \in kept)
      BY <1>20, <3>1, FlipFacts, SMT
    <3>3. o \in kept => Kind(o) = "string"
      BY <1>9 DEF Of
    <3> QED BY <1>18, <3>1, <3>2, <3>3 DEF ColourOK
  <2>2. ListTypes(G0)'
    <3>1. G0' = [marked |-> marked', gray |-> {}, grayagain |-> g4.grayagain, weak |-> g4.weak]
      BY <1>10 DEF G0
    <3>2. g4.grayagain \subseteq Of({"table", "thread"})
      BY <1>14 DEF Of
    <3> QED BY <1>14, <1>18, <3>1, <3>2 DEF ListTypes
  <2>3. grayagain' \cup weak' \subseteq Good'
    <3>1. ASSUME NEW o \in g4.grayagain \cup g4.weak PROVE o \in Objs /\ o \notin white
      <4>1. o \in Of(Listed) /\ o \in Objs
        BY <1>14, <3>1 DEF Of, Listed, Weaks
      <4>2. g4.marked[o] = "gray"
        BY <1>14, <4>1 DEF MarkOK
      <4> QED BY <1>13, <4>1, <4>2 DEF White
    <3> QED BY <1>10, <1>22, <3>1
  <2>4. ASSUME NEW o \in Objs
        PROVE  \/ o \in tmudata' \/ o \in sweep'
               \/ Kind(o) = "upval" /\ IsOpen(o) /\ slot[o][1] \in sweep'
    <3> SUFFICES ASSUME o \notin tmu, Kind(o) = "upval", IsOpen(o)
                 PROVE  slot[o][1] \in sweep'
      BY <1>10 DEF Of
    <3>1. o \in Cells
      BY <1>1, ObjFacts DEF HeapInv, HeapTypes, Objs
    <3>2. Kind(slot[o][1]) = "thread" /\ slot[o][1] \in Objs
      BY <1>1, <3>1 DEF HeapInv, IsOpen
    <3> QED BY <1>10, <1>11, <3>2 DEF Of
  <2>5. sweep' \subseteq Objs' /\ tmudata' \subseteq Of({"udata"})' /\ finalized' \subseteq Of({"udata"})'
    BY <1>10, <1>11, <1>18
  <2>6. ASSUME NEW u \in Of({"udata"}) PROVE u \in Good' \/ u \in finalized'
    <3>1. CASE u \in white
      BY <1>5, <1>6, <1>10, <1>12, <1>13, <3>1 DEF Separateudata
    <3>2. CASE u \notin white
      BY <1>22, <3>2 DEF Of
    <3> QED BY <3>1, <3>2
  <2>7. marked'[Main] # "dead"
    BY <1>14, <1>19, <1>20, <1>21, <1>18, <1>13, FlipFacts, SMT DEF White, MarkOK
  <2>8. marked' \in [Cells \cup {Main} -> Colours]
    BY <1>20 DEF AllObjs
  <2>9. full' \in {"no", "sweep", "mark"}
    BY <1>1, <1>10 DEF PhaseInv
  <2>10. \A u \in sweep' : Kind(u)' = "upval" => ~IsOpen(u)'
    BY <1>10, <1>18 DEF Of
  <2> QED BY <1>10, <1>18, <2>1, <2>2, <2>3, <2>4, <2>5, <2>6, <2>7, <2>8, <2>9, <2>10 DEF PhaseInv, Sweeping
<1> QED BY <1>17, <1>25, <1>26 DEF GCInv

(***************************************************************************)
(* Sweeping.                                                               *)
(***************************************************************************)

(* The upvalues swept with objs, what is freed, the upvalues that are closed. *)
Swept(objs, upvals, gone, closed) ==
  /\ upvals = {u \in Of({"upval"}) : IsOpen(u) /\ slot[u][1] \in objs}
  /\ gone = {o \in upvals \cup objs : IsDead(o)}
  /\ closed = {u \in upvals \ gone : slot[u][1] \in gone}

(* What sweeplist frees and what it closes: no upvalue is left on the      *)
(* stack of a freed thread.                                                *)
LEMMA SweepSets ==
  ASSUME HeapInv, sweep \subseteq Objs, NEW objs, objs \subseteq sweep,
         NEW upvals, NEW gone, NEW closed, Swept(objs, upvals, gone, closed)
  PROVE  /\ gone \subseteq live /\ gone \subseteq Cells /\ Main \notin gone
         /\ closed \subseteq live /\ \A u \in upvals : u \in Cells /\ tt[u] = "upval" /\ IsOpen(u)
         /\ closed \subseteq upvals /\ closed \cap gone = {}
         /\ \A c \in Cells : slot[c] # Nil /\ c \notin gone \cup closed => slot[c][1] \notin gone
<1> USE DEF Swept
<1>1. /\ Objs \subseteq AllObjs /\ \A o \in live : o \in Cells /\ o # Main /\ Kind(o) = tt[o]
      /\ Kind(Main) = "thread" /\ Main \notin live
  BY ObjFacts DEF HeapInv
<1>2. upvals \subseteq Objs /\ gone \subseteq Objs /\ Main \notin gone
  BY DEF Of, IsDead
<1>3. gone \subseteq live /\ gone \subseteq Cells
  BY <1>1, <1>2 DEF Objs
<1>4. \A u \in upvals : u \in live /\ u \in Cells /\ tt[u] = "upval" /\ IsOpen(u)
  BY <1>1 DEF Of, Objs
<1>5. ASSUME NEW c \in Cells, slot[c] # Nil, c \notin gone \cup closed, slot[c][1] \in gone PROVE FALSE
  <2>1. c \in live /\ tt[c] = "upval" /\ Kind(slot[c][1]) = "thread"
    BY <1>5 DEF HeapInv
  <2>2. slot[c][1] \notin upvals
    BY <1>1, <1>4, <2>1
  <2>3. slot[c][1] \in objs
    BY <1>5, <2>2
  <2>4. c \in upvals
    BY <1>1, <1>5, <2>1, <2>3 DEF Of, Objs, IsOpen
  <2> QED BY <1>5, <2>4
<1> QED BY <1>2, <1>3, <1>4, <1>5

(* sweeplist keeps the heap in order: what it frees refers to nothing. *)
LEMMA SweepHeap ==
  ASSUME HeapInv, LiveInv, DOMAIN marked = AllObjs, sweep \subseteq Objs, NEW objs, objs \subseteq sweep, Sweep(objs)
  PROVE  HeapInv' /\ Good' = Good /\ Objs' \subseteq Objs /\ \A o \in Good : Refs(o)' = Refs(o)
<1>1. PICK upvals : upvals = {u \in Of({"upval"}) : IsOpen(u) /\ slot[u][1] \in objs}
  OBVIOUS
<1>2. PICK gone : gone = {o \in upvals \cup objs : IsDead(o)}
  OBVIOUS
<1>3. PICK closed : closed = {u \in upvals \ gone : slot[u][1] \in gone}
  OBVIOUS
<1>x. Swept(objs, upvals, gone, closed)
  BY <1>1, <1>2, <1>3 DEF Swept
<1>4. /\ gone \subseteq live /\ gone \subseteq Cells /\ Main \notin gone
      /\ closed \subseteq live /\ \A u \in upvals : u \in Cells /\ tt[u] = "upval" /\ IsOpen(u)
      /\ closed \subseteq upvals /\ closed \cap gone = {}
      /\ \A c \in Cells : slot[c] # Nil /\ c \notin gone \cup closed => slot[c][1] \notin gone
  BY <1>x, SweepSets, SMT
<1>5. /\ live' = live \ gone /\ UNCHANGED <<tt, mt, running, tmudata>>
      /\ ref' = [c \in Cells |-> IF c \in gone THEN Nil
                                 ELSE IF c \in closed THEN UpvalValue(c) ELSE ref[c]]
      /\ slot' = [c \in Cells |-> IF c \in gone \cup closed THEN Nil ELSE slot[c]]
      /\ stack' = [s \in Slots |-> IF s[1] \in gone THEN Nil ELSE stack[s]]
      /\ marked' = [o \in DOMAIN marked |-> IF o \in upvals \cup objs THEN "white" ELSE marked[o]]
  BY <1>1, <1>2, <1>3 DEF Sweep
<1>6. /\ Objs \subseteq AllObjs /\ Main \in Objs
      /\ \A o \in live : o \in Cells /\ o # Main /\ Kind(o) = tt[o]
      /\ \A c \in Cells : c # Main /\ c # Nil /\ Kind(c) = tt[c]
  BY ObjFacts DEF HeapInv
<1>7. Objs' = Objs \ gone /\ (\A o : Kind(o)' = Kind(o))
  BY <1>4, <1>5, <1>6 DEF Objs, Kind
<1>8. \A u \in closed : IsValue(UpvalValue(u)) /\ UpvalValue(u) \in Values
  <2>1. ASSUME NEW u \in closed PROVE IsValue(UpvalValue(u))
    BY <1>4, UpvalFacts
  <2> QED BY <2>1 DEF IsValue, Values
<1>9. /\ ref' \in [Cells -> Values]
      /\ \A c \in Cells : ref'[c] = IF c \in gone THEN Nil
                                    ELSE IF c \in closed THEN UpvalValue(c) ELSE ref[c]
  BY <1>5, <1>8 DEF HeapInv, HeapTypes, Values
<1>10. /\ slot' \in [Cells -> Slots \cup {Nil}]
       /\ \A c \in Cells : slot'[c] = IF c \in gone \cup closed THEN Nil ELSE slot[c]
  BY <1>5 DEF HeapInv, HeapTypes
<1>11. /\ stack' \in [Slots -> Values]
       /\ \A s \in Slots : stack'[s] = IF s[1] \in gone THEN Nil ELSE stack[s]
  BY <1>5 DEF HeapInv, HeapTypes, Values
<1>12. (\A v : IsValue(v)' <=> IsValue(v)) /\ (\A v : IsTable(v)' <=> IsTable(v)) /\ IsValue(Nil) /\ IsTable(Nil)
  BY <1>5 DEF IsValue, IsTable
<1>13. \A o \in gone : o \notin Good
  BY <1>2 DEF Good
<1>14. Good' = Good
  <2>1. ASSUME NEW o \in Objs \ gone PROVE IsDead(o)' <=> IsDead(o)
    <3>1. o \in upvals \cup objs => ~IsDead(o)
      BY <1>2
    <3>2. IsDead(o)' <=> o # Main /\ marked'[o] = "dead"
      BY DEF IsDead
    <3>3. o \in DOMAIN marked
      BY <1>6
    <3>4. CASE o \in upvals \cup objs
      BY <1>5, <3>1, <3>2, <3>3, <3>4
    <3>5. CASE o \notin upvals \cup objs
      BY <1>5, <3>2, <3>3, <3>5 DEF IsDead
    <3> QED BY <3>4, <3>5
  <2> QED BY <1>7, <1>13, <2>1 DEF Good
<1>15. HeapInv'
  <2>1. HeapTypes'
    BY <1>4, <1>5, <1>9, <1>10, <1>11 DEF HeapInv, HeapTypes
  <2>2. \A s \in Slots : IsValue(stack'[s])
    BY <1>11, <1>12 DEF HeapInv
  <2>3. running' \in Objs'
    BY <1>5, <1>7, <1>13 DEF LiveInv, Good
  <2>4. ASSUME NEW c \in Cells
        PROVE  /\ tt[c] \in {"table", "weakv", "weakk", "upval"} => IsValue(ref'[c])
               /\ tt[c] = "udata" => IsTable(ref'[c])
               /\ tt[c] = "closure" /\ c \in live' => ref'[c] \in Cells /\ tt[ref'[c]] = "upval"
               /\ tt[c] \in {"string", "thread"} => ref'[c] = Nil
    BY <1>4, <1>5, <1>8, <1>9, <1>12 DEF HeapInv
  <2>5. ASSUME NEW c \in Cells, slot'[c] # Nil
        PROVE  /\ c \in live' /\ tt[c] = "upval"
               /\ Kind(slot'[c][1]) = "thread" /\ slot'[c][1] \in Objs'
    <3>1. slot[c] # Nil /\ slot'[c] = slot[c] /\ c \notin gone \cup closed
      BY <1>10, <2>5
    <3>2. c \in live /\ tt[c] = "upval" /\ Kind(slot[c][1]) = "thread" /\ slot[c][1] \in Objs
      BY <3>1 DEF HeapInv
    <3> QED BY <1>4, <1>5, <1>7, <3>1, <3>2
  <2>6. ASSUME NEW c \in Cells, c \notin live'
        PROVE  tt[c] # "upval" => ref'[c] = Nil /\ stack'[<<c, 1>>] = Nil
    <3>1. <<c, 1>> \in Slots /\ <<c, 1>>[1] = c
      BY SlotFacts
    <3>2. CASE c \in gone
      BY <1>9, <1>11, <3>1, <3>2
    <3>3. CASE c \notin gone
      <4>1. c \notin live /\ c \notin closed
        BY <1>4, <1>5, <2>6, <3>3
      <4> QED BY <1>9, <1>11, <3>1, <3>3, <4>1 DEF HeapInv
    <3> QED BY <3>2, <3>3
  <2>7. IsTable(mt') /\ Kind(running') = "thread"
    BY <1>5 DEF HeapInv
  <2> QED BY <1>5, <1>7, <1>12, <2>1, <2>2, <2>3, <2>4, <2>5, <2>6, <2>7 DEF HeapInv
<1>16. ASSUME NEW o \in Good PROVE Refs(o)' = Refs(o)
  <2>1. o \in Objs /\ o \notin gone /\ o \in AllObjs
    BY <1>6, <1>13 DEF Good
  <2>2. o # Main => o \in Cells /\ Kind(o) = tt[o] /\ o \in live
    BY <1>6, <2>1 DEF Objs
  <2>3. CASE Kind(o) = "thread"
    <3>1. \A s \in SlotsOf(o) : stack'[s] = stack[s]
      BY <1>11, <2>1, SlotFacts
    <3>2. StackOf(o)' = StackOf(o)
      BY <3>1 DEF StackOf
    <3> QED BY <1>7, <2>3, <3>2 DEF Refs
  <2>4. CASE Kind(o) = "upval"
    <3> SUFFICES UpvalValue(o)' = UpvalValue(o)
      BY <1>7, <2>4 DEF Refs
    <3>1. o \in Cells /\ tt[o] = "upval"
      BY <2>2, <2>4, ObjFacts DEF HeapInv
    <3>2. CASE o \in closed
      BY <1>4, <1>9, <1>10, <3>1, <3>2 DEF UpvalValue, IsOpen
    <3>3. CASE o \notin closed
      <4>1. slot'[o] = slot[o] /\ ref'[o] = ref[o]
        BY <1>9, <1>10, <2>1, <3>1, <3>3
      <4>2. IsOpen(o) => stack'[slot[o]] = stack[slot[o]]
        BY <1>4, <1>11, <2>1, <2>2, <3>1, <3>3, UpvalFacts, ObjFacts DEF IsOpen, HeapInv
      <4> QED BY <4>1, <4>2 DEF UpvalValue, IsOpen
    <3> QED BY <3>2, <3>3
  <2>5. CASE Kind(o) \notin {"thread", "upval"}
    <3>1. o \in Cells /\ o \notin closed
      BY <1>4, <2>2, <2>5, ObjFacts DEF HeapInv
    <3>2. ref'[o] = ref[o]
      BY <1>9, <2>1, <3>1
    <3> QED BY <1>7, <2>5, <3>2 DEF Refs
  <2> QED BY <2>3, <2>4, <2>5
<1> QED BY <1>7, <1>14, <1>15, <1>16

(* A step of the sweep. *)
LEMMA SweepStepKeeps ==
  ASSUME GCInv, SweepStep
  PROVE  GCInv'
<1>1. HeapInv /\ LiveInv /\ PhaseInv /\ gcstate \in Sweeping /\ full' = full
  BY DEF GCInv, SweepStep, Sweeping
<1>2. PICK objs \in SUBSET sweep :
         /\ Sweep(objs)
         /\ gcstate' = IF sweep = objs THEN "finalize"
                       ELSE IF \E o \in sweep \ objs : Kind(o) = "string" THEN "sweepstring"
                       ELSE "sweep"
  <2>1. NextToSweep \subseteq sweep
    BY DEF NextToSweep
  <2>2. \A o \in Batches(NextToSweep, sweep) : o \in SUBSET sweep
    BY <2>1 DEF Batches
  <2> QED BY <2>2 DEF SweepStep
<1>3. marked \in [AllObjs -> Colours] /\ DOMAIN marked = AllObjs /\ sweep \subseteq Objs
  BY <1>1 DEF PhaseInv, AllObjs
<1>4. HeapInv' /\ Good' = Good /\ Objs' \subseteq Objs /\ \A o \in Good : Refs(o)' = Refs(o)
  BY <1>1, <1>2, <1>3, SweepHeap
<1>5. PICK upvals : upvals = {u \in Of({"upval"}) : IsOpen(u) /\ slot[u][1] \in objs}
  OBVIOUS
<1>6. PICK gone : gone = {o \in upvals \cup objs : IsDead(o)}
  OBVIOUS
<1>7. PICK closed : closed = {u \in upvals \ gone : slot[u][1] \in gone}
  OBVIOUS
<1>8. /\ gone \subseteq live /\ gone \subseteq Cells /\ Main \notin gone
      /\ \A u \in upvals : u \in Cells /\ tt[u] = "upval" /\ IsOpen(u)
      /\ closed \subseteq upvals
  <2>1. Swept(objs, upvals, gone, closed)
    BY <1>5, <1>6, <1>7 DEF Swept
  <2> QED BY <1>1, <1>3, <2>1, SweepSets, SMT
<1>9. /\ live' = live \ gone /\ UNCHANGED <<tt, mt, running, tmudata, lists>>
      /\ slot' = [c \in Cells |-> IF c \in gone \cup closed THEN Nil ELSE slot[c]]
      /\ marked' = [o \in AllObjs |-> IF o \in upvals \cup objs THEN "white" ELSE marked[o]]
      /\ sweep' = sweep \ objs /\ finalized' = finalized \ gone
  BY <1>2, <1>3, <1>5, <1>6, <1>7 DEF Sweep
<1>10. LiveInv'
  BY <1>1, <1>4, <1>9 DEF LiveInv
<1>11. /\ Objs \subseteq AllObjs /\ Main \in Objs /\ Main \in AllObjs
       /\ \A o \in live : o \in Cells /\ o # Main /\ Kind(o) = tt[o]
       /\ Kind(Main) = "thread"
  BY <1>1, ObjFacts DEF HeapInv, AllObjs
<1>12. Objs' = Objs \ gone /\ (\A o : Kind(o)' = Kind(o)) /\ (\A k : Of(k)' = Of(k) \ gone)
  BY <1>8, <1>9, <1>11 DEF Objs, Kind, Of
<1>13. Good \cap gone = {} /\ Good \subseteq Objs
  BY <1>6 DEF Good
<1>14. /\ marked' \in [AllObjs -> Colours]
       /\ \A o \in AllObjs : marked'[o] = IF o \in upvals \cup objs THEN "white" ELSE marked[o]
  BY <1>3, <1>9 DEF Colours
<1>15. ASSUME NEW o \in Objs', o \notin upvals, Kind(o) = "upval"
       PROVE  (IsOpen(o)' <=> IsOpen(o)) /\ slot'[o] = slot[o]
  <2>1. o \in Cells /\ o \notin gone \cup closed
    BY <1>8, <1>11, <1>12, <1>15 DEF Objs
  <2> QED BY <1>9, <2>1 DEF IsOpen
<1>16. ASSUME NEW o \in Objs' PROVE ColourOK(marked, o)'
  <2>1. o \in Objs /\ o \in AllObjs /\ ColourOK(marked, o)
    BY <1>1, <1>4, <1>11 DEF PhaseInv
  <2>2. CASE o \in upvals \cup objs
    BY <1>14, <2>1, <2>2 DEF ColourOK
  <2>3. CASE o \notin upvals \cup objs
    BY <1>12, <1>14, <1>15, <2>1, <2>3 DEF ColourOK
  <2> QED BY <2>2, <2>3
<1>17. gray' = {} /\ grayagain' = grayagain /\ weak' = weak
  BY <1>1, <1>9 DEF PhaseInv, Sweeping, lists
<1>18. ListTypes(G0)' /\ grayagain' \cup weak' \subseteq Good'
  <2>1. /\ grayagain \subseteq Of({"table", "thread"}) /\ weak \subseteq Of(Weaks)
        /\ grayagain \cup weak \subseteq Good
    BY <1>1 DEF PhaseInv, ListTypes, G0
  <2>2. grayagain \subseteq Of({"table", "thread"})' /\ weak \subseteq Of(Weaks)'
    BY <1>12, <1>13, <2>1
  <2>3. G0'.gray = {} /\ G0'.grayagain = grayagain /\ G0'.weak = weak
    BY <1>17 DEF G0
  <2> QED BY <1>4, <1>17, <2>1, <2>2, <2>3 DEF ListTypes
<1>19. gcstate' \in {"finalize"} \cup Sweeping /\ (gcstate' = "finalize" <=> sweep = objs)
  BY <1>2 DEF Sweeping
<1>20. ASSUME NEW o \in Objs'
       PROVE  \/ marked'[o] = "white" \/ o \in tmudata' \/ o \in sweep'
              \/ Kind(o)' = "upval" /\ IsOpen(o)' /\ slot'[o][1] \in sweep'
  <2>1. o \in Objs /\ o \in AllObjs
    BY <1>4, <1>11
  <2>2. \/ marked[o] = "white" \/ o \in tmudata \/ o \in sweep
        \/ Kind(o) = "upval" /\ IsOpen(o) /\ slot[o][1] \in sweep
    BY <1>1, <2>1 DEF PhaseInv
  <2>3. CASE o \in upvals \cup objs
    BY <1>14, <2>1, <2>3
  <2>4. CASE o \notin upvals \cup objs
    <3>1. marked'[o] = marked[o]
      BY <1>14, <2>1, <2>4
    <3>2. Kind(o) = "upval" /\ IsOpen(o) => slot[o][1] \notin objs
      BY <1>5, <2>1, <2>4 DEF Of
    <3>3. Kind(o) = "upval" => (IsOpen(o)' <=> IsOpen(o)) /\ slot'[o] = slot[o]
      BY <1>15, <2>4
    <3>4. Kind(o)' = Kind(o)
      BY <1>12
    <3> QED BY <1>9, <2>2, <2>4, <3>1, <3>2, <3>3, <3>4, SMT
  <2> QED BY <2>3, <2>4
<1>21. sweep' \subseteq Objs' /\ tmudata' \subseteq Of({"udata"})' /\ finalized' \subseteq Of({"udata"})'
  <2>1. ASSUME NEW o \in sweep \ objs PROVE o \notin gone
    <3>1. o \notin upvals
      BY <1>1, <1>8, <2>1, ObjFacts DEF PhaseInv, HeapInv
    <3> QED BY <1>6, <2>1, <3>1
  <2>2. tmudata \subseteq Good /\ tmudata \subseteq Of({"udata"}) /\ finalized \subseteq Of({"udata"})
    BY <1>1 DEF LiveInv, PhaseInv
  <2> QED BY <1>3, <1>9, <1>12, <1>13, <2>1, <2>2
<1>22. \A u \in Of({"udata"})' : u \in Good' \/ u \in finalized'
  BY <1>1, <1>4, <1>9, <1>12 DEF PhaseInv
<1>23. ASSUME NEW u \in sweep', Kind(u)' = "upval" PROVE ~IsOpen(u)'
  <2>1. u \in sweep /\ u \in Objs' /\ Kind(u) = "upval"
    BY <1>9, <1>12, <1>21, <1>23
  <2>2. ~IsOpen(u)
    BY <1>1, <2>1 DEF PhaseInv
  <2>3. u \notin upvals
    BY <1>8, <2>2
  <2> QED BY <1>15, <2>1, <2>2, <2>3
<1>24. marked'[Main] # "dead"
  BY <1>1, <1>11, <1>14 DEF PhaseInv
<1>25. PhaseInv'
  <2>1. marked' \in [Cells \cup {Main} -> Colours]
    BY <1>14 DEF AllObjs
  <2>2. full' \in {"no", "sweep", "mark"}
    BY <1>1 DEF PhaseInv
  <2>3. gcstate' = "finalize" => sweep' = {}
    BY <1>9, <1>19
  <2> QED BY <1>16, <1>17, <1>18, <1>19, <1>20, <1>21, <1>22, <1>23, <1>24, <2>1, <2>2, <2>3
          DEF PhaseInv, Sweeping
<1> QED BY <1>4, <1>10, <1>25 DEF GCInv

(***************************************************************************)
(* The other steps of the collector.                                       *)
(***************************************************************************)

(* What only depends on the heap. *)
LEMMA SameHeap ==
  ASSUME UNCHANGED heap
  PROVE  /\ Objs' = Objs /\ (\A o : Kind(o)' = Kind(o)) /\ (\A k : Of(k)' = Of(k))
         /\ (\A o : IsOpen(o)' <=> IsOpen(o)) /\ (\A o : Refs(o)' = Refs(o))
         /\ (\A m : White(m)' = White(m)) /\ (\A o : Strong(o)' = Strong(o))
         /\ (\A m, o : ColourOK(m, o)' <=> ColourOK(m, o))
         /\ (\A g : ListTypes(g)' <=> ListTypes(g))
         /\ (\A g, skip : MarkOK(g, skip)' <=> MarkOK(g, skip))
         /\ (HeapInv => HeapInv')
<1>1. UNCHANGED <<tt, live, ref, stack, slot, mt, running>>
  BY DEF heap
<1>2. Objs' = Objs /\ (\A o : Kind(o)' = Kind(o)) /\ (\A o : IsOpen(o)' <=> IsOpen(o))
  BY <1>1 DEF Objs, Kind, IsOpen
<1>3. (\A k : Of(k)' = Of(k)) /\ (\A m : White(m)' = White(m))
  BY <1>2 DEF Of, White
<1>4. (\A o : UpvalValue(o)' = UpvalValue(o)) /\ (\A t : StackOf(t)' = StackOf(t))
  BY <1>1, <1>2 DEF UpvalValue, StackOf
<1>5. \A o : Refs(o)' = Refs(o)
  BY <1>1, <1>2, <1>4 DEF Refs
<1>6. \A o : Strong(o)' = Strong(o)
  BY <1>1, <1>2, <1>4 DEF Strong
<1>7. (\A m, o : ColourOK(m, o)' <=> ColourOK(m, o)) /\ (\A g : ListTypes(g)' <=> ListTypes(g))
  BY <1>2, <1>3 DEF ColourOK, ListTypes
<1>8. \A g, skip : MarkOK(g, skip)' <=> MarkOK(g, skip)
  BY <1>2, <1>3, <1>6, <1>7 DEF MarkOK
<1>9. HeapInv => HeapInv'
  BY <1>1, <1>2 DEF HeapInv, HeapTypes, IsValue, IsTable
<1> QED BY <1>2, <1>3, <1>5, <1>6, <1>7, <1>8, <1>9

(***************************************************************************)
(* The other steps of the collector.                                       *)
(***************************************************************************)

(* A step of marking, from the record it leaves. *)
LEMMA MarkPhase ==
  ASSUME HeapInv, LiveInv, PhaseInv, Good = Objs, UNCHANGED <<heap, tmudata, finalized, sweep>>,
         gcstate' = "propagate", full' \in {"no", "mark"}, full' = "no" => tmudata = {},
         NEW h \in Collector, MarkOK(h, tmudata), Main \notin White(h.marked),
         marked' = h.marked, gray' = h.gray, grayagain' = h.grayagain, weak' = h.weak
  PROVE  GCInv'
<1>1. UNCHANGED heap /\ mt' = mt /\ running' = running /\ slot' = slot
  BY DEF heap
<1>2. /\ Objs' = Objs /\ (\A o : Kind(o)' = Kind(o)) /\ (\A k : Of(k)' = Of(k))
      /\ (\A o : IsOpen(o)' <=> IsOpen(o)) /\ (\A o : Refs(o)' = Refs(o))
      /\ (\A m, o : ColourOK(m, o)' <=> ColourOK(m, o)) /\ (\A g : ListTypes(g)' <=> ListTypes(g))
      /\ (\A g, skip : MarkOK(g, skip)' <=> MarkOK(g, skip)) /\ HeapInv'
  BY <1>1, SameHeap
<1>3. G0' = h
  BY DEF G0, Collector
<1>4. h.marked \in [AllObjs -> Colours] /\ Main \in Objs /\ Main \in AllObjs /\ Kind(Main) = "thread"
  BY ObjFacts DEF Collector, HeapInv, AllObjs
<1>5. \A o \in Objs : h.marked[o] # "dead" /\ ColourOK(h.marked, o)
  BY DEF MarkOK
<1>6. Good' = Objs
  BY <1>2, <1>5 DEF Good, IsDead
<1>7. LiveInv'
  BY <1>1, <1>2, <1>6 DEF LiveInv
<1>8. \A m, o : ColourOK(m, o)' <=> ColourOK(m, o)
  BY <1>2
<1>9. \A o \in Objs' : ColourOK(marked, o)'
  BY <1>2, <1>5 DEF ColourOK
<1>10. MarkOK(h, tmudata)' /\ ListTypes(h)'
  BY <1>2 DEF MarkOK
<1>11. MarkOK(G0, tmudata)' /\ ListTypes(G0)'
  BY <1>3, <1>10
<1>12. marked'[Main] = "gray"
  BY <1>4, <1>5 DEF White, ColourOK, Colours
<1>13. grayagain' \cup weak' \subseteq Good'
  BY <1>3, <1>6, <1>11, <1>2 DEF ListTypes, Of
<1>14. /\ sweep' \subseteq Objs' /\ tmudata' \subseteq Of({"udata"})' /\ finalized' \subseteq Of({"udata"})'
       /\ (\A u \in sweep' : Kind(u)' = "upval" => ~IsOpen(u)') /\ \A u \in Of({"udata"})' : u \in Good'
  BY <1>2, <1>6 DEF PhaseInv, Of
<1>15. marked' \in [Cells \cup {Main} -> Colours]
  BY <1>4 DEF AllObjs
<1>16. PhaseInv'
  BY <1>9, <1>11, <1>12, <1>13, <1>14, <1>15 DEF PhaseInv, Sweeping
<1> QED BY <1>2, <1>7, <1>16 DEF GCInv

(* The record of the collector in a state. *)
LEMMA G0Facts ==
  ASSUME HeapInv, PhaseInv
  PROVE  /\ G0 \in Collector /\ G0.marked = marked /\ G0.gray = gray /\ G0.grayagain = grayagain
         /\ G0.weak = weak
<1>1. gray \in SUBSET AllObjs /\ grayagain \in SUBSET AllObjs /\ weak \in SUBSET AllObjs
  BY ObjFacts DEF PhaseInv, ListTypes, Of, HeapInv, G0
<1>2. marked \in [AllObjs -> Colours]
  BY DEF PhaseInv, AllObjs
<1> QED BY <1>1, <1>2 DEF G0, Collector

(* No object is dead while the collector marks, or between two cycles. *)
LEMMA NothingDead ==
  ASSUME LiveInv, PhaseInv, gcstate \in {"pause", "finalize", "propagate"}
  PROVE  Good = Objs
<1>1. CASE gcstate = "propagate"
  BY <1>1 DEF PhaseInv, MarkOK, Good, IsDead, G0
<1>2. CASE gcstate \in {"pause", "finalize"}
  BY <1>2 DEF PhaseInv, LiveInv, Good, IsDead
<1> QED BY <1>1, <1>2

(* markroot starts with everything white but what waits for its finalizer. *)
LEMMA MarkrootKeeps ==
  ASSUME HeapInv, LiveInv, PhaseInv, gcstate \in {"pause", "finalize"}, Markroot,
         full' \in {"no", "mark"}, full' = "no" => tmudata = {}
  PROVE  GCInv'
<1>1. PICK b : b = [G0 EXCEPT !.gray = {}, !.grayagain = {}, !.weak = {}]
  OBVIOUS
<1>2. PICK h : h = Mark(b, {Main, mt})
  OBVIOUS
<1>3. /\ marked' = h.marked /\ gray' = h.gray /\ grayagain' = {} /\ weak' = {} /\ gcstate' = "propagate"
      /\ UNCHANGED <<heap, sweep, tmudata, finalized>>
  BY <1>1, <1>2 DEF Markroot
<1>4. b \in Collector /\ b.marked = marked /\ b.gray = {} /\ b.grayagain = {} /\ b.weak = {}
  BY <1>1, G0Facts DEF Collector
<1>5. Good = Objs
  BY NothingDead
<1>6. \A o \in Objs : marked[o] = "white" \/ o \in tmudata
  BY DEF PhaseInv
<1>7. MarkOK(b, tmudata)
  <2>1. \A o \in Objs : marked[o] # "dead" /\ ColourOK(marked, o)
    BY <1>5 DEF Good, IsDead, PhaseInv
  <2>2. ListTypes(b)
    BY <1>4 DEF ListTypes
  <2>3. ASSUME NEW o \in Of(Listed) PROVE marked[o] # "gray"
    BY <1>6 DEF PhaseInv, Of, Listed
  <2>4. marked \in [Cells \cup {Main} -> Colours]
    BY DEF PhaseInv
  <2> QED BY <1>4, <1>6, <2>1, <2>2, <2>3, <2>4 DEF MarkOK
<1>8. /\ h \in Collector /\ MarkOK(h, tmudata) /\ {Main, mt} \cap White(h.marked) = {}
  <2>1. PICK roots : roots = {Main, mt}
    OBVIOUS
  <2>2. h = Mark(b, roots)
    BY <1>2, <2>1
  <2>3. h \in Collector /\ MarkOK(h, tmudata) /\ roots \cap White(h.marked) = {}
    BY <1>4, <1>7, <2>2, MarkKeeps
  <2> QED BY <2>1, <2>3
<1>9. h.grayagain = {} /\ h.weak = {}
  BY <1>2, <1>4, MarkFacts
<1> QED BY <1>3, <1>5, <1>8, <1>9, MarkPhase

(* GCSpause: a new cycle. *)
LEMMA StartCycleKeeps ==
  ASSUME GCInv, StartCycle
  PROVE  GCInv'
<1>1. HeapInv /\ LiveInv /\ PhaseInv /\ gcstate = "pause" /\ Markroot /\ full' = full
  BY DEF GCInv, StartCycle
<1>2. full' = "no" /\ tmudata = {}
  BY <1>1 DEF PhaseInv, Sweeping
<1> QED BY <1>1, <1>2, MarkrootKeeps

(* GCSpropagate: a step of propagatemark. *)
LEMMA PropagateStepKeeps ==
  ASSUME GCInv, PropagateStep
  PROVE  GCInv'
<1>1. HeapInv /\ LiveInv /\ PhaseInv /\ gcstate = "propagate"
  BY DEF GCInv, PropagateStep
<1>2. PICK objs \in SUBSET gray :
        LET g == Propagate(G0, objs) IN
        marked' = g.marked /\ gray' = g.gray /\ grayagain' = g.grayagain /\ weak' = g.weak
  <2>1. \A o \in Batches(gray, gray) : o \in SUBSET gray
    BY DEF Batches
  <2> QED BY <2>1 DEF PropagateStep
<1>3. PICK h : h = Propagate(G0, objs)
  OBVIOUS
<1>4. marked' = h.marked /\ gray' = h.gray /\ grayagain' = h.grayagain /\ weak' = h.weak
  BY <1>2, <1>3
<1>5. MarkOK(G0, tmudata) /\ marked[Main] = "gray" /\ G0 \in Collector /\ G0.gray = gray /\ G0.marked = marked
  BY <1>1, G0Facts DEF PhaseInv
<1>6. h \in Collector /\ MarkOK(h, tmudata) /\ Advanced(G0, h)
  BY <1>1, <1>2, <1>3, <1>5, PropagateKeeps
<1>7. Main \notin White(h.marked)
  BY <1>5, <1>6 DEF Advanced, White
<1>8. /\ UNCHANGED <<heap, tmudata, finalized, sweep>> /\ gcstate' = "propagate" /\ full' = full
  BY <1>1 DEF PropagateStep
<1>9. full' \in {"no", "mark"} /\ (full' = "no" => tmudata = {})
  BY <1>1, <1>8 DEF PhaseInv, Sweeping
<1>10. Good = Objs
  BY <1>1, NothingDead
<1> QED BY <1>1, <1>4, <1>6, <1>7, <1>8, <1>9, <1>10, MarkPhase

(* Nothing changes but where the collector is. *)
LEMMA FinishCycleKeeps ==
  ASSUME GCInv, FinishCycle
  PROVE  GCInv'
<1>1. HeapInv /\ LiveInv /\ PhaseInv /\ gcstate = "finalize"
  BY DEF GCInv, FinishCycle
<1>2. CASE full = "sweep"
  <2>1. Markroot /\ full' = "mark"
    BY <1>2 DEF FinishCycle
  <2> QED BY <1>1, <2>1, MarkrootKeeps
<1>3. CASE full # "sweep"
  <2>1. /\ tmudata = {} /\ gcstate' = "pause" /\ full' = "no"
        /\ UNCHANGED <<heap, marked, lists, sweep, tmudata, finalized>>
    BY <1>3 DEF FinishCycle
  <2>2. UNCHANGED heap /\ mt' = mt /\ running' = running /\ gray' = gray /\ grayagain' = grayagain /\ weak' = weak
    BY <2>1 DEF heap, lists
  <2>3. /\ Objs' = Objs /\ (\A o : Kind(o)' = Kind(o)) /\ (\A k : Of(k)' = Of(k))
        /\ (\A o : IsOpen(o)' <=> IsOpen(o)) /\ (\A o : Refs(o)' = Refs(o))
        /\ (\A m, o : ColourOK(m, o)' <=> ColourOK(m, o)) /\ (\A g : ListTypes(g)' <=> ListTypes(g))
        /\ HeapInv'
    BY <1>1, <2>2, SameHeap
  <2>4. Good' = Good /\ G0' = G0
    BY <2>1, <2>2, <2>3 DEF Good, IsDead, G0
  <2>5. LiveInv'
    BY <1>1, <2>1, <2>2, <2>3, <2>4 DEF LiveInv
  <2>6. ListTypes(G0)' /\ \A o \in Objs' : ColourOK(marked, o)'
    BY <1>1, <2>1, <2>3, <2>4 DEF PhaseInv, ListTypes, ColourOK
  <2>7. PhaseInv'
    BY <1>1, <2>1, <2>2, <2>3, <2>4, <2>6 DEF PhaseInv, Sweeping
  <2> QED BY <2>3, <2>5, <2>7 DEF GCInv
<1> QED BY <1>2, <1>3

(* luaC_fullgc gives up a cycle: everything is to be swept. *)
LEMMA FullGCKeeps ==
  ASSUME GCInv, FullGC
  PROVE  GCInv'
<1>1. HeapInv /\ LiveInv /\ PhaseInv /\ full' = "sweep" /\ UNCHANGED <<heap, marked, tmudata, finalized>>
  BY DEF GCInv, FullGC
<1>2. UNCHANGED heap /\ mt' = mt /\ running' = running /\ slot' = slot
  BY <1>1 DEF heap
<1>3. /\ Objs' = Objs /\ (\A o : Kind(o)' = Kind(o)) /\ (\A k : Of(k)' = Of(k))
      /\ (\A o : IsOpen(o)' <=> IsOpen(o)) /\ (\A o : Refs(o)' = Refs(o))
      /\ (\A m, o : ColourOK(m, o)' <=> ColourOK(m, o)) /\ (\A g : ListTypes(g)' <=> ListTypes(g))
      /\ HeapInv'
  BY <1>1, <1>2, SameHeap
<1>4. Good' = Good /\ \A o \in Objs' : ColourOK(marked, o)'
  BY <1>1, <1>2, <1>3 DEF Good, IsDead, PhaseInv, ColourOK
<1>5. LiveInv'
  BY <1>1, <1>2, <1>3, <1>4 DEF LiveInv
<1>6. CASE gcstate \in {"pause", "propagate"}
  <2>1. /\ gray' = {} /\ grayagain' = {} /\ weak' = {} /\ gcstate' = "sweepstring"
        /\ sweep' = Objs \ (tmudata \cup {u \in Of({"upval"}) : IsOpen(u)})
    BY <1>6 DEF FullGC
  <2>2. ListTypes(G0)'
    BY <2>1 DEF ListTypes, G0
  <2>3. ASSUME NEW o \in Objs
        PROVE  \/ o \in tmudata \/ o \in sweep'
               \/ Kind(o) = "upval" /\ IsOpen(o) /\ slot[o][1] \in sweep'
    <3> SUFFICES ASSUME o \notin tmudata, Kind(o) = "upval", IsOpen(o)
                 PROVE  slot[o][1] \in sweep'
      BY <2>1 DEF Of
    <3>1. o \in Cells
      BY <1>1, ObjFacts DEF HeapInv, HeapTypes, Objs
    <3>2. Kind(slot[o][1]) = "thread" /\ slot[o][1] \in Objs
      BY <1>1, <3>1 DEF HeapInv, IsOpen
    <3> QED BY <1>1, <2>1, <3>2 DEF Of, PhaseInv
  <2>4. sweep' \subseteq Objs' /\ \A u \in sweep' : Kind(u)' = "upval" => ~IsOpen(u)'
    BY <1>3, <2>1 DEF Of
  <2>5. PhaseInv'
    BY <1>1, <1>2, <1>3, <1>4, <2>1, <2>2, <2>3, <2>4 DEF PhaseInv, Sweeping
  <2> QED BY <1>3, <1>5, <2>5 DEF GCInv
<1>7. CASE gcstate \notin {"pause", "propagate"}
  <2>1. UNCHANGED <<gray, grayagain, weak, sweep, gcstate>>
    BY <1>7 DEF FullGC, lists
  <2>2. ListTypes(G0)'
    BY <1>1, <1>3, <2>1 DEF PhaseInv, ListTypes, G0
  <2>3. PhaseInv'
    BY <1>1, <1>2, <1>3, <1>4, <1>7, <2>1, <2>2 DEF PhaseInv, Sweeping
  <2> QED BY <1>3, <1>5, <2>3 DEF GCInv
<1> QED BY <1>6, <1>7

(***************************************************************************)
(* Writes to the stack.                                                    *)
(***************************************************************************)

(* What an object refers to after a write: nothing new but the value written. *)
LEMMA WriteRefs ==
  ASSUME HeapTypes, NEW s \in Slots, NEW v, Write(s, v), UNCHANGED <<tt, ref, slot>>, NEW o \in AllObjs
  PROVE  Refs(o)' \subseteq Refs(o) \cup ({v} \ {Nil})
<1>1. stack' = [stack EXCEPT ![s] = v] /\ DOMAIN stack = Slots
  BY DEF Write, HeapTypes
<1>2. \A x \in Slots : stack'[x] = stack[x] \/ stack'[x] = v
  BY <1>1
<1>3. Kind(o)' = Kind(o)
  BY DEF Kind
<1>4. CASE Kind(o) = "thread"
  <2>1. SlotsOf(o) \subseteq Slots
    BY SlotFacts
  <2>2. StackOf(o)' \subseteq StackOf(o) \cup ({v} \ {Nil})
    BY <1>2, <2>1 DEF StackOf
  <2> QED BY <1>3, <1>4, <2>2, SMT DEF Refs
<1>5. CASE Kind(o) = "upval"
  <2>1. o \in Cells
    BY <1>5, ObjFacts DEF AllObjs
  <2>2. IsOpen(o) => slot[o] \in Slots
    BY <2>1 DEF HeapTypes, IsOpen
  <2>3. UpvalValue(o)' = UpvalValue(o) \/ UpvalValue(o)' = v
    BY <1>2, <2>2 DEF UpvalValue, IsOpen
  <2> QED BY <1>3, <1>5, <2>3, SMT DEF Refs
<1>6. CASE Kind(o) \notin {"thread", "upval"}
  BY <1>3, <1>6 DEF Refs
<1> QED BY <1>4, <1>5, <1>6

(* A write, perhaps with new objects, keeps the heap in order. *)
LEMMA WriteHeap ==
  ASSUME HeapInv, NEW s \in Slots, NEW v, IsValue(v), Write(s, v), UNCHANGED <<tt, ref, slot, mt, running>>,
         NEW N, N \subseteq Cells, \A c \in N : tt[c] # "closure", live' = live \cup N, s[1] \in Objs'
  PROVE  HeapInv'
<1>1. stack' = [stack EXCEPT ![s] = v] /\ DOMAIN stack = Slots
  BY DEF Write, HeapInv, HeapTypes
<1>2. v \in Values /\ stack' \in [Slots -> Values]
  BY <1>1 DEF IsValue, Values, HeapInv, HeapTypes
<1>3. \A x \in Slots : stack'[x] = IF x = s THEN v ELSE stack[x]
  BY <1>1
<1>4. /\ (\A x : IsValue(x)' <=> IsValue(x)) /\ (\A x : IsTable(x)' <=> IsTable(x))
      /\ (\A o : Kind(o)' = Kind(o)) /\ Objs \subseteq Objs' /\ live \subseteq live'
  BY DEF IsValue, IsTable, Kind, Objs
<1>5. HeapTypes'
  BY <1>2 DEF HeapInv, HeapTypes
<1>6. \A x \in Slots : IsValue(stack'[x])
  BY <1>3 DEF HeapInv
<1>7. ASSUME NEW c \in Cells, c \notin live', tt[c] # "upval" PROVE stack'[<<c, 1>>] = Nil
  <2>1. <<c, 1>> \in Slots /\ <<c, 1>>[1] = c /\ c # Main
    BY SlotFacts, HeapAssumption
  <2>2. <<c, 1>> # s
    BY <1>7, <2>1 DEF Objs
  <2> QED BY <1>3, <1>4, <1>7, <2>1, <2>2 DEF HeapInv
<1>8. ASSUME NEW c \in Cells
      PROVE  /\ tt[c] \in {"table", "weakv", "weakk", "upval"} => IsValue(ref[c])
             /\ tt[c] = "udata" => IsTable(ref[c])
             /\ tt[c] = "closure" /\ c \in live' => ref[c] \in Cells /\ tt[ref[c]] = "upval"
             /\ tt[c] \in {"string", "thread"} => ref[c] = Nil
             /\ slot[c] # Nil => /\ c \in live' /\ tt[c] = "upval"
                                 /\ Kind(slot[c][1]) = "thread" /\ slot[c][1] \in Objs'
             /\ c \notin live' /\ tt[c] # "upval" => ref[c] = Nil
  BY <1>4 DEF HeapInv
<1>9. IsTable(mt) /\ running \in Objs' /\ Kind(running) = "thread"
  BY <1>4 DEF HeapInv
<1> QED BY <1>4, <1>5, <1>6, <1>7, <1>8, <1>9 DEF HeapInv

(* The slots of a live thread. *)
LEMMA LiveSlot ==
  ASSUME HeapInv, NEW s \in SlotsOf(running)
  PROVE  s \in Slots /\ s[1] = running /\ s[1] \in Objs /\ Kind(s[1]) = "thread"
<1>1. running \in AllObjs /\ running \in Objs /\ Kind(running) = "thread"
  BY ObjFacts DEF HeapInv
<1> QED BY <1>1, SlotFacts

(* GCTM: the userdata that is finalized comes back to the program. *)
LEMMA GctmKeeps ==
  ASSUME GCInv, Gctm
  PROVE  GCInv'
<1>1. HeapInv /\ LiveInv /\ PhaseInv /\ gcstate = "finalize" /\ full # "sweep"
  BY DEF GCInv, Gctm
<1>2. PICK u \in tmudata, s \in SlotsOf(running) :
        /\ tmudata' = tmudata \ {u}
        /\ marked' = [marked EXCEPT ![u] = "white"]
        /\ stack' = [stack EXCEPT ![s] = IF ref[u] = Nil THEN @ ELSE u]
  BY DEF Gctm
<1>3. UNCHANGED <<tt, live, ref, slot, mt, running, gcstate, gray, grayagain, weak, sweep, finalized, full>>
  BY DEF Gctm, lists
<1>4. s \in Slots /\ s[1] \in Objs
  BY <1>1, LiveSlot
<1>5. /\ Objs' = Objs /\ (\A o : Kind(o)' = Kind(o)) /\ (\A k : Of(k)' = Of(k))
      /\ (\A o : IsOpen(o)' <=> IsOpen(o))
  BY <1>3 DEF Objs, Kind, Of, IsOpen
<1>6. u \in Good /\ u \in Of({"udata"}) /\ Good = Objs /\ Objs \subseteq AllObjs /\ Main \in Objs
  BY <1>1, NothingDead, ObjFacts DEF LiveInv, PhaseInv, HeapInv
<1>7. u \in Cells /\ tt[u] = "udata" /\ u # Main /\ u \in AllObjs
  <2>1. u \in Objs /\ Kind(u) = "udata"
    BY <1>6 DEF Of
  <2> QED BY <1>1, <1>6, <2>1, ObjFacts DEF HeapInv, Objs
<1>8. PICK v : v = IF ref[u] = Nil THEN stack[s] ELSE u
  OBVIOUS
<1>9. Write(s, v)
  BY <1>2, <1>8 DEF Write
<1>10. IsValue(v)
  BY <1>1, <1>4, <1>7, <1>8 DEF HeapInv, IsValue
<1>11. HeapInv'
  <2>1. PICK N : N = {}
    OBVIOUS
  <2>3. live' = live \cup N /\ s[1] \in Objs' /\ N \subseteq Cells /\ \A c \in N : tt[c] # "closure"
    BY <1>3, <1>4, <1>5, <2>1
  <2>2. UNCHANGED <<tt, ref, slot, mt, running>>
    BY <1>3
  <2> QED BY <1>1, <1>4, <1>9, <1>10, <2>2, <2>3, WriteHeap
<1>12. marked \in [AllObjs -> Colours]
  BY <1>1 DEF PhaseInv, AllObjs
<1>13. /\ marked' \in [AllObjs -> Colours]
       /\ \A o \in AllObjs : marked'[o] = IF o = u THEN "white" ELSE marked[o]
  BY <1>2, <1>7, <1>12 DEF Colours
<1>14. Good' = Good
  BY <1>5, <1>6, <1>7, <1>13 DEF Good, IsDead
<1>15. v \in Good \cup {Nil}
  <2>1. CASE ref[u] = Nil
    <3>1. s[1] = running /\ running \in Good /\ Refs(running) = StackOf(running)
      BY <1>1, LiveSlot DEF LiveInv, HeapInv, Refs
    <3>2. stack[s] \in StackOf(running) \cup {Nil}
      BY DEF StackOf
    <3> QED BY <1>1, <1>8, <2>1, <3>1, <3>2 DEF LiveInv
  <2>2. CASE ref[u] # Nil
    BY <1>6, <1>8, <2>2
  <2> QED BY <2>1, <2>2
<1>16. LiveInv'
  <2>1. ASSUME NEW o \in Good PROVE Refs(o)' \subseteq Good
    <3>1. HeapTypes /\ o \in AllObjs /\ UNCHANGED <<tt, ref, slot>>
      BY <1>1, <1>3, <1>6 DEF HeapInv
    <3>2. Refs(o)' \subseteq Refs(o) \cup ({v} \ {Nil})
      BY <1>4, <1>9, <3>1, WriteRefs
    <3> QED BY <1>1, <1>15, <3>2 DEF LiveInv
  <2> QED BY <1>1, <1>2, <1>3, <1>14, <2>1 DEF LiveInv
<1>17. \A o \in Objs' : ColourOK(marked, o)'
  <2>1. \A o \in Objs : ColourOK(marked, o)
    BY <1>1 DEF PhaseInv
  <2> QED BY <1>5, <1>6, <1>13, <2>1 DEF ColourOK
<1>18. ListTypes(G0)'
  BY <1>1, <1>3, <1>5 DEF PhaseInv, ListTypes, G0
<1>19. \A o \in Objs' : marked'[o] = "white" \/ o \in tmudata'
  BY <1>1, <1>2, <1>5, <1>6, <1>13 DEF PhaseInv
<1>20. marked'[Main] # "dead" /\ marked' \in [Cells \cup {Main} -> Colours]
  BY <1>1, <1>6, <1>7, <1>13 DEF PhaseInv, AllObjs
<1>21. grayagain' \cup weak' \subseteq Good' /\ gray' = {}
  BY <1>1, <1>3, <1>14 DEF PhaseInv
<1>22. PhaseInv'
  BY <1>1, <1>2, <1>3, <1>5, <1>14, <1>17, <1>18, <1>19, <1>20, <1>21 DEF PhaseInv, Sweeping
<1> QED BY <1>11, <1>16, <1>22 DEF GCInv

(***************************************************************************)
(* What the program can get at.                                            *)
(***************************************************************************)

(* Values in the stack of a thread that is not dead. *)
LEMMA StackGood ==
  ASSUME HeapInv, LiveInv, NEW t \in Good, Kind(t) = "thread", NEW v \in StackOf(t)
  PROVE  v \in Good /\ v \in Cells /\ IsValue(v)
<1>1. Refs(t) = StackOf(t)
  BY DEF Refs
<1>2. t \in AllObjs /\ SlotsOf(t) \subseteq Slots
  BY ObjFacts, SlotFacts DEF HeapInv, Good
<1>3. PICK s \in SlotsOf(t) : v = stack[s] /\ v # Nil
  BY DEF StackOf
<1>4. IsValue(v)
  BY <1>2, <1>3 DEF HeapInv
<1> QED BY <1>1, <1>3, <1>4 DEF LiveInv, IsValue

(* What the program has in its stacks is in use and not dead. *)
LEMMA HeldGood ==
  ASSUME HeapInv, LiveInv, PhaseInv
  PROVE  \A v \in Held : v \in Good /\ v \in Cells /\ v \in live /\ IsValue(v)
<1>1. Main \in Good /\ running \in Good /\ Kind(Main) = "thread" /\ Kind(running) = "thread"
  BY ObjFacts DEF HeapInv, LiveInv, Good, IsDead
<1> DEFINE mine == StackOf(Main) \cup StackOf(running)
           theirs == UNION {StackOf(t) : t \in {t \in mine : Kind(t) = "thread"}}
<1>2. Held = mine \cup theirs
  BY DEF Held
<1>3. \A v \in mine : v \in Good /\ v \in Cells /\ IsValue(v)
  BY <1>1, StackGood
<1>4. \A v \in theirs : \E t \in mine : Kind(t) = "thread" /\ v \in StackOf(t)
  OBVIOUS
<1> HIDE DEF mine, theirs
<1>5. \A v \in theirs : v \in Good /\ v \in Cells /\ IsValue(v)
  BY <1>3, <1>4, StackGood
<1>6. \A v : v \in Good /\ v \in Cells => v \in live
  BY HeapAssumption DEF Good, Objs
<1> QED BY <1>2, <1>3, <1>5, <1>6

(* What the program gets from there, with a weak table among it, is too. *)
LEMMA GotGood ==
  ASSUME HeapInv, LiveInv, PhaseInv, NEW v \in Held \cup Got(Held)
  PROVE  v \in Good \cup {Nil} /\ IsValue(v)
<1>1. \A o \in Held : o \in Good /\ o \in Cells /\ o \in live /\ IsValue(o) /\ Kind(o) = tt[o]
  BY HeldGood, ObjFacts DEF HeapInv
<1>2. CASE v \in Held
  BY <1>1, <1>2
<1>3. CASE v \in {mt, Nil}
  BY <1>3 DEF LiveInv, HeapInv, IsTable, IsValue
<1>4. ASSUME NEW o \in Held, Kind(o) \in {"table", "weakv", "weakk", "udata"}, v = ref[o]
      PROVE  v \in Good \cup {Nil} /\ IsValue(v)
  <2>1. Refs(o) = {ref[o]} \ {Nil} /\ Refs(o) \subseteq Good
    BY <1>1, <1>4 DEF Refs, LiveInv
  <2>2. IsValue(ref[o])
    BY <1>1, <1>4, ZenonT(30) DEF HeapInv, IsTable, IsValue
  <2> QED BY <1>4, <2>1, <2>2
<1>5. ASSUME NEW c \in Held, Kind(c) = "closure", v = UpvalValue(ref[c])
      PROVE  v \in Good \cup {Nil} /\ IsValue(v)
  <2>1. ref[c] \in Cells /\ tt[ref[c]] = "upval" /\ ref[c] # Nil
    BY <1>1, <1>5, HeapAssumption, ZenonT(30) DEF HeapInv
  <2>2. Refs(c) = {ref[c]} \ {Nil} /\ Refs(c) \subseteq Good
    BY <1>1, <1>5 DEF Refs, LiveInv
  <2>3. ref[c] \in Good /\ ref[c] \in live /\ Kind(ref[c]) = "upval"
    BY <2>1, <2>2, ObjFacts, HeapAssumption DEF Good, Objs, HeapInv
  <2>4. Refs(ref[c]) = {UpvalValue(ref[c])} \ {Nil} /\ Refs(ref[c]) \subseteq Good
    BY <2>3 DEF Refs, LiveInv
  <2> QED BY <1>5, <2>1, <2>3, <2>4, UpvalFacts
<1> QED BY <1>2, <1>3, <1>4, <1>5 DEF Got

(***************************************************************************)
(* The operations of the program while the collector marks.                *)
(***************************************************************************)

(* The values of a black object. *)
LEMMA BlackFacts ==
  ASSUME HeapInv, NEW o \in Objs, NEW m, m[o] = "black", ColourOK(m, o)
  PROVE  /\ o \in live /\ o \in Cells /\ Kind(o) = tt[o]
         /\ Kind(o) \notin Weaks \cup {"thread", "string"} /\ (Kind(o) = "upval" => ~IsOpen(o))
         /\ Strong(o) = {ref[o]} \ {Nil} /\ Refs(o) = {ref[o]} \ {Nil}
<1>1. Kind(o) \notin Weaks \cup {"thread", "string"} /\ (Kind(o) = "upval" => ~IsOpen(o))
  BY DEF ColourOK
<1>2. o \in live /\ o \in Cells /\ Kind(o) = tt[o]
  BY <1>1, ObjFacts DEF HeapInv, Objs
<1> QED BY <1>1, <1>2 DEF Strong, Refs, UpvalValue, Weaks

(* The record k of the collector in the next state, from a record h of this one: new      *)
(* objects are white, a closed upvalue may turn black, and what black objects refer to is *)
(* as before or marked.                                                                   *)
LEMMA MarkFrame ==
  ASSUME HeapInv, LiveInv, Good = Objs, HeapInv', UNCHANGED tt, Objs \subseteq Objs',
         NEW h \in Collector, MarkOK(h, {}), NEW k \in Collector,
         k.gray = h.gray, k.grayagain = h.grayagain, k.weak = h.weak,
         \A o \in Objs : \/ k.marked[o] = h.marked[o]
                         \/ Kind(o) = "upval" /\ k.marked[o] = "black" /\ h.marked[o] = "gray",
         \A o \in Objs' \ Objs : k.marked[o] = "white",
         \A o \in Objs : Kind(o) = "upval" =>
           \/ IsOpen(o)' <=> IsOpen(o)
           \/ IsOpen(o) /\ ~IsOpen(o)' /\ k.marked[o] # "gray",
         \A o \in Objs : Kind(o) = "upval" /\ k.marked[o] = "black" => ~IsOpen(o)',
         \A o \in Objs : k.marked[o] = "black" =>
           \/ h.marked[o] = "black" /\ ref'[o] = ref[o]
           \/ ref'[o] \in (Objs \ White(h.marked)) \cup {Nil}
  PROVE  MarkOK(k, {})'
<1>1. /\ (\A o : Kind(o)' = Kind(o)) /\ Objs \subseteq AllObjs /\ Nil \notin Objs /\ Objs' \subseteq AllObjs
      /\ Nil \notin Objs'
  <2>1. Objs' \subseteq AllObjs /\ Nil \notin Objs'
    BY HeapAssumption DEF HeapInv, HeapTypes, Objs, AllObjs
  <2> QED BY <2>1, ObjFacts DEF HeapInv, Kind
<1>2. \A o \in Objs : h.marked[o] # "dead" /\ ColourOK(h.marked, o)
  BY DEF MarkOK
<1>3. ASSUME NEW o \in Objs' PROVE k.marked[o] # "dead" /\ ColourOK(k.marked, o)'
  <2>1. CASE o \in Objs
    BY <1>1, <1>2, <2>1 DEF ColourOK, Weaks
  <2>2. CASE o \notin Objs
    BY <1>1, <2>2 DEF ColourOK
  <2> QED BY <2>1, <2>2
<1>4. \A kinds : Of(kinds) \subseteq Of(kinds)' /\ \A o \in Of(kinds)' : o \in Objs => o \in Of(kinds)
  BY <1>1 DEF Of
<1>5. ListTypes(k)'
  BY <1>4 DEF MarkOK, ListTypes
<1>6. ASSUME NEW o \in Of(Listed)'
      PROVE  k.marked[o] = "gray" <=> o \in k.gray \cup k.grayagain \cup k.weak
  <2>1. o \in Objs' /\ Kind(o) \in Listed
    BY <1>1 DEF Of
  <2>2. CASE o \in Objs
    <3>1. o \in Of(Listed) /\ k.marked[o] = h.marked[o]
      BY <1>4, <2>1, <2>2 DEF Listed
    <3> QED BY <3>1 DEF MarkOK
  <2>3. CASE o \notin Objs
    BY <2>1, <2>3 DEF MarkOK, ListTypes, Of
  <2> QED BY <2>2, <2>3
<1>7. ASSUME NEW x \in Objs, x \notin White(h.marked) PROVE x \notin White(k.marked)'
  BY <1>7 DEF White
<1>8. ASSUME NEW o \in Objs', k.marked[o] = "black"
      PROVE  Strong(o)' \cap White(k.marked)' = {}
  <2>1. o \in Objs
    BY <1>8
  <2>2. ColourOK(k.marked, o)'
    BY <1>3
  <2>3. Strong(o)' = {ref'[o]} \ {Nil}
    <3>1. Kind(o)' \notin Weaks \cup {"thread", "string"} /\ (Kind(o)' = "upval" => ~IsOpen(o)')
      BY <1>8, <2>2 DEF ColourOK
    <3> QED BY <3>1 DEF Strong, UpvalValue, Weaks
  <2>4. ref'[o] \in (Objs \ White(h.marked)) \cup {Nil}
    <3>1. CASE h.marked[o] = "black" /\ ref'[o] = ref[o]
      <4>1. Strong(o) = {ref[o]} \ {Nil} /\ Refs(o) = {ref[o]} \ {Nil}
        BY <1>2, <2>1, <3>1, BlackFacts
      <4>2. Strong(o) \cap White(h.marked) = {} /\ Refs(o) \subseteq Objs
        BY <2>1, <3>1 DEF MarkOK, LiveInv
      <4> QED BY <3>1, <4>1, <4>2
    <3> QED BY <1>8, <2>1, <3>1
  <2> QED BY <1>7, <2>3, <2>4
<1>9. k.marked \in [Cells \cup {Main} -> Colours]
  BY DEF Collector, AllObjs
<1> QED BY <1>3, <1>5, <1>6, <1>8, <1>9 DEF MarkOK

(* Where the collector is does not change with the program. *)
LEMMA ProgramPhase ==
  ASSUME HeapInv, LiveInv, PhaseInv, HeapInv', UNCHANGED <<tt, gcstate, sweep, tmudata, finalized, full>>,
         marked' \in [AllObjs -> Colours], marked'[Main] = marked[Main],
         \A o \in Objs' : ColourOK(marked, o)',
         ListTypes(G0)', grayagain' \cup weak' \subseteq Good', gcstate # "propagate" => gray' = {},
         gcstate = "propagate" => MarkOK(G0, tmudata)',
         gcstate # "propagate" =>
           \A o \in Objs' : \/ marked'[o] = "white"
                            \/ o \in Objs /\ marked[o] # "white" /\ (Kind(o) = "upval" => slot'[o] = slot[o]),
         \A o \in Objs : o \in Objs' \/ (Kind(o) = "upval" /\ IsOpen(o)),
         Good \cap Objs' \subseteq Good', Objs' \ Objs \subseteq Good',
         \A o \in Objs : Kind(o) = "upval" /\ ~IsOpen(o) => ~IsOpen(o)'
  PROVE  PhaseInv'
<1>1. \A o : Kind(o)' = Kind(o)
  BY DEF Kind
<1>2. marked' \in [Cells \cup {Main} -> Colours] /\ marked'[Main] # "dead"
  BY DEF PhaseInv, AllObjs
<1>3. gcstate' = "propagate" => marked'[Main] = "gray"
  BY DEF PhaseInv
<1>4. gcstate' \in {"pause", "finalize"} => \A o \in Objs' : marked'[o] = "white" \/ o \in tmudata'
  BY DEF PhaseInv
<1>5. ASSUME gcstate \in Sweeping, NEW o \in Objs'
      PROVE  \/ marked'[o] = "white" \/ o \in tmudata' \/ o \in sweep'
             \/ Kind(o)' = "upval" /\ IsOpen(o)' /\ slot'[o][1] \in sweep'
  <2>1. SUFFICES ASSUME o \in Objs, marked[o] # "white", Kind(o) = "upval" => slot'[o] = slot[o]
                 PROVE  \/ o \in tmudata \/ o \in sweep
                        \/ Kind(o) = "upval" /\ IsOpen(o)' /\ slot'[o][1] \in sweep
    BY <1>1, <1>5 DEF Sweeping
  <2>2. \/ o \in tmudata \/ o \in sweep
        \/ Kind(o) = "upval" /\ IsOpen(o) /\ slot[o][1] \in sweep
    BY <1>5, <2>1 DEF PhaseInv
  <2> QED BY <2>1, <2>2 DEF IsOpen
<1>6. sweep' \subseteq Objs' /\ \A u \in sweep' : Kind(u)' = "upval" => ~IsOpen(u)'
  BY <1>1 DEF PhaseInv
<1>7. \A S : S \subseteq Of({"udata"}) => S \subseteq Of({"udata"})'
  BY <1>1 DEF Of
<1>8. tmudata' \subseteq Of({"udata"})' /\ finalized' \subseteq Of({"udata"})'
  BY <1>7 DEF PhaseInv
<1>9. ASSUME NEW u \in Of({"udata"})' PROVE u \in Good' \/ u \in finalized'
  <2>1. u \in Objs' /\ Kind(u) = "udata"
    BY <1>1 DEF Of
  <2>2. CASE u \in Objs
    BY <2>1, <2>2 DEF PhaseInv, Of
  <2> QED BY <2>1, <2>2
<1>10. /\ gcstate' \in {"pause", "propagate", "sweepstring", "sweep", "finalize"}
       /\ full' \in {"no", "sweep", "mark"}
       /\ full' = "no" /\ gcstate' \in {"pause", "propagate"} => tmudata' = {}
       /\ full' = "sweep" => gcstate' \in Sweeping \cup {"finalize"}
       /\ full' = "mark" => gcstate' # "pause"
  BY DEF PhaseInv
<1>11. gcstate' # "propagate" => gray' = {}
  OBVIOUS
<1>12. gcstate' = "propagate" => MarkOK(G0, tmudata)'
  OBVIOUS
<1>13. gcstate' \in Sweeping =>
         \A o \in Objs' : \/ marked'[o] = "white" \/ o \in tmudata' \/ o \in sweep'
                          \/ Kind(o)' = "upval" /\ IsOpen(o)' /\ slot'[o][1] \in sweep'
  BY <1>5
<1> QED BY <1>2, <1>3, <1>4, <1>6, <1>8, <1>9, <1>10, <1>11, <1>12, <1>13 DEF PhaseInv

(* What no operation of the program changes. *)
ProgramFrame == UNCHANGED <<gcstate, sweep, tmudata, finalized, full>>

(* An operation without a barrier: new objects are white, a dead one may be brought back, *)
(* and only stacks change.                                                                *)
LEMMA QuietStep ==
  ASSUME GCInv, Mutating, ProgramFrame, HeapInv', UNCHANGED <<tt, gray, grayagain, weak>>, Objs \subseteq Objs',
         marked' \in [AllObjs -> Colours],
         \A o \in Objs : marked'[o] = marked[o] \/ (IsDead(o) /\ marked'[o] = "white"),
         \A o \in Objs' \ Objs : marked'[o] = "white",
         \A o \in live : ref'[o] = ref[o] /\ slot'[o] = slot[o],
         \A o \in Good' : Refs(o)' \subseteq Good', running' \in Good', mt' \in Good' \cup {Nil}
  PROVE  GCInv'
<1>1. HeapInv /\ LiveInv /\ PhaseInv
  BY DEF GCInv
<1>2. /\ Objs \subseteq AllObjs /\ Main \in Objs /\ Kind(Main) = "thread"
      /\ \A o \in live : o \in Cells /\ o # Main
  BY <1>1, ObjFacts DEF HeapInv
<1>3. (\A o : Kind(o)' = Kind(o)) /\ (\A k : Of(k) \subseteq Of(k)') /\ Objs' \subseteq AllObjs
  BY HeapAssumption DEF Kind, Of, HeapInv, HeapTypes, Objs, AllObjs
<1>4. \A o \in Objs : Kind(o) = "upval" => o \in live /\ (IsOpen(o)' <=> IsOpen(o))
  BY <1>2 DEF Objs, IsOpen
<1>5. marked'[Main] = marked[Main]
  BY <1>2 DEF IsDead
<1>6. Good \subseteq Good' /\ Objs' \ Objs \subseteq Good'
  BY DEF Good, IsDead
<1>7. \A o \in Objs' : ColourOK(marked, o)'
  <2>1. ASSUME NEW o \in Objs PROVE ColourOK(marked, o)'
    <3>1. ColourOK(marked, o)
      BY <1>1 DEF PhaseInv
    <3>2. marked'[o] = marked[o] \/ marked'[o] = "white"
      OBVIOUS
    <3> QED BY <1>3, <1>4, <3>1, <3>2 DEF ColourOK
  <2>2. ASSUME NEW o \in Objs' \ Objs PROVE ColourOK(marked, o)'
    BY DEF ColourOK
  <2> QED BY <2>1, <2>2
<1>8. ListTypes(G0)' /\ grayagain' \cup weak' \subseteq Good'
  <2>1. ListTypes(G0) /\ grayagain \cup weak \subseteq Good
    BY <1>1 DEF PhaseInv
  <2> QED BY <1>3, <1>6, <2>1 DEF ListTypes, G0
<1>9. ASSUME gcstate = "propagate" PROVE MarkOK(G0, tmudata)'
  <2>1. tmudata = {} /\ MarkOK(G0, {}) /\ G0 \in Collector
    BY <1>1, <1>9, G0Facts DEF PhaseInv, Mutating
  <2>2. Good = Objs
    BY <1>1, <1>9, NothingDead
  <2>3. PICK h : h = G0
    OBVIOUS
  <2>4. PICK k : k = G0'
    OBVIOUS
  <2>5. /\ h.marked = marked /\ h.gray = gray /\ h.grayagain = grayagain /\ h.weak = weak
        /\ k.marked = marked' /\ k.gray = gray /\ k.grayagain = grayagain /\ k.weak = weak
    BY <2>3, <2>4 DEF G0
  <2>6. k \in Collector
    BY <2>1, <2>3, <2>4, <2>5 DEF Collector, G0
  <2>7. \A o \in Objs : marked'[o] = marked[o]
    BY <2>2 DEF Good
  <2>8. \A o \in Objs : marked[o] = "black" => o \in live /\ (Kind(o) = "upval" => ~IsOpen(o))
    BY <1>1, BlackFacts DEF PhaseInv
  <2>9. MarkOK(k, {})'
    <3>1. \A o \in Objs : k.marked[o] = h.marked[o]
      BY <2>5, <2>7
    <3>2. \A o \in Objs' \ Objs : k.marked[o] = "white"
      BY <2>5
    <3>3. \A o \in Objs : Kind(o) = "upval" => (IsOpen(o)' <=> IsOpen(o))
      BY <1>4
    <3>4. \A o \in Objs : Kind(o) = "upval" /\ k.marked[o] = "black" => ~IsOpen(o)'
      BY <1>4, <2>5, <2>7, <2>8
    <3>5. \A o \in Objs : k.marked[o] = "black" => h.marked[o] = "black" /\ ref'[o] = ref[o]
      BY <2>5, <2>7, <2>8
    <3>6. MarkOK(h, {}) /\ h \in Collector
      BY <2>1, <2>3
    <3>7. k.gray = h.gray /\ k.grayagain = h.grayagain /\ k.weak = h.weak
      BY <2>5
    <3> QED BY <1>1, <2>2, <2>6, <3>1, <3>2, <3>3, <3>4, <3>5, <3>6, <3>7, MarkFrame
  <2>10. MarkOK(G0, {})'
    BY <2>4, <2>9
  <2> QED BY <2>1, <2>10 DEF ProgramFrame
<1>10. gcstate # "propagate" =>
         \A o \in Objs' : \/ marked'[o] = "white"
                          \/ o \in Objs /\ marked[o] # "white" /\ (Kind(o) = "upval" => slot'[o] = slot[o])
  BY <1>4
<1>11. gcstate # "propagate" => gray' = {}
  BY <1>1 DEF PhaseInv
<1>12. PhaseInv'
  <2>1. UNCHANGED <<tt, gcstate, sweep, tmudata, finalized, full>>
    BY DEF ProgramFrame
  <2>2. \A o \in Objs : Kind(o) = "upval" /\ ~IsOpen(o) => ~IsOpen(o)'
    BY <1>4
  <2> QED BY <1>1, <1>5, <1>6, <1>7, <1>8, <1>9, <1>10, <1>11, <2>1, <2>2, ProgramPhase
<1>13. LiveInv'
  BY <1>1, <1>6 DEF LiveInv, ProgramFrame
<1> QED BY <1>12, <1>13 DEF GCInv

(* A write to a stack and perhaps new objects, or a dead one brought back. *)
LEMMA WriteStep ==
  ASSUME GCInv, Mutating, ProgramFrame, UNCHANGED <<tt, ref, slot, mt, running, gray, grayagain, weak>>,
         NEW s \in Slots, s[1] \in Objs, NEW v, Write(s, v), IsValue(v),
         NEW N, N \subseteq Cells \ live, \A c \in N : tt[c] \notin {"closure", "upval"}, live' = live \cup N,
         marked' \in [AllObjs -> Colours],
         \A o \in Objs : marked'[o] = marked[o] \/ (Kind(o) = "string" /\ IsDead(o) /\ marked'[o] = "white"),
         \A o \in N : marked'[o] = "white",
         v \in Good' \cup {Nil}
  PROVE  GCInv'
<1>1. HeapInv /\ LiveInv /\ PhaseInv /\ HeapTypes
  BY DEF GCInv, HeapInv
<1>2. Objs \subseteq AllObjs /\ Objs' = Objs \cup N /\ Objs' \subseteq AllObjs
  BY <1>1, ObjFacts DEF Objs, AllObjs
<1>3. HeapInv'
  BY <1>1, <1>2, WriteHeap
<1>4. \A o \in Good' : o \in Good \/ o \in N \/ (o \in Objs /\ Kind(o) = "string")
  BY <1>2 DEF Good, IsDead
<1>5. Good \subseteq Good'
  BY <1>2 DEF Good, IsDead
<1>6. ASSUME NEW o \in Good' PROVE Refs(o)' \subseteq Good'
  <2>1. Refs(o)' \subseteq Refs(o) \cup ({v} \ {Nil})
    BY <1>1, <1>2, WriteRefs DEF Good
  <2>2. CASE o \in Good
    BY <1>1, <1>5, <2>1, <2>2 DEF LiveInv
  <2>3. CASE o \in N
    <3>1. o \in Cells /\ o # Main /\ Kind(o) = tt[o] /\ tt[o] # "upval" /\ ref[o] = Nil /\ stack[<<o, 1>>] = Nil
      BY <1>1, <2>3, ObjFacts DEF HeapInv
    <3>2. SlotsOf(o) = {<<o, 1>>}
      BY <3>1, SlotFacts
    <3>3. Refs(o) = {}
      BY <3>1, <3>2 DEF Refs, StackOf
    <3> QED BY <2>1, <3>3
  <2>4. CASE o \in Objs /\ Kind(o) = "string"
    <3>1. Refs(o) = {}
      BY <1>1, <2>4, StrongFacts DEF Weaks
    <3> QED BY <2>1, <3>1
  <2> QED BY <1>4, <2>2, <2>3, <2>4
<1>7. running' \in Good' /\ mt' \in Good' \cup {Nil}
  BY <1>1, <1>5 DEF LiveInv
<1>8. \A o \in Objs' \ Objs : marked'[o] = "white"
  BY <1>2
<1>9. Objs \subseteq Objs' /\ UNCHANGED <<tt, gray, grayagain, weak>>
      /\ (\A o \in live : ref'[o] = ref[o] /\ slot'[o] = slot[o])
      /\ \A o \in Objs : marked'[o] = marked[o] \/ (IsDead(o) /\ marked'[o] = "white")
  BY <1>2
<1> QED BY <1>3, <1>6, <1>7, <1>8, <1>9, QuietStep

(* A slot the program writes to is one of a live thread. *)
LEMMA MoveKeeps ==
  ASSUME GCInv, Mutating, ProgramFrame, NEW s \in Slots, s[1] \in Held \cup {Main},
         NEW v \in Held \cup Got(Held), Move(s, v)
  PROVE  GCInv'
<1>1. HeapInv /\ LiveInv /\ PhaseInv
  BY DEF GCInv
<1>2. s[1] \in Objs
  BY <1>1, HeldGood DEF Objs
<1>3. v \in Good \cup {Nil} /\ IsValue(v)
  BY <1>1, GotGood
<1>4. /\ UNCHANGED <<tt, live, ref, slot, mt, running, gray, grayagain, weak, marked>> /\ Write(s, v)
  BY DEF Move, lists
<1>5. Good' = Good
  BY <1>4 DEF Good, Objs, IsDead
<1>6. marked \in [AllObjs -> Colours]
  BY <1>1 DEF PhaseInv, AllObjs
<1>7. PICK N : N = {}
  OBVIOUS
<1>8. N \subseteq Cells \ live /\ (\A c \in N : tt[c] \notin {"closure", "upval"}) /\ live' = live \cup N
      /\ \A o \in N : marked'[o] = "white"
  BY <1>4, <1>7
<1> QED BY <1>2, <1>3, <1>4, <1>5, <1>6, <1>8, WriteStep

(* A new object is white. *)
LEMMA NewKeeps ==
  ASSUME GCInv, Mutating, ProgramFrame, NEW s \in SlotsOf(running), NEW c \in Cells, New(s, c)
  PROVE  GCInv'
<1>1. HeapInv /\ LiveInv /\ PhaseInv
  BY DEF GCInv
<1>2. s \in Slots /\ s[1] \in Objs
  BY <1>1, LiveSlot
<1>3. /\ UNCHANGED <<tt, ref, slot, mt, running, gray, grayagain, weak>> /\ Write(s, c)
      /\ c \notin live /\ tt[c] \notin {"closure", "upval"} /\ live' = live \cup {c}
      /\ marked' = [marked EXCEPT ![c] = "white"]
  BY DEF New, lists
<1>4. marked \in [AllObjs -> Colours] /\ c \in AllObjs /\ c # Main /\ c \notin Objs
  BY <1>1, <1>3, HeapAssumption DEF PhaseInv, AllObjs, Objs
<1>5. /\ marked' \in [AllObjs -> Colours] /\ marked'[c] = "white"
      /\ \A o \in AllObjs : o # c => marked'[o] = marked[o]
  BY <1>3, <1>4 DEF Colours
<1>6. Objs \subseteq AllObjs /\ \A o \in Objs : marked'[o] = marked[o]
  BY <1>1, <1>4, <1>5, ObjFacts DEF HeapInv
<1>7. c \in Good'
  BY <1>3, <1>5 DEF Good, Objs, IsDead
<1>8. IsValue(c)
  BY <1>3 DEF IsValue
<1>9. PICK N : N = {c}
  OBVIOUS
<1>10. N \subseteq Cells \ live /\ (\A o \in N : tt[o] \notin {"closure", "upval"}) /\ live' = live \cup N
       /\ \A o \in N : marked'[o] = "white"
  BY <1>3, <1>5, <1>9
<1> QED BY <1>2, <1>3, <1>5, <1>6, <1>7, <1>8, <1>10, WriteStep

(* luaS_newlstr may bring back a dead string, which it makes white         *)
(* (changewhite).                                                          *)
LEMMA InternKeeps ==
  ASSUME GCInv, Mutating, ProgramFrame, NEW s \in SlotsOf(running), NEW c \in Cells, Intern(s, c)
  PROVE  GCInv'
<1>1. HeapInv /\ LiveInv /\ PhaseInv
  BY DEF GCInv
<1>2. s \in Slots /\ s[1] \in Objs
  BY <1>1, LiveSlot
<1>3. /\ UNCHANGED <<tt, live, ref, slot, mt, running, gray, grayagain, weak>> /\ Write(s, c)
      /\ c \in Objs /\ Kind(c) = "string"
      /\ marked' = [marked EXCEPT ![c] = IF IsDead(c) THEN "white" ELSE @]
  BY DEF Intern, lists, Of
<1>4. marked \in [AllObjs -> Colours] /\ c \in AllObjs /\ c # Main /\ Kind(c) = tt[c] /\ Objs \subseteq AllObjs
  BY <1>1, <1>3, ObjFacts DEF PhaseInv, AllObjs, HeapInv
<1>5. /\ marked' \in [AllObjs -> Colours] /\ marked'[c] = IF IsDead(c) THEN "white" ELSE marked[c]
      /\ \A o \in AllObjs : o # c => marked'[o] = marked[o]
  BY <1>3, <1>4 DEF Colours
<1>6. \A o \in Objs : marked'[o] = marked[o] \/ (Kind(o) = "string" /\ IsDead(o) /\ marked'[o] = "white")
  BY <1>3, <1>4, <1>5
<1>7. c \in Good'
  BY <1>3, <1>5, SMT DEF Good, Objs, IsDead
<1>8. IsValue(c)
  BY <1>3, <1>4 DEF IsValue
<1>9. PICK N : N = {}
  OBVIOUS
<1>10. N \subseteq Cells \ live /\ (\A o \in N : tt[o] \notin {"closure", "upval"}) /\ live' = live \cup N
       /\ \A o \in N : marked'[o] = "white"
  BY <1>3, <1>9
<1> QED BY <1>2, <1>3, <1>5, <1>6, <1>7, <1>8, <1>10, WriteStep

(* The slots of a running thread hold values that are not dead. *)
LEMMA SlotValueGood ==
  ASSUME HeapInv, LiveInv, NEW s \in SlotsOf(running)
  PROVE  stack[s] \in Good \cup {Nil}
<1>1. running \in Good /\ Refs(running) = StackOf(running)
  BY DEF LiveInv, HeapInv, Refs
<1>2. stack[s] \in StackOf(running) \cup {Nil}
  BY DEF StackOf
<1> QED BY <1>1, <1>2 DEF LiveInv

(* OP_CLOSURE keeps the heap in order. *)
LEMMA NewClosureHeap ==
  ASSUME HeapInv, NEW s \in SlotsOf(running), NEW v \in SlotsOf(running),
         NEW c \in Cells \ live, tt[c] = "closure", NEW u \in Cells, NewClosure(s, v, c, u)
  PROVE  HeapInv'
<1>1. /\ tt[u] = "upval" /\ live' = live \cup {c, u} /\ slot' = [slot EXCEPT ![u] = v]
      /\ ref' = [ref EXCEPT ![c] = u] /\ Write(s, c) /\ UNCHANGED <<tt, mt, running>>
  BY DEF NewClosure
<1>2. /\ s \in Slots /\ s[1] = running /\ v \in Slots /\ v[1] = running /\ running \in Objs
      /\ Kind(running) = "thread" /\ v # Nil
  BY LiveSlot, SlotsAssumption DEF HeapInv
<1>3. /\ ref' \in [Cells -> Values] /\ ref'[c] = u /\ \A x \in Cells : x # c => ref'[x] = ref[x]
  BY <1>1 DEF HeapInv, HeapTypes, Values
<1>4. /\ slot' \in [Cells -> Slots \cup {Nil}] /\ slot'[u] = v /\ \A x \in Cells : x # u => slot'[x] = slot[x]
  BY <1>1, <1>2 DEF HeapInv, HeapTypes
<1>5. /\ stack' \in [Slots -> Values] /\ \A x \in Slots : stack'[x] = IF x = s THEN c ELSE stack[x]
  BY <1>1, <1>2 DEF HeapInv, HeapTypes, Values, Write
<1>6. /\ (\A x : IsValue(x)' <=> IsValue(x)) /\ (\A x : IsTable(x)' <=> IsTable(x))
      /\ (\A o : Kind(o)' = Kind(o)) /\ Objs \subseteq Objs' /\ live \subseteq live'
  BY <1>1 DEF IsValue, IsTable, Kind, Objs
<1>7. HeapTypes'
  BY <1>1, <1>3, <1>4, <1>5, SMT DEF HeapInv, HeapTypes
<1>8. \A x \in Slots : IsValue(stack'[x])
  BY <1>5 DEF HeapInv, IsValue
<1>9. ASSUME NEW x \in Cells, x \notin live', tt[x] # "upval" PROVE stack'[<<x, 1>>] = Nil
  <2>1. <<x, 1>> \in Slots /\ <<x, 1>>[1] = x /\ x # Main
    BY SlotFacts, HeapAssumption
  <2>2. <<x, 1>> # s
    BY <1>2, <1>6, <1>9, <2>1 DEF Objs
  <2> QED BY <1>5, <1>6, <1>9, <2>1, <2>2 DEF HeapInv
<1>10. ASSUME NEW x \in Cells
       PROVE  /\ tt[x] \in {"table", "weakv", "weakk", "upval"} => IsValue(ref'[x])
              /\ tt[x] = "udata" => IsTable(ref'[x])
              /\ tt[x] = "closure" /\ x \in live' => ref'[x] \in Cells /\ tt[ref'[x]] = "upval"
              /\ tt[x] \in {"string", "thread"} => ref'[x] = Nil
              /\ x \notin live' /\ tt[x] # "upval" => ref'[x] = Nil
  <2>1. CASE x = c
    BY <1>1, <1>3, <2>1
  <2>2. CASE x # c
    BY <1>1, <1>3, <1>6, <2>2 DEF HeapInv
  <2> QED BY <2>1, <2>2
<1>11. ASSUME NEW x \in Cells, slot'[x] # Nil
       PROVE  x \in live' /\ tt[x] = "upval" /\ Kind(slot'[x][1]) = "thread" /\ slot'[x][1] \in Objs'
  <2>1. CASE x = u
    BY <1>1, <1>2, <1>4, <1>6, <2>1
  <2>2. CASE x # u
    BY <1>4, <1>6, <1>11, <2>2 DEF HeapInv
  <2> QED BY <2>1, <2>2
<1>12. IsTable(mt) /\ running \in Objs' /\ Kind(running) = "thread"
  BY <1>2, <1>6 DEF HeapInv
<1> QED BY <1>1, <1>6, <1>7, <1>8, <1>9, <1>10, <1>11, <1>12 DEF HeapInv

(* OP_CLOSURE, with luaF_findupval, which may bring back a dead upvalue. *)
LEMMA NewClosureKeeps ==
  ASSUME GCInv, Mutating, ProgramFrame, NEW s \in SlotsOf(running), NEW v \in SlotsOf(running),
         NEW c \in Cells \ live, tt[c] = "closure", NEW u \in Cells, NewClosure(s, v, c, u)
  PROVE  GCInv'
<1>1. HeapInv /\ LiveInv /\ PhaseInv /\ HeapInv'
  BY NewClosureHeap DEF GCInv
<1>2. /\ tt[u] = "upval" /\ live' = live \cup {c, u} /\ slot' = [slot EXCEPT ![u] = v]
      /\ ref' = [ref EXCEPT ![c] = u] /\ stack' = [stack EXCEPT ![s] = c]
      /\ UNCHANGED <<tt, mt, running, gray, grayagain, weak>>
      /\ u \in live => slot[u] = v
      /\ marked' = [marked EXCEPT ![c] = "white",
                                  ![u] = IF u \notin live \/ IsDead(u) THEN "white" ELSE @]
  BY DEF NewClosure, lists, Write
<1>3. s \in Slots /\ v \in Slots /\ v # Nil /\ c # u /\ running \in Good
  BY <1>1, <1>2, LiveSlot, SlotsAssumption DEF LiveInv
<1>4. marked \in [AllObjs -> Colours] /\ c \in AllObjs /\ u \in AllObjs /\ c # Main /\ u # Main /\ Objs \subseteq AllObjs
  BY <1>1, ObjFacts, HeapAssumption DEF PhaseInv, AllObjs, HeapInv
<1>5. /\ marked' \in [AllObjs -> Colours] /\ marked'[c] = "white"
      /\ marked'[u] = IF u \notin live \/ IsDead(u) THEN "white" ELSE marked[u]
      /\ \A o \in AllObjs : o # c /\ o # u => marked'[o] = marked[o]
  BY <1>2, <1>3, <1>4 DEF Colours
<1>6. Objs' = Objs \cup {c, u} /\ c \notin Objs /\ (u \in Objs <=> u \in live)
  BY <1>2, <1>4 DEF Objs
<1>7. \A o \in Objs : marked'[o] = marked[o] \/ (IsDead(o) /\ marked'[o] = "white")
  BY <1>4, <1>5, <1>6
<1>8. \A o \in Objs' \ Objs : marked'[o] = "white"
  BY <1>5, <1>6
<1>9. DOMAIN ref = Cells /\ DOMAIN slot = Cells /\ DOMAIN stack = Slots /\ live \subseteq Cells
  BY <1>1 DEF HeapInv, HeapTypes
<1>10. \A o \in live : ref'[o] = ref[o] /\ slot'[o] = slot[o]
  BY <1>2, <1>9
<1>11. Good \subseteq Good' /\ c \in Good' /\ u \in Good' /\ Good' \subseteq Good \cup {c, u}
  <2>1. c \in Good'
    BY <1>4, <1>5, <1>6 DEF Good, IsDead
  <2>2. u \in Good'
    BY <1>4, <1>5, <1>6 DEF Good, IsDead
  <2> QED BY <1>4, <1>5, <1>6, <1>7, <2>1, <2>2 DEF Good, IsDead
<1>12. stack'[v] \in Good' \cup {Nil}
  BY <1>1, <1>2, <1>3, <1>9, <1>11, SlotValueGood
<1>13. \A o : Kind(o)' = Kind(o)
  BY <1>2 DEF Kind
<1>14. ASSUME NEW o \in Good' PROVE Refs(o)' \subseteq Good'
  <2>1. CASE o = c
    <3>1. Kind(c) = "closure" /\ ref'[c] = u
      BY <1>2, <1>4, <1>9 DEF Kind
    <3>2. Refs(c)' = {u} \ {Nil}
      BY <1>13, <3>1 DEF Refs
    <3> QED BY <1>11, <2>1, <3>2
  <2>2. CASE o = u
    <3>1. Kind(u) = "upval" /\ slot'[u] = v
      BY <1>2, <1>4, <1>9 DEF Kind
    <3>2. UpvalValue(u)' = stack'[v]
      BY <1>3, <3>1 DEF UpvalValue, IsOpen
    <3>3. Refs(u)' = {stack'[v]} \ {Nil}
      BY <1>13, <3>1, <3>2 DEF Refs
    <3> QED BY <1>12, <2>2, <3>3
  <2>3. CASE o \in Good /\ o # c /\ o # u
    <3>1. o \in Objs /\ o \in AllObjs /\ Refs(o) \subseteq Good
      BY <1>1, <1>4, <2>3 DEF Good, LiveInv
    <3>2. \A x \in Slots : stack'[x] = stack[x] \/ stack'[x] = c
      BY <1>2, <1>9
    <3>3. CASE Kind(o) = "thread"
      <4>1. SlotsOf(o) \subseteq Slots
        BY <3>1, SlotFacts
      <4>2. StackOf(o)' \subseteq StackOf(o) \cup {c}
        BY <3>2, <4>1 DEF StackOf
      <4> QED BY <1>11, <1>13, <3>1, <3>3, <4>2 DEF Refs
    <3>4. CASE Kind(o) = "upval"
      <4>1. o \in live /\ o \in Cells
        BY <1>1, <3>1, <3>4, ObjFacts DEF HeapInv, Objs
      <4>2. slot'[o] = slot[o] /\ ref'[o] = ref[o] /\ slot[o] \in Slots \cup {Nil}
        BY <1>1, <1>10, <4>1 DEF HeapInv, HeapTypes
      <4>3. UpvalValue(o)' = UpvalValue(o) \/ UpvalValue(o)' = c
        BY <3>2, <4>2 DEF UpvalValue, IsOpen
      <4> QED BY <1>11, <1>13, <3>1, <3>4, <4>3 DEF Refs
    <3>5. CASE Kind(o) \notin {"thread", "upval"}
      <4>1. ref'[o] = ref[o]
        BY <1>10, <3>1, <3>5 DEF Objs, Kind
      <4> QED BY <1>11, <1>13, <3>1, <3>5, <4>1 DEF Refs
    <3> QED BY <3>3, <3>4, <3>5
  <2> QED BY <1>11, <2>1, <2>2, <2>3
<1>15. running' \in Good' /\ mt' \in Good' \cup {Nil}
  BY <1>1, <1>2, <1>11 DEF LiveInv
<1>16. Objs \subseteq Objs' /\ UNCHANGED <<tt, gray, grayagain, weak>>
  BY <1>2, <1>6
<1> QED BY <1>1, <1>5, <1>7, <1>8, <1>10, <1>14, <1>15, <1>16, QuietStep

(* OP_CLOSURE that shares an upvalue of the closure that runs. *)
LEMMA NewClosureSharedKeeps ==
  ASSUME GCInv, Mutating, ProgramFrame, NEW s \in SlotsOf(running), NEW e \in StackOf(running),
         NEW c \in Cells \ live, tt[c] = "closure", NewClosureShared(s, e, c)
  PROVE  GCInv'
<1>1. HeapInv /\ LiveInv /\ PhaseInv /\ HeapTypes
  BY DEF GCInv, HeapInv
<1>2. /\ Kind(e) = "closure" /\ live' = live \cup {c} /\ ref' = [ref EXCEPT ![c] = ref[e]]
      /\ marked' = [marked EXCEPT ![c] = "white"] /\ stack' = [stack EXCEPT ![s] = c]
      /\ UNCHANGED <<tt, slot, mt, running, gray, grayagain, weak>>
  BY DEF NewClosureShared, lists, Write
<1>3. s \in Slots /\ s[1] = running /\ running \in Good /\ Kind(running) = "thread" /\ running \in Objs
  BY <1>1, LiveSlot DEF LiveInv, HeapInv
<1>4. e \in Good /\ e \in Cells /\ e \in live /\ tt[e] = "closure"
  BY <1>1, <1>2, <1>3, StackGood, ObjFacts, HeapAssumption DEF Good, Objs
<1>5. PICK u : u = ref[e]
  OBVIOUS
<1>6. u \in Cells /\ tt[u] = "upval" /\ u # Nil
  BY <1>1, <1>4, <1>5, HeapAssumption DEF HeapInv
<1>7. u \in Good
  BY <1>1, <1>2, <1>4, <1>5, <1>6 DEF Refs, LiveInv
<1>8. marked \in [AllObjs -> Colours] /\ c \in AllObjs /\ c # Main /\ Objs \subseteq AllObjs
  BY <1>1, ObjFacts, HeapAssumption DEF PhaseInv, AllObjs
<1>9. /\ marked' \in [AllObjs -> Colours] /\ marked'[c] = "white"
      /\ \A o \in AllObjs : o # c => marked'[o] = marked[o]
  BY <1>2, <1>8 DEF Colours
<1>10. Objs' = Objs \cup {c} /\ c \notin Objs /\ live \subseteq Cells
  BY <1>1, <1>2, <1>8 DEF Objs, HeapTypes
<1>11. (\A o \in Objs : marked'[o] = marked[o]) /\ (\A o \in Objs' \ Objs : marked'[o] = "white")
  BY <1>8, <1>9, <1>10
<1>12. /\ ref' \in [Cells -> Values] /\ \A x \in Cells : ref'[x] = IF x = c THEN u ELSE ref[x]
  BY <1>1, <1>2, <1>5, <1>6 DEF HeapTypes, Values
<1>13. /\ stack' \in [Slots -> Values] /\ \A x \in Slots : stack'[x] = IF x = s THEN c ELSE stack[x]
  BY <1>1, <1>2, <1>3 DEF HeapTypes, Values
<1>14. /\ (\A x : IsValue(x)' <=> IsValue(x)) /\ (\A x : IsTable(x)' <=> IsTable(x))
       /\ (\A o : Kind(o)' = Kind(o)) /\ Objs \subseteq Objs' /\ live \subseteq live'
  BY <1>2, <1>10 DEF IsValue, IsTable, Kind
<1>15. HeapInv'
  <2>1. HeapTypes'
    BY <1>1, <1>2, <1>12, <1>13, SMT DEF HeapTypes
  <2>2. \A x \in Slots : IsValue(stack'[x])
    BY <1>1, <1>13 DEF HeapInv, IsValue
  <2>3. ASSUME NEW x \in Cells, x \notin live', tt[x] # "upval" PROVE stack'[<<x, 1>>] = Nil
    <3>1. <<x, 1>> \in Slots /\ <<x, 1>>[1] = x /\ x # Main
      BY SlotFacts, HeapAssumption
    <3>2. <<x, 1>> # s
      BY <1>3, <1>10, <1>14, <2>3, <3>1 DEF Objs
    <3> QED BY <1>1, <1>13, <1>14, <2>3, <3>1, <3>2 DEF HeapInv
  <2>4. ASSUME NEW x \in Cells
        PROVE  /\ tt[x] \in {"table", "weakv", "weakk", "upval"} => IsValue(ref'[x])
               /\ tt[x] = "udata" => IsTable(ref'[x])
               /\ tt[x] = "closure" /\ x \in live' => ref'[x] \in Cells /\ tt[ref'[x]] = "upval"
               /\ tt[x] \in {"string", "thread"} => ref'[x] = Nil
               /\ x \notin live' /\ tt[x] # "upval" => ref'[x] = Nil
    <3>1. CASE x = c
      BY <1>2, <1>6, <1>12, <3>1
    <3>2. CASE x # c
      <4>1. ref'[x] = ref[x] /\ (x \in live' <=> x \in live)
        BY <1>2, <1>12, <3>2
      <4> QED BY <1>1, <4>1, ZenonT(30) DEF HeapInv
    <3> QED BY <3>1, <3>2
  <2>5. ASSUME NEW x \in Cells, slot[x] # Nil
        PROVE  x \in live' /\ tt[x] = "upval" /\ Kind(slot[x][1]) = "thread" /\ slot[x][1] \in Objs'
    BY <1>1, <1>14, <2>5 DEF HeapInv
  <2>6. IsTable(mt) /\ running \in Objs' /\ Kind(running) = "thread"
    BY <1>1, <1>14 DEF HeapInv
  <2> QED BY <1>2, <1>14, <2>1, <2>2, <2>3, <2>4, <2>5, <2>6 DEF HeapInv
<1>16. Good' = Good \cup {c}
  BY <1>8, <1>9, <1>10, <1>11 DEF Good, IsDead
<1>17. ASSUME NEW o \in Good' PROVE Refs(o)' \subseteq Good'
  <2>1. CASE o = c
    <3>1. Kind(c)' = "closure" /\ ref'[c] = u
      BY <1>8, <1>12, <1>14 DEF Kind
    <3>2. Refs(c)' = {u} \ {Nil}
      BY <3>1 DEF Refs
    <3> QED BY <1>7, <1>16, <2>1, <3>2
  <2>2. CASE o \in Good /\ o # c
    <3>1. o \in Objs /\ o \in AllObjs /\ Refs(o) \subseteq Good
      BY <1>1, <1>8, <2>2 DEF Good, LiveInv
    <3>2. CASE Kind(o) = "thread"
      <4>1. SlotsOf(o) \subseteq Slots
        BY <3>1, SlotFacts
      <4>2. StackOf(o)' \subseteq StackOf(o) \cup {c}
        BY <1>13, <4>1 DEF StackOf
      <4> QED BY <1>14, <1>16, <3>1, <3>2, <4>2 DEF Refs
    <3>3. CASE Kind(o) = "upval"
      <4>1. o \in Cells
        BY <1>1, <3>1, <3>3, ObjFacts DEF Objs
      <4>2. ref'[o] = ref[o] /\ slot[o] \in Slots \cup {Nil}
        BY <1>1, <1>12, <2>2, <4>1 DEF HeapTypes
      <4>3. UpvalValue(o)' = UpvalValue(o) \/ UpvalValue(o)' = c
        BY <1>2, <1>13, <4>2 DEF UpvalValue, IsOpen
      <4> QED BY <1>14, <1>16, <3>1, <3>3, <4>3 DEF Refs
    <3>4. CASE Kind(o) \notin {"thread", "upval"}
      <4>1. ref'[o] = ref[o]
        BY <1>10, <1>12, <2>2, <3>1, <3>4 DEF Objs, Kind
      <4> QED BY <1>14, <1>16, <3>1, <3>4, <4>1 DEF Refs
    <3> QED BY <3>2, <3>3, <3>4
  <2> QED BY <1>16, <2>1, <2>2
<1>18. running' \in Good' /\ mt' \in Good' \cup {Nil}
  BY <1>1, <1>2, <1>16 DEF LiveInv
<1>19. /\ Objs \subseteq Objs' /\ UNCHANGED <<tt, gray, grayagain, weak>>
       /\ \A o \in live : ref'[o] = ref[o] /\ slot'[o] = slot[o]
  BY <1>2, <1>10, <1>12
<1> QED BY <1>9, <1>11, <1>15, <1>17, <1>18, <1>19, QuietStep

(* lua_setmetatable of a basic type, and a switch of threads. *)
LEMMA RootKeeps ==
  ASSUME GCInv, Mutating, ProgramFrame, UNCHANGED <<tt, live, ref, stack, slot, marked, gray, grayagain, weak>>,
         IsTable(mt'), mt' \in Good \cup {Nil}, running' \in Good, Kind(running') = "thread"
  PROVE  GCInv'
<1>1. HeapInv /\ LiveInv /\ PhaseInv
  BY DEF GCInv
<1>2. /\ Objs' = Objs /\ (\A o : Kind(o)' = Kind(o)) /\ (\A x : IsValue(x)' <=> IsValue(x))
      /\ (\A x : IsTable(x)' <=> IsTable(x)) /\ (HeapTypes' <=> HeapTypes)
  BY DEF Objs, Kind, IsValue, IsTable, HeapTypes
<1>3. running' \in Objs
  BY DEF Good
<1>4. HeapInv'
  BY <1>1, <1>2, <1>3 DEF HeapInv
<1>5. Good' = Good
  BY <1>2 DEF Good, IsDead
<1>6. \A o : Refs(o)' = Refs(o)
  BY <1>2 DEF Refs, StackOf, UpvalValue, IsOpen
<1>7. marked' \in [AllObjs -> Colours]
  BY <1>1 DEF PhaseInv, AllObjs
<1>8. \A o \in Good' : Refs(o)' \subseteq Good'
  BY <1>1, <1>5, <1>6 DEF LiveInv
<1>9. running' \in Good' /\ mt' \in Good' \cup {Nil}
  BY <1>5
<1>10. \A o \in live : ref'[o] = ref[o] /\ slot'[o] = slot[o]
  OBVIOUS
<1>11. Objs \subseteq Objs' /\ (\A o \in Objs' \ Objs : marked'[o] = "white") /\ \A o \in Objs : marked'[o] = marked[o]
  BY <1>2
<1> QED BY <1>4, <1>7, <1>8, <1>9, <1>10, <1>11, QuietStep

(* lua_setmetatable of a basic type. *)
LEMMA SetBasicMetatableKeeps ==
  ASSUME GCInv, Mutating, ProgramFrame, NEW v \in Held \cup {Nil}, SetBasicMetatable(v)
  PROVE  GCInv'
<1>1. HeapInv /\ LiveInv /\ PhaseInv
  BY DEF GCInv
<1>2. /\ (v # Nil => Kind(v) = "table") /\ mt' = v
      /\ UNCHANGED <<tt, live, ref, stack, slot, running, marked, gray, grayagain, weak>>
  BY DEF SetBasicMetatable, lists
<1>3. v \in Good \cup {Nil} /\ IsTable(v)
  BY <1>1, <1>2, HeldGood, ObjFacts DEF IsTable, HeapInv
<1>4. running' \in Good /\ Kind(running') = "thread"
  BY <1>1, <1>2 DEF LiveInv, HeapInv
<1> QED BY <1>2, <1>3, <1>4, RootKeeps

(* lua_resume, and the return from it. *)
LEMMA ResumeKeeps ==
  ASSUME GCInv, Mutating, ProgramFrame, NEW t \in Held \cup {Main}, Resume(t)
  PROVE  GCInv'
<1>1. HeapInv /\ LiveInv /\ PhaseInv
  BY DEF GCInv
<1>2. /\ running' = t /\ (t # Main => Kind(t) = "thread")
      /\ UNCHANGED <<tt, live, ref, stack, slot, mt, marked, gray, grayagain, weak>>
  BY DEF Resume, lists
<1>3. t \in Good /\ Kind(t) = "thread"
  BY <1>1, <1>2, HeldGood, ObjFacts DEF HeapInv, Good, IsDead
<1>4. mt' \in Good \cup {Nil} /\ IsTable(mt')
  BY <1>1, <1>2 DEF LiveInv, HeapInv
<1> QED BY <1>2, <1>3, <1>4, RootKeeps

(***************************************************************************)
(* The write barriers.                                                     *)
(***************************************************************************)

(* An operation that changes no more than colours, lists and references. *)
LEMMA FinishStep ==
  ASSUME GCInv, Mutating, ProgramFrame, HeapInv', UNCHANGED <<tt, live, mt, running>>,
         marked' \in [AllObjs -> Colours], marked'[Main] = marked[Main],
         \A o \in Objs : IsDead(o)' <=> IsDead(o),
         \A o \in Good : Refs(o)' \subseteq Good,
         \A o \in Objs : ColourOK(marked, o)',
         ListTypes(G0)', grayagain' \cup weak' \subseteq Good, gcstate # "propagate" => gray' = {},
         gcstate = "propagate" => MarkOK(G0, {})',
         gcstate # "propagate" =>
           \A o \in Objs : \/ marked'[o] = "white"
                           \/ marked[o] # "white" /\ (Kind(o) = "upval" => slot'[o] = slot[o]),
         \A o \in Objs : Kind(o) = "upval" /\ ~IsOpen(o) => ~IsOpen(o)'
  PROVE  GCInv'
<1>1. HeapInv /\ LiveInv /\ PhaseInv /\ Objs' = Objs
  BY DEF GCInv, Objs
<1>2. Good' = Good
  BY <1>1 DEF Good
<1>3. LiveInv'
  BY <1>1, <1>2 DEF LiveInv, ProgramFrame
<1>4. ASSUME gcstate = "propagate" PROVE MarkOK(G0, tmudata)'
  <2>1. tmudata' = {}
    BY <1>1, <1>4 DEF PhaseInv, Mutating, ProgramFrame
  <2>2. MarkOK(G0, {})'
    BY <1>4
  <2> QED BY <2>1, <2>2
<1>5. UNCHANGED <<tt, gcstate, sweep, tmudata, finalized, full>>
  BY DEF ProgramFrame
<1>6. Good \cap Objs' \subseteq Good' /\ Objs' \ Objs \subseteq Good' /\ (\A o \in Objs : o \in Objs')
      /\ grayagain' \cup weak' \subseteq Good' /\ \A o \in Objs' : ColourOK(marked, o)'
  BY <1>1, <1>2
<1>7. PhaseInv'
  BY <1>1, <1>4, <1>5, <1>6, ProgramPhase
<1> QED BY <1>3, <1>7 DEF GCInv

(* What luaC_barrierf marks: the value is marked, nothing else is disturbed. *)
LEMMA BarrierMarks ==
  ASSUME HeapInv, PhaseInv, Mutating, gcstate = "propagate", NEW v, NEW h, h = Mark(G0, {v})
  PROVE  /\ h \in Collector /\ MarkOK(h, {}) /\ v \notin White(h.marked)
         /\ h.grayagain = grayagain /\ h.weak = weak
         /\ \A o \in Objs : o \notin White(marked) => h.marked[o] = marked[o]
<1>1. tmudata = {} /\ MarkOK(G0, {}) /\ G0 \in Collector /\ G0.marked = marked /\ G0.grayagain = grayagain
      /\ G0.weak = weak
  BY G0Facts DEF PhaseInv, Mutating
<1>2. PICK values : values = {v}
  OBVIOUS
<1>3. h = Mark(G0, values)
  BY <1>2
<1>4. h \in Collector /\ MarkOK(h, {}) /\ values \cap White(h.marked) = {}
  BY <1>1, <1>3, MarkKeeps
<1>5. /\ h.grayagain = grayagain /\ h.weak = weak
      /\ \A o \in AllObjs : o \notin White(marked) \ White(h.marked) => h.marked[o] = marked[o]
  BY <1>1, <1>3, MarkFacts, SMT
<1>6. Objs \subseteq AllObjs
  BY ObjFacts DEF HeapInv
<1> QED BY <1>2, <1>4, <1>5, <1>6

(* A table turned back to gray. *)
LEMMA BackMarks ==
  ASSUME HeapInv, PhaseInv, Mutating, gcstate = "propagate", NEW t \in Objs, Kind(t) = "table", marked[t] = "black",
         NEW h, h = [G0 EXCEPT !.marked = [marked EXCEPT ![t] = "gray"], !.grayagain = grayagain \cup {t}]
  PROVE  /\ h \in Collector /\ MarkOK(h, {}) /\ h.gray = gray /\ h.grayagain = grayagain \cup {t} /\ h.weak = weak
         /\ h.marked = [marked EXCEPT ![t] = "gray"]
<1>1. tmudata = {} /\ MarkOK(G0, {}) /\ G0 \in Collector /\ G0.marked = marked /\ G0.gray = gray
      /\ G0.grayagain = grayagain /\ G0.weak = weak
  BY G0Facts DEF PhaseInv, Mutating
<1>2. Objs \subseteq AllObjs
  BY ObjFacts DEF HeapInv
<1>3. marked \in [AllObjs -> Colours] /\ [marked EXCEPT ![t] = "gray"] \in [AllObjs -> Colours]
  BY <1>1 DEF Collector, Colours
<1>4. /\ h \in Collector /\ h.gray = gray /\ h.grayagain = grayagain \cup {t} /\ h.weak = weak
      /\ h.marked = [marked EXCEPT ![t] = "gray"]
  BY <1>1, <1>2, <1>3 DEF Collector
<1>5. \A o \in Objs : h.marked[o] = IF o = t THEN "gray" ELSE marked[o]
  BY <1>2, <1>3, <1>4
<1>6. White(h.marked) = White(marked)
  BY <1>5, SMT DEF White
<1>7. \A o \in Objs : h.marked[o] # "dead" /\ ColourOK(h.marked, o)
  BY <1>1, <1>5, SMT DEF MarkOK, ColourOK
<1>8. t \in Of(Listed) /\ t \in Of({"table", "thread"}) /\ t \notin Of(Weaks) /\ t \notin gray
  BY <1>1 DEF Of, Listed, Weaks, MarkOK
<1>9. ListTypes(h)
  BY <1>1, <1>4, <1>8 DEF MarkOK, ListTypes
<1>10. \A o \in Of(Listed) : h.marked[o] = "gray" <=> o \in h.gray \cup h.grayagain \cup h.weak
  <2>1. \A o \in Of(Listed) : o \in Objs
    BY DEF Of
  <2> QED BY <1>1, <1>4, <1>5, <1>8, <2>1, SMT DEF MarkOK
<1>11. \A o \in Objs : h.marked[o] = "black" => Strong(o) \cap White(h.marked) = {}
  BY <1>1, <1>5, <1>6 DEF MarkOK
<1>12. h.marked \in [Cells \cup {Main} -> Colours]
  BY <1>3, <1>4 DEF AllObjs
<1> QED BY <1>4, <1>7, <1>9, <1>10, <1>11, <1>12 DEF MarkOK

(* The value v is written, to x or to a stack, with the barrier of y, which is black when *)
(* x is.                                                                                  *)
LEMMA BarrierStepOf ==
  ASSUME GCInv, Mutating, ProgramFrame, HeapInv', UNCHANGED <<tt, live, slot, mt, running>>,
         NEW x \in Good, x \in live, NEW v \in Good \cup {Nil}, NEW y \in Good, y \in live,
         \A o \in live : ref'[o] = ref[o] \/ (o = x /\ ref'[o] = v),
         \A o \in Good : Refs(o)' \subseteq Refs(o) \cup ({v} \ {Nil}),
         gcstate = "propagate" /\ marked[x] = "black" => marked[y] = "black",
         Barrierf(y, v, marked) \/ (Barrierback(y, v) /\ x = y /\ Kind(y) \in {"table", "weakv", "weakk"})
  PROVE  GCInv'
<1>1. HeapInv /\ LiveInv /\ PhaseInv
  BY DEF GCInv
<1>2. /\ Objs' = Objs /\ (\A o : Kind(o)' = Kind(o)) /\ (\A k : Of(k)' = Of(k))
      /\ (\A o : IsOpen(o)' <=> IsOpen(o)) /\ Objs \subseteq AllObjs /\ Main \in Objs /\ Nil \notin Objs
      /\ y # Main /\ y \in Objs /\ y \in AllObjs /\ x \in Objs
  BY <1>1, ObjFacts DEF Objs, Kind, Of, IsOpen, HeapInv
<1>3. marked \in [AllObjs -> Colours] /\ \A o \in Objs : ColourOK(marked, o)
  BY <1>1 DEF PhaseInv, AllObjs
<1>4. \A o \in Good : Refs(o)' \subseteq Good
  BY <1>1 DEF LiveInv
<1>5. ListTypes(G0) /\ grayagain \cup weak \subseteq Good /\ (gcstate # "propagate" => gray = {})
  BY <1>1 DEF PhaseInv
<1>6. gcstate = "propagate" => /\ Good = Objs /\ MarkOK(G0, {}) /\ G0 \in Collector
  BY <1>1, NothingDead, G0Facts DEF PhaseInv, Mutating
<1>7. ASSUME NEW h \in Collector, MarkOK(h, {}), gcstate = "propagate", v \notin White(h.marked) \/ h.marked[x] # "black",
             marked' = h.marked, gray' = h.gray, grayagain' = h.grayagain, weak' = h.weak,
             h.marked[Main] = marked[Main]
      PROVE  GCInv'
  <2>1. G0' = h
    BY <1>7 DEF G0, Collector
  <2>2. MarkOK(h, {})'
    <3>1. ASSUME NEW o \in Objs, h.marked[o] = "black"
          PROVE  \/ h.marked[o] = "black" /\ ref'[o] = ref[o]
                 \/ ref'[o] \in (Objs \ White(h.marked)) \cup {Nil}
      <4>1. CASE o = x
        BY <1>6, <1>7, <3>1, <4>1
      <4>2. CASE o # x
        <5>1. o \in live
          BY <1>1, <1>7, <3>1, BlackFacts DEF MarkOK
        <5> QED BY <3>1, <4>2, <5>1
      <4> QED BY <4>1, <4>2
    <3>2. \A o \in Objs : Kind(o) = "upval" /\ h.marked[o] = "black" => ~IsOpen(o)'
      BY <1>1, <1>2, <1>7, BlackFacts DEF MarkOK
    <3>3. Objs \subseteq Objs' /\ (\A o \in Objs' \ Objs : h.marked[o] = "white") /\ UNCHANGED tt
          /\ Good = Objs /\ \A o \in Objs : Kind(o) = "upval" => (IsOpen(o)' <=> IsOpen(o))
      BY <1>2, <1>6, <1>7
    <3> QED BY <1>1, <1>7, <3>1, <3>2, <3>3, MarkFrame
  <2>3. MarkOK(G0, {})'
    BY <2>1, <2>2
  <2>4. (\A o \in Objs : ColourOK(marked, o)' /\ marked'[o] # "dead") /\ ListTypes(G0)'
    <3>1. (G0.marked)' = marked'
      BY DEF G0
    <3>2. (\A o \in Objs : G0.marked[o] # "dead" /\ ColourOK(G0.marked, o))'
      BY <2>3 DEF MarkOK
    <3>3. \A o \in Objs : ColourOK(marked, o)' /\ marked'[o] # "dead"
      BY <1>2, <3>1, <3>2 DEF ColourOK
    <3> QED BY <2>3, <3>3 DEF MarkOK
  <2>5. \A o \in Objs : IsDead(o)' <=> IsDead(o)
    BY <1>6, <1>7, <2>4 DEF IsDead, Good
  <2>6. grayagain' \cup weak' \subseteq Good
    BY <1>6, <1>7, <1>2 DEF MarkOK, ListTypes, Of
  <2>7. marked' \in [AllObjs -> Colours] /\ marked'[Main] = marked[Main]
    BY <1>7 DEF Collector
  <2>8. (\A o \in Objs : Kind(o) = "upval" /\ ~IsOpen(o) => ~IsOpen(o)') /\ UNCHANGED <<tt, live, mt, running>>
    BY <1>2
  <2> QED BY <1>4, <1>7, <2>3, <2>4, <2>5, <2>6, <2>7, <2>8, FinishStep, ZenonT(30)
<1>8. ASSUME gcstate # "propagate", gray' = gray, weak' = weak,
             \/ marked' = marked /\ grayagain' = grayagain
             \/ /\ marked' = [marked EXCEPT ![y] = "white"] /\ grayagain' = grayagain
             \/ /\ marked' = [marked EXCEPT ![y] = "gray"] /\ marked[y] = "black" /\ Kind(y) = "table"
                /\ grayagain' = grayagain \cup {y}
      PROVE  GCInv'
  <2>1. marked' \in [AllObjs -> Colours] /\ (\A o \in AllObjs : o # y => marked'[o] = marked[o])
    BY <1>3, <1>8 DEF Colours
  <2>2. marked'[Main] = marked[Main]
    BY <1>2, <2>1
  <2>3. \/ marked'[y] = marked[y] \/ marked'[y] = "white"
        \/ marked'[y] = "gray" /\ marked[y] = "black" /\ Kind(y) = "table"
    BY <1>2, <1>3, <1>8
  <2>4. marked[y] # "dead"
    BY <1>2 DEF Good, IsDead
  <2>5. \A o \in Objs : IsDead(o)' <=> IsDead(o)
    BY <1>2, <2>1, <2>3, <2>4 DEF IsDead
  <2>6. ASSUME NEW o \in Objs PROVE ColourOK(marked, o)'
    <3>1. ColourOK(marked, o)
      BY <1>3
    <3>2. CASE o = y
      BY <1>2, <2>3, <3>1, <3>2 DEF ColourOK, Weaks
    <3>3. CASE o # y
      BY <1>2, <2>1, <3>1, <3>3 DEF ColourOK
    <3> QED BY <3>2, <3>3
  <2>7. gray' = {} /\ grayagain' \subseteq Of({"table", "thread"}) /\ weak' \subseteq Of(Weaks)
        /\ grayagain' \cup weak' \subseteq Good
    BY <1>2, <1>5, <1>8 DEF ListTypes, G0, Of
  <2>8. ListTypes(G0)'
    BY <1>2, <2>7 DEF ListTypes, G0
  <2>9. \A o \in Objs : marked'[o] = "white" \/ (marked[o] # "white" /\ (Kind(o) = "upval" => slot'[o] = slot[o]))
    BY <1>2, <2>1, <2>3
  <2>10. (\A o \in Objs : Kind(o) = "upval" /\ ~IsOpen(o) => ~IsOpen(o)') /\ UNCHANGED <<tt, live, mt, running>>
    BY <1>2
  <2> QED BY <1>4, <1>8, <2>1, <2>2, <2>5, <2>6, <2>7, <2>8, <2>9, <2>10, FinishStep
<1>9. CASE ~(marked[y] = "black" /\ v \in White(marked))
  <2>1. marked' = marked /\ gray' = gray /\ grayagain' = grayagain /\ weak' = weak
    BY <1>9 DEF Barrierf, Barrierback, lists
  <2>2. CASE gcstate = "propagate"
    <3>1. PICK h : h = G0
      OBVIOUS
    <3>2. h \in Collector /\ MarkOK(h, {}) /\ h.marked = marked /\ h.gray = gray /\ h.grayagain = grayagain /\ h.weak = weak
      BY <1>1, <1>6, <2>2, <3>1, G0Facts
    <3> QED BY <1>7, <1>9, <2>1, <2>2, <3>2
  <2>3. CASE gcstate # "propagate"
    BY <1>8, <2>1, <2>3
  <2> QED BY <2>2, <2>3
<1>10. CASE marked[y] = "black" /\ v \in White(marked) /\ Barrierf(y, v, marked)
  <2>1. CASE gcstate = "propagate"
    <3>1. PICK h : h = Mark(G0, {v})
      OBVIOUS
    <3>2. [G0 EXCEPT !.marked = marked] = G0
      BY SMT DEF G0
    <3>3. marked' = h.marked /\ gray' = h.gray /\ grayagain' = grayagain /\ weak' = weak
      BY <1>10, <2>1, <3>1, <3>2 DEF Barrierf
    <3>4. /\ h \in Collector /\ MarkOK(h, {}) /\ v \notin White(h.marked)
          /\ h.grayagain = grayagain /\ h.weak = weak
          /\ \A o \in Objs : o \notin White(marked) => h.marked[o] = marked[o]
      BY <1>1, <2>1, <3>1, BarrierMarks, ZenonT(30)
    <3>5. Main \notin White(marked)
      BY <1>1, <2>1 DEF PhaseInv, White
    <3> QED BY <1>2, <1>7, <2>1, <3>3, <3>4, <3>5
  <2>2. CASE gcstate # "propagate"
    <3>1. marked' = [marked EXCEPT ![y] = "white"] /\ gray' = gray /\ grayagain' = grayagain /\ weak' = weak
      BY <1>10, <2>2 DEF Barrierf, lists
    <3> QED BY <1>8, <2>2, <3>1
  <2> QED BY <2>1, <2>2
<1>11. CASE marked[y] = "black" /\ v \in White(marked) /\ Barrierback(y, v) /\ x = y /\ Kind(y) \in {"table", "weakv", "weakk"}
  <2>1. /\ marked' = [marked EXCEPT ![y] = "gray"] /\ grayagain' = grayagain \cup {y}
        /\ gray' = gray /\ weak' = weak
    BY <1>11 DEF Barrierback
  <2>2. Kind(y) = "table"
    BY <1>2, <1>3, <1>11 DEF ColourOK, Weaks
  <2>3. CASE gcstate = "propagate"
    <3>1. PICK h : h = [G0 EXCEPT !.marked = [marked EXCEPT ![y] = "gray"], !.grayagain = grayagain \cup {y}]
      OBVIOUS
    <3>2. /\ h \in Collector /\ MarkOK(h, {}) /\ h.gray = gray /\ h.grayagain = grayagain \cup {y} /\ h.weak = weak
          /\ h.marked = [marked EXCEPT ![y] = "gray"]
      BY <1>1, <1>2, <1>11, <2>2, <2>3, <3>1, BackMarks
    <3>3. h.marked[Main] = marked[Main] /\ h.marked[y] # "black"
      BY <1>2, <1>3, <3>2
    <3> QED BY <1>7, <1>11, <2>1, <2>3, <3>2, <3>3
  <2>4. CASE gcstate # "propagate"
    BY <1>8, <1>11, <2>1, <2>2, <2>4
  <2> QED BY <2>3, <2>4
<1> QED BY <1>9, <1>10, <1>11

(* A reference is written with a barrier. *)
LEMMA BarrierStep ==
  ASSUME GCInv, Mutating, ProgramFrame, HeapInv', UNCHANGED <<tt, live, slot, mt, running>>,
         NEW x \in Good, x \in live, NEW v \in Good \cup {Nil}, ref'[x] = v,
         \A o \in live : o # x => ref'[o] = ref[o],
         \A o \in Good : Refs(o)' \subseteq Refs(o) \cup ({v} \ {Nil}),
         Barrierf(x, v, marked) \/ (Barrierback(x, v) /\ Kind(x) \in {"table", "weakv", "weakk"})
  PROVE  GCInv'
<1>1. \A o \in live : ref'[o] = ref[o] \/ (o = x /\ ref'[o] = v)
  OBVIOUS
<1> QED BY <1>1, BarrierStepOf

(* A reference of one object is written. *)
LEMMA RefHeap ==
  ASSUME HeapInv, NEW x \in live, NEW v, IsValue(v),
         tt[x] \in {"table", "weakv", "weakk", "upval"} \/ (tt[x] = "udata" /\ IsTable(v)),
         tt[x] = "upval" => ~IsOpen(x),
         ref' = [ref EXCEPT ![x] = v], UNCHANGED <<tt, live, stack, slot, mt, running>>
  PROVE  /\ HeapInv' /\ ref'[x] = v /\ (\A o \in live : o # x => ref'[o] = ref[o])
         /\ \A o \in Objs : Refs(o)' \subseteq Refs(o) \cup ({v} \ {Nil})
<1>1. x \in Cells /\ DOMAIN ref = Cells /\ live \subseteq Cells /\ v \in Values
  BY DEF HeapInv, HeapTypes, IsValue, Values
<1>2. ref' \in [Cells -> Values] /\ \A c \in Cells : ref'[c] = IF c = x THEN v ELSE ref[c]
  BY <1>1 DEF HeapInv, HeapTypes
<1>3. /\ (\A y : IsValue(y)' <=> IsValue(y)) /\ (\A y : IsTable(y)' <=> IsTable(y))
      /\ (\A o : Kind(o)' = Kind(o)) /\ Objs' = Objs
  BY DEF IsValue, IsTable, Kind, Objs
<1>4. HeapTypes'
  BY <1>2 DEF HeapInv, HeapTypes
<1>5. ASSUME NEW c \in Cells
      PROVE  /\ tt[c] \in {"table", "weakv", "weakk", "upval"} => IsValue(ref'[c])
             /\ tt[c] = "udata" => IsTable(ref'[c])
             /\ tt[c] = "closure" /\ c \in live => ref'[c] \in Cells /\ tt[ref'[c]] = "upval"
             /\ tt[c] \in {"string", "thread"} => ref'[c] = Nil
             /\ slot[c] # Nil => /\ c \in live /\ tt[c] = "upval"
                                 /\ Kind(slot[c][1]) = "thread" /\ slot[c][1] \in Objs
             /\ c \notin live /\ tt[c] # "upval" => ref'[c] = Nil
             /\ c \notin live /\ tt[c] # "upval" => stack[<<c, 1>>] = Nil
  BY <1>2, SMT DEF HeapInv
<1>6. /\ \A s \in Slots : IsValue(stack[s])
      /\ IsTable(mt) /\ running \in Objs /\ Kind(running) = "thread"
  BY DEF HeapInv
<1>7. HeapInv'
  BY <1>3, <1>4, <1>5, <1>6, ZenonT(30) DEF HeapInv
<1>8. ASSUME NEW o \in Objs PROVE Refs(o)' \subseteq Refs(o) \cup ({v} \ {Nil})
  <2>1. Kind(o) = "thread" \/ (o \in live /\ o \in Cells /\ Kind(o) = tt[o])
    BY ObjFacts DEF HeapInv, Objs
  <2>2. CASE Kind(o) = "thread"
    BY <1>3, <2>2 DEF Refs, StackOf
  <2>3. CASE Kind(o) = "upval"
    <3>1. UpvalValue(o)' = UpvalValue(o) \/ UpvalValue(o)' = v
      BY <1>2, <2>1, <2>3 DEF UpvalValue, IsOpen
    <3> QED BY <1>3, <2>3, <3>1 DEF Refs
  <2>4. CASE Kind(o) \notin {"thread", "upval"}
    BY <1>2, <1>3, <2>1, <2>4 DEF Refs
  <2> QED BY <2>2, <2>3, <2>4
<1> QED BY <1>1, <1>2, <1>7, <1>8

(* OP_SETTABLE and lua_settable, with luaC_barrierback. *)
LEMMA SetTableKeeps ==
  ASSUME GCInv, Mutating, ProgramFrame, NEW t \in Held, NEW v \in Held \cup {Nil}, SetTable(t, v)
  PROVE  GCInv'
<1>1. HeapInv /\ LiveInv /\ PhaseInv
  BY DEF GCInv
<1>2. /\ Kind(t) \in {"table", "weakv", "weakk"} /\ ref' = [ref EXCEPT ![t] = v] /\ Barrierback(t, v)
      /\ UNCHANGED <<tt, live, stack, slot, mt, running>>
  BY DEF SetTable
<1>3. t \in Good /\ t \in live /\ Kind(t) = tt[t] /\ v \in Good \cup {Nil} /\ IsValue(v)
  BY <1>1, HeldGood, ObjFacts DEF IsValue, HeapInv
<1>4. tt[t] \in {"table", "weakv", "weakk"} /\ tt[t] # "upval"
  BY <1>2, <1>3
<1>5. /\ HeapInv' /\ ref'[t] = v /\ (\A o \in live : o # t => ref'[o] = ref[o])
      /\ \A o \in Objs : Refs(o)' \subseteq Refs(o) \cup ({v} \ {Nil})
  BY <1>1, <1>2, <1>3, <1>4, RefHeap
<1>6. \A o \in Good : Refs(o)' \subseteq Refs(o) \cup ({v} \ {Nil})
  BY <1>5 DEF Good
<1>7. UNCHANGED <<tt, live, slot, mt, running>>
  BY <1>2
<1> QED BY <1>2, <1>3, <1>5, <1>6, <1>7, BarrierStep

(* lua_setmetatable of a userdata, with luaC_barrierf. *)
LEMMA SetMetatableKeeps ==
  ASSUME GCInv, Mutating, ProgramFrame, NEW u \in Held, NEW v \in Held \cup {Nil}, SetMetatable(u, v)
  PROVE  GCInv'
<1>1. HeapInv /\ LiveInv /\ PhaseInv
  BY DEF GCInv
<1>2. /\ Kind(u) = "udata" /\ (v # Nil => Kind(v) = "table") /\ ref' = [ref EXCEPT ![u] = v]
      /\ Barrierf(u, v, marked) /\ UNCHANGED <<tt, live, stack, slot, mt, running>>
  BY DEF SetMetatable
<1>3. u \in Good /\ u \in live /\ Kind(u) = tt[u] /\ v \in Good \cup {Nil} /\ IsValue(v) /\ IsTable(v)
  BY <1>1, <1>2, HeldGood, ObjFacts DEF IsValue, IsTable, HeapInv
<1>4. tt[u] = "udata" /\ tt[u] # "upval"
  BY <1>2, <1>3
<1>5. /\ HeapInv' /\ ref'[u] = v /\ (\A o \in live : o # u => ref'[o] = ref[o])
      /\ \A o \in Objs : Refs(o)' \subseteq Refs(o) \cup ({v} \ {Nil})
  BY <1>1, <1>2, <1>3, <1>4, RefHeap
<1>6. \A o \in Good : Refs(o)' \subseteq Refs(o) \cup ({v} \ {Nil})
  BY <1>5 DEF Good
<1>7. UNCHANGED <<tt, live, slot, mt, running>>
  BY <1>2
<1> QED BY <1>2, <1>3, <1>5, <1>6, <1>7, BarrierStep

(* OP_SETUPVAL, with luaC_barrierf; an open upvalue is never black. *)
LEMMA SetUpvalKeeps ==
  ASSUME GCInv, Mutating, ProgramFrame, NEW c \in Held, NEW v \in Held \cup {Nil}, SetUpval(c, v)
  PROVE  GCInv'
<1>1. HeapInv /\ LiveInv /\ PhaseInv
  BY DEF GCInv
<1>2. PICK u : u = ref[c]
  OBVIOUS
<1>3. /\ Kind(c) = "closure"
      /\ IF IsOpen(u) THEN Write(slot[u], v) /\ UNCHANGED ref
         ELSE ref' = [ref EXCEPT ![u] = v] /\ UNCHANGED stack
      /\ Barrierf(u, v, marked) /\ UNCHANGED <<tt, live, slot, mt, running>>
  BY <1>2 DEF SetUpval, WriteUpval
<1>4. c \in Good /\ c \in live /\ c \in Cells /\ Kind(c) = tt[c] /\ v \in Good \cup {Nil} /\ IsValue(v)
  BY <1>1, HeldGood, ObjFacts DEF IsValue, HeapInv
<1>5. u \in Cells /\ tt[u] = "upval" /\ u # Nil
  BY <1>1, <1>2, <1>3, <1>4, HeapAssumption DEF HeapInv
<1>6. u \in Good /\ u \in live /\ Kind(u) = "upval"
  <2>1. Refs(c) = {u} /\ Refs(c) \subseteq Good
    BY <1>1, <1>2, <1>3, <1>4, <1>5 DEF Refs, LiveInv
  <2> QED BY <1>1, <1>5, <2>1, ObjFacts DEF Good, Objs, HeapInv
<1>7. CASE IsOpen(u)
  <2>1. slot[u] \in Slots /\ slot[u][1] \in Objs
    BY <1>1, <1>5, <1>6, <1>7, UpvalFacts DEF HeapInv, IsOpen
  <2>2. marked[u] # "black"
    BY <1>1, <1>6, <1>7 DEF PhaseInv, ColourOK, Good
  <2>3. /\ Write(slot[u], v) /\ UNCHANGED <<tt, live, ref, slot, mt, running, marked, gray, grayagain, weak>>
    BY <1>3, <1>7, <2>2 DEF Barrierf, lists
  <2>4. Good' = Good
    BY <2>3 DEF Good, Objs, IsDead
  <2>5. marked \in [AllObjs -> Colours]
    BY <1>1 DEF PhaseInv, AllObjs
  <2>6. PICK N : N = {}
    OBVIOUS
  <2>7. N \subseteq Cells \ live /\ (\A o \in N : tt[o] \notin {"closure", "upval"}) /\ live' = live \cup N
        /\ \A o \in N : marked'[o] = "white"
    BY <2>3, <2>6
  <2>8. PICK s : s = slot[u]
    OBVIOUS
  <2>9. s \in Slots /\ s[1] \in Objs /\ Write(s, v)
    BY <2>1, <2>3, <2>8
  <2> QED BY <1>4, <2>3, <2>4, <2>5, <2>7, <2>9, WriteStep
<1>8. CASE ~IsOpen(u)
  <2>1. ref' = [ref EXCEPT ![u] = v] /\ UNCHANGED <<tt, live, stack, slot, mt, running>>
    BY <1>3, <1>8
  <2>2. /\ HeapInv' /\ ref'[u] = v /\ (\A o \in live : o # u => ref'[o] = ref[o])
        /\ \A o \in Objs : Refs(o)' \subseteq Refs(o) \cup ({v} \ {Nil})
    BY <1>1, <1>4, <1>5, <1>6, <1>8, <2>1, RefHeap
  <2>3. \A o \in Good : Refs(o)' \subseteq Refs(o) \cup ({v} \ {Nil})
    BY <2>2 DEF Good
  <2> QED BY <1>3, <1>4, <1>6, <1>8, <2>2, <2>3, BarrierStep
<1> QED BY <1>7, <1>8

(* lua_setupvalue, where no other closure has the upvalue: a black one has a black closure, *)
(* so that the barrier of the closure marks the value.                                      *)
LEMMA SetUpvalueKeeps ==
  ASSUME ~SetsShared, GCInv, OwnersAreBlack, Mutating, ProgramFrame, NEW c \in Held, NEW v \in Held \cup {Nil},
         SetUpvalue(c, v)
  PROVE  GCInv'
<1>1. HeapInv /\ LiveInv /\ PhaseInv
  BY DEF GCInv
<1>2. PICK u : u = ref[c]
  OBVIOUS
<1>3. /\ Kind(c) = "closure" /\ (\A d \in Of({"closure"}) : ref[d] = u => d = c)
      /\ IF IsOpen(u) THEN Write(slot[u], v) /\ UNCHANGED ref
         ELSE ref' = [ref EXCEPT ![u] = v] /\ UNCHANGED stack
      /\ Barrierf(c, v, marked) /\ UNCHANGED <<tt, live, slot, mt, running>>
  BY <1>2 DEF SetUpvalue, WriteUpval
<1>4. c \in Good /\ c \in live /\ c \in Cells /\ Kind(c) = tt[c] /\ v \in Good \cup {Nil} /\ IsValue(v)
  BY <1>1, HeldGood, ObjFacts DEF IsValue, HeapInv
<1>5. u \in Cells /\ tt[u] = "upval" /\ u # Nil
  BY <1>1, <1>2, <1>3, <1>4, HeapAssumption DEF HeapInv
<1>6. u \in Good /\ u \in live /\ Kind(u) = "upval"
  <2>1. Refs(c) = {u} /\ Refs(c) \subseteq Good
    BY <1>1, <1>2, <1>3, <1>4, <1>5 DEF Refs, LiveInv
  <2> QED BY <1>1, <1>5, <2>1, ObjFacts DEF Good, Objs, HeapInv
<1>7. CASE IsOpen(u)
  <2>1. PICK s : s = slot[u]
    OBVIOUS
  <2>2. s \in Slots /\ s[1] \in Objs /\ Write(s, v) /\ UNCHANGED <<tt, live, ref, slot, mt, running>>
    BY <1>1, <1>3, <1>5, <1>6, <1>7, <2>1, UpvalFacts DEF HeapInv, IsOpen
  <2>3. PICK N : N = {}
    OBVIOUS
  <2>4. N \subseteq Cells /\ (\A o \in N : tt[o] # "closure") /\ live' = live \cup N /\ s[1] \in Objs'
    BY <2>2, <2>3 DEF Objs
  <2>5. HeapInv'
    BY <1>1, <1>4, <2>2, <2>4, WriteHeap
  <2>6. ASSUME NEW o \in Good PROVE Refs(o)' \subseteq Refs(o) \cup ({v} \ {Nil})
    BY <1>1, <2>2, ObjFacts, WriteRefs DEF HeapInv, Good
  <2>7. \A o \in live : ref'[o] = ref[o]
    BY <2>2
  <2> QED BY <1>3, <1>4, <2>5, <2>6, <2>7, BarrierStepOf
<1>8. CASE ~IsOpen(u)
  <2>1. ref' = [ref EXCEPT ![u] = v] /\ UNCHANGED <<tt, live, stack, slot, mt, running>>
    BY <1>3, <1>8
  <2>2. /\ HeapInv' /\ ref'[u] = v /\ (\A o \in live : o # u => ref'[o] = ref[o])
        /\ \A o \in Objs : Refs(o)' \subseteq Refs(o) \cup ({v} \ {Nil})
    BY <1>1, <1>4, <1>5, <1>6, <1>8, <2>1, RefHeap
  <2>3. \A o \in Good : Refs(o)' \subseteq Refs(o) \cup ({v} \ {Nil})
    BY <2>2 DEF Good
  <2>4. \A o \in live : ref'[o] = ref[o] \/ (o = u /\ ref'[o] = v)
    BY <2>2
  <2>5. ASSUME gcstate = "propagate", marked[u] = "black" PROVE marked[c] = "black"
    <3>1. u \in Of({"upval"}) /\ u \notin White(marked)
      BY <1>6, <2>5 DEF Of, Good, White
    <3>2. PICK d \in Of({"closure"}) : ref[d] = u /\ marked[d] = "black"
      BY <2>5, <3>1 DEF OwnersAreBlack
    <3> QED BY <1>3, <3>2
  <2>6. UNCHANGED <<tt, live, slot, mt, running>> /\ Barrierf(c, v, marked) /\ HeapInv'
    BY <1>3, <2>2
  <2> QED BY <1>4, <1>6, <2>3, <2>4, <2>5, <2>6, BarrierStepOf, ZenonT(30)
<1> QED BY <1>7, <1>8

(* luaF_close of an upvalue: its slot goes out of scope, and it is freed or keeps its value. *)
LEMMA CloseHeap ==
  ASSUME HeapInv, NEW u \in live, tt[u] = "upval", IsOpen(u), Write(slot[u], Nil),
         slot' = [slot EXCEPT ![u] = Nil], UNCHANGED <<tt, mt, running>>,
         \/ live' = live \ {u} /\ ref' = ref
         \/ live' = live /\ ref' = [ref EXCEPT ![u] = UpvalValue(u)]
  PROVE  /\ HeapInv' /\ (\A o \in Objs' : Refs(o)' \subseteq Refs(o))
         /\ (\A o \in Cells : o # u => ref'[o] = ref[o] /\ slot'[o] = slot[o])
         /\ slot'[u] = Nil /\ (u \in live' => ref'[u] = UpvalValue(u))
<1>1. u \in Cells /\ live \subseteq Cells /\ IsValue(UpvalValue(u)) /\ slot[u] \in Slots
  BY UpvalFacts DEF HeapInv, HeapTypes
<1>2. UpvalValue(u) \in Values /\ IsValue(Nil) /\ Nil \in Values
  BY <1>1 DEF IsValue, Values
<1>3. /\ ref' \in [Cells -> Values] /\ (\A o \in Cells : o # u => ref'[o] = ref[o]) /\ IsValue(ref'[u])
      /\ (u \in live' => ref'[u] = UpvalValue(u))
  BY <1>1, <1>2, ZenonT(30) DEF HeapInv, HeapTypes
<1>4. /\ slot' \in [Cells -> Slots \cup {Nil}] /\ slot'[u] = Nil
      /\ (\A o \in Cells : o # u => slot'[o] = slot[o])
  BY <1>1 DEF HeapInv, HeapTypes
<1>5. /\ stack' \in [Slots -> Values] /\ (\A s \in Slots : stack'[s] = stack[s] \/ stack'[s] = Nil)
  BY <1>1, <1>2 DEF Write, HeapInv, HeapTypes
<1>6. /\ (\A y : IsValue(y)' <=> IsValue(y)) /\ (\A y : IsTable(y)' <=> IsTable(y))
      /\ (\A o : Kind(o)' = Kind(o)) /\ live' \subseteq live /\ live \ {u} \subseteq live'
      /\ Objs' \subseteq Objs /\ Objs \ {u} \subseteq Objs'
  BY DEF IsValue, IsTable, Kind, Objs
<1>7. HeapTypes'
  BY <1>1, <1>3, <1>4, <1>5, <1>6 DEF HeapInv, HeapTypes
<1>8. Kind(u) = "upval" /\ Nil \notin Objs /\ (\A o \in Objs : o # Main => o \in live /\ o \in Cells /\ Kind(o) = tt[o])
  BY ObjFacts DEF HeapInv, Objs
<1>9. ASSUME NEW c \in Cells
      PROVE  /\ tt[c] \in {"table", "weakv", "weakk", "upval"} => IsValue(ref'[c])
             /\ tt[c] = "udata" => IsTable(ref'[c])
             /\ tt[c] = "closure" /\ c \in live' => ref'[c] \in Cells /\ tt[ref'[c]] = "upval"
             /\ tt[c] \in {"string", "thread"} => ref'[c] = Nil
             /\ slot'[c] # Nil => /\ c \in live' /\ tt[c] = "upval"
                                  /\ Kind(slot'[c][1]) = "thread" /\ slot'[c][1] \in Objs'
             /\ c \notin live' /\ tt[c] # "upval" => ref'[c] = Nil
  <2>1. CASE c = u
    BY <1>3, <1>4, <2>1
  <2>2. CASE c # u
    <3>1. ref'[c] = ref[c] /\ slot'[c] = slot[c] /\ (c \in live' <=> c \in live)
      BY <1>3, <1>4, <1>6, <2>2
    <3>2. slot[c] # Nil => slot[c][1] # u /\ slot[c][1] \in Objs
      BY <1>8 DEF HeapInv
    <3>3. slot[c] # Nil => slot[c][1] \in Objs'
      BY <1>6, <3>2
    <3> QED BY <3>1, <3>3 DEF HeapInv
  <2> QED BY <2>1, <2>2
<1>10. ASSUME NEW c \in Cells, c \notin live', tt[c] # "upval" PROVE stack'[<<c, 1>>] = Nil
  <2>1. <<c, 1>> \in Slots
    BY SlotFacts
  <2>2. stack[<<c, 1>>] = Nil
    BY <1>6, <1>10 DEF HeapInv
  <2> QED BY <1>5, <2>1, <2>2
<1>11. /\ \A s \in Slots : IsValue(stack'[s])
       /\ IsTable(mt') /\ running' \in Objs' /\ Kind(running') = "thread"
  BY <1>2, <1>5, <1>6, <1>8 DEF HeapInv
<1>12. HeapInv'
  BY <1>6, <1>7, <1>9, <1>10, <1>11 DEF HeapInv
<1>13. ASSUME NEW o \in Objs' PROVE Refs(o)' \subseteq Refs(o)
  <2>1. o \in Objs /\ (o # Main => o \in Cells /\ o \in live /\ o \in live' /\ Kind(o) = tt[o])
    BY <1>6, <1>8 DEF Objs
  <2>2. CASE Kind(o) = "thread"
    <3>1. SlotsOf(o) \subseteq Slots
      BY <2>1, SlotFacts DEF AllObjs
    <3>2. StackOf(o)' \subseteq StackOf(o)
      BY <1>5, <3>1 DEF StackOf
    <3> QED BY <1>6, <2>2, <3>2 DEF Refs
  <2>3. CASE Kind(o) = "upval"
    <3>1. o # Main /\ o \in Cells /\ o \in live /\ o \in live' /\ tt[o] = "upval"
      BY <2>1, <2>3 DEF Kind
    <3>2. UpvalValue(o)' = UpvalValue(o) \/ UpvalValue(o)' = Nil
      <4>1. CASE o = u
        <5>1. UpvalValue(o)' = ref'[o]
          BY <1>4, <4>1 DEF UpvalValue, IsOpen
        <5> QED BY <1>3, <3>1, <4>1, <5>1
      <4>2. CASE o # u /\ slot[o] # Nil
        <5>1. slot'[o] = slot[o] /\ slot[o] \in Slots
          BY <1>4, <3>1, <4>2, UpvalFacts DEF IsOpen
        <5>2. UpvalValue(o)' = stack'[slot[o]] /\ UpvalValue(o) = stack[slot[o]]
          BY <4>2, <5>1 DEF UpvalValue, IsOpen
        <5> QED BY <1>5, <5>1, <5>2
      <4>3. CASE o # u /\ slot[o] = Nil
        <5>1. slot'[o] = Nil /\ ref'[o] = ref[o]
          BY <1>3, <1>4, <3>1, <4>3
        <5> QED BY <4>3, <5>1 DEF UpvalValue, IsOpen
      <4> QED BY <4>1, <4>2, <4>3
    <3> QED BY <1>6, <2>3, <3>2 DEF Refs
  <2>4. CASE Kind(o) \notin {"thread", "upval"}
    <3>1. o # Main /\ o \in Cells /\ o # u
      BY <1>8, <2>1, <2>4 DEF Kind
    <3> QED BY <1>3, <1>6, <2>4, <3>1 DEF Refs
  <2> QED BY <2>2, <2>3, <2>4
<1> QED BY <1>3, <1>4, <1>12, <1>13

(* luaF_close of a dead upvalue frees it; the collector only sweeps then. *)
LEMMA CloseDead ==
  ASSUME GCInv, Mutating, ProgramFrame, NEW u \in live, tt[u] = "upval", IsOpen(u), IsDead(u), Write(slot[u], Nil),
         slot' = [slot EXCEPT ![u] = Nil], UNCHANGED <<tt, mt, running, ref, gray, grayagain, weak>>,
         live' = live \ {u}, marked' = [marked EXCEPT ![u] = "white"]
  PROVE  GCInv'
<1>1. HeapInv /\ LiveInv /\ PhaseInv
  BY DEF GCInv
<1>2. /\ HeapInv' /\ (\A o \in Objs' : Refs(o)' \subseteq Refs(o))
      /\ (\A o \in Cells : o # u => ref'[o] = ref[o] /\ slot'[o] = slot[o]) /\ slot'[u] = Nil
  BY <1>1, CloseHeap
<1>3. /\ Objs' = Objs \ {u} /\ (\A o : Kind(o)' = Kind(o)) /\ Objs \subseteq AllObjs /\ Main \in Objs' /\ u # Main
      /\ Kind(u) = "upval" /\ u \in Cells /\ \A o \in Objs : o # Main => o \in Cells
  BY <1>1, ObjFacts, SMT DEF Objs, Kind, HeapInv
<1>4. marked \in [AllObjs -> Colours] /\ \A o \in Objs : ColourOK(marked, o)
  BY <1>1 DEF PhaseInv, AllObjs
<1>5. marked' \in [AllObjs -> Colours] /\ (\A o \in AllObjs : o # u => marked'[o] = marked[o])
  BY <1>4 DEF Colours
<1>6. u \notin Good /\ Good' = Good
  <2>1. \A o \in Objs' : IsDead(o)' <=> IsDead(o)
    BY <1>3, <1>5 DEF IsDead
  <2> QED BY <1>3, <2>1 DEF Good
<1>7. gcstate # "propagate"
  BY <1>1, <1>3, <1>6, NothingDead DEF PhaseInv, Objs
<1>8. LiveInv'
  BY <1>1, <1>2, <1>3, <1>6 DEF LiveInv, ProgramFrame, Good
<1>9. ASSUME NEW o \in Objs' PROVE ColourOK(marked, o)'
  <2>1. ColourOK(marked, o) /\ marked'[o] = marked[o] /\ o # u
    BY <1>3, <1>4, <1>5
  <2>2. Kind(o) = "upval" => (IsOpen(o)' <=> IsOpen(o))
    BY <1>2, <1>3, <2>1 DEF IsOpen, Kind
  <2> QED BY <1>3, <2>1, <2>2 DEF ColourOK
<1>10. ListTypes(G0)'
  <2>1. ListTypes(G0)
    BY <1>1 DEF PhaseInv
  <2>2. \A k : Of(k) \ {u} \subseteq Of(k)'
    BY <1>3 DEF Of
  <2>3. u \notin Of(Listed) /\ u \notin Of({"table", "thread"}) /\ u \notin Of(Weaks)
    BY <1>3 DEF Of, Listed, Weaks
  <2> QED BY <2>1, <2>2, <2>3 DEF ListTypes, G0
<1>11. grayagain' \cup weak' \subseteq Good' /\ gray' = {}
  BY <1>1, <1>6, <1>7 DEF PhaseInv
<1>12. ASSUME NEW o \in Objs' PROVE \/ marked'[o] = "white"
                                    \/ o \in Objs /\ marked[o] # "white" /\ (Kind(o) = "upval" => slot'[o] = slot[o])
  <2>1. o \in Objs /\ o # u /\ marked'[o] = marked[o]
    BY <1>3, <1>5
  <2> QED BY <1>2, <1>3, <2>1 DEF Kind
<1>13. \A o \in Objs : o \in Objs' \/ (Kind(o) = "upval" /\ IsOpen(o))
  BY <1>3
<1>14. Good \cap Objs' \subseteq Good' /\ Objs' \ Objs \subseteq Good'
  BY <1>3, <1>6
<1>15. \A o \in Objs : Kind(o) = "upval" /\ ~IsOpen(o) => ~IsOpen(o)'
  BY <1>2, <1>3 DEF IsOpen, Kind
<1>16. UNCHANGED <<tt, gcstate, sweep, tmudata, finalized, full>> /\ marked'[Main] = marked[Main]
  BY <1>3, <1>5 DEF ProgramFrame
<1>17. PhaseInv'
  BY <1>1, <1>2, <1>5, <1>7, <1>9, <1>10, <1>11, <1>12, <1>13, <1>14, <1>15, <1>16, ProgramPhase
<1> QED BY <1>2, <1>8, <1>17 DEF GCInv

(* luaF_close of an upvalue that is not dead, which keeps its value, with luaC_linkupval. *)
LEMMA CloseAlive ==
  ASSUME GCInv, Mutating, ProgramFrame, NEW u \in live, tt[u] = "upval", IsOpen(u), ~IsDead(u), Write(slot[u], Nil),
         slot' = [slot EXCEPT ![u] = Nil], UNCHANGED <<tt, mt, running, live>>,
         ref' = [ref EXCEPT ![u] = UpvalValue(u)],
         IF marked[u] = "gray" /\ gcstate = "propagate"
         THEN Barrierf(u, UpvalValue(u), [marked EXCEPT ![u] = "black"])
         ELSE marked' = [marked EXCEPT ![u] = IF @ = "gray" THEN "white" ELSE @] /\ UNCHANGED lists
  PROVE  GCInv'
<1>1. HeapInv /\ LiveInv /\ PhaseInv
  BY DEF GCInv
<1>2. /\ HeapInv' /\ (\A o \in Objs' : Refs(o)' \subseteq Refs(o))
      /\ (\A o \in Cells : o # u => ref'[o] = ref[o] /\ slot'[o] = slot[o])
      /\ slot'[u] = Nil /\ ref'[u] = UpvalValue(u)
  BY <1>1, CloseHeap
<1>3. /\ Objs' = Objs /\ (\A o : Kind(o)' = Kind(o)) /\ (\A k : Of(k)' = Of(k))
      /\ Objs \subseteq AllObjs /\ Main \in Objs /\ Nil \notin Objs /\ u # Main
      /\ Kind(u) = "upval" /\ u \in Cells /\ u \in Objs /\ u \in AllObjs /\ (\A o \in Objs : o # Main => o \in Cells)
  BY <1>1, ObjFacts DEF Objs, Kind, Of, HeapInv
<1>4. marked \in [AllObjs -> Colours] /\ \A o \in Objs : ColourOK(marked, o)
  BY <1>1 DEF PhaseInv, AllObjs
<1>5. marked[u] \in {"white", "gray"} /\ u \in Good
  BY <1>3, <1>4 DEF ColourOK, Colours, IsDead, Good
<1>6. \A o \in Objs : Kind(o) = "upval" => IF o = u THEN IsOpen(o) /\ ~IsOpen(o)' ELSE IsOpen(o)' <=> IsOpen(o)
  BY <1>2, <1>3 DEF IsOpen, Kind
<1>7. (\A o \in Objs : Kind(o) = "upval" /\ ~IsOpen(o) => ~IsOpen(o)') /\ UNCHANGED <<tt, live, mt, running>>
  BY <1>6
<1>8. \A o \in Good : Refs(o)' \subseteq Good
  BY <1>1, <1>2, <1>3 DEF LiveInv, Good
<1>9. ListTypes(G0) /\ grayagain \cup weak \subseteq Good /\ (gcstate # "propagate" => gray = {})
  BY <1>1 DEF PhaseInv
<1>10. gcstate = "propagate" => Good = Objs /\ MarkOK(G0, {}) /\ G0 \in Collector
  BY <1>1, NothingDead, G0Facts DEF PhaseInv, Mutating
<1>11. UpvalValue(u) \in Good \cup {Nil}
  <2>1. Refs(u) = {UpvalValue(u)} \ {Nil} /\ Refs(u) \subseteq Good
    BY <1>1, <1>3, <1>5 DEF Refs, LiveInv
  <2> QED BY <2>1
<1>12. PICK v : v = UpvalValue(u)
  OBVIOUS
<1>13. ASSUME NEW h \in Collector, MarkOK(h, {}), gcstate = "propagate", h.marked[u] = marked[u],
              gray' = h.gray, grayagain' = h.grayagain, weak' = h.weak, h.marked[Main] = marked[Main],
              \/ marked[u] = "white" /\ marked' = h.marked
              \/ /\ marked[u] = "gray" /\ marked' = [h.marked EXCEPT ![u] = "black"]
                 /\ v \notin White(h.marked)
       PROVE  GCInv'
  <2>1. h.marked \in [AllObjs -> Colours]
    BY <1>13 DEF Collector
  <2>2. /\ marked' \in [AllObjs -> Colours] /\ (\A o \in AllObjs : o # u => marked'[o] = h.marked[o])
        /\ marked'[u] = IF marked[u] = "gray" THEN "black" ELSE "white"
    BY <1>3, <1>13, <2>1 DEF Colours
  <2>3. PICK k : k = [marked |-> marked', gray |-> gray', grayagain |-> grayagain', weak |-> weak']
    OBVIOUS
  <2>4. /\ k \in Collector /\ k.marked = marked' /\ k.gray = h.gray /\ k.grayagain = h.grayagain /\ k.weak = h.weak
        /\ k = G0'
    BY <1>13, <2>2, <2>3 DEF Collector, G0
  <2>5. MarkOK(k, {})'
    <3>1. \A o \in Objs : \/ k.marked[o] = h.marked[o]
                          \/ Kind(o) = "upval" /\ k.marked[o] = "black" /\ h.marked[o] = "gray"
      BY <1>3, <1>13, <2>2, <2>4
    <3>2. \A o \in Objs : Kind(o) = "upval" =>
            \/ IsOpen(o)' <=> IsOpen(o)
            \/ IsOpen(o) /\ ~IsOpen(o)' /\ k.marked[o] # "gray"
      BY <1>6, <2>2, <2>4
    <3>3. \A o \in Objs : Kind(o) = "upval" /\ k.marked[o] = "black" => ~IsOpen(o)'
      <4>1. ASSUME NEW o \in Objs, Kind(o) = "upval", k.marked[o] = "black", o # u PROVE ~IsOpen(o)'
        <5>1. h.marked[o] = "black"
          BY <1>3, <2>2, <2>4, <4>1
        <5> QED BY <1>1, <1>6, <1>13, <4>1, <5>1, BlackFacts DEF MarkOK
      <4> QED BY <1>6, <4>1
    <3>4. ASSUME NEW o \in Objs, k.marked[o] = "black"
          PROVE  \/ h.marked[o] = "black" /\ ref'[o] = ref[o]
                 \/ ref'[o] \in (Objs \ White(h.marked)) \cup {Nil}
      <4>1. CASE o = u
        <5>1. v \notin White(h.marked) /\ ref'[o] = v
          BY <1>2, <1>12, <1>13, <2>2, <2>4, <3>4, <4>1
        <5> QED BY <1>10, <1>11, <1>12, <1>13, <5>1
      <4>2. CASE o # u
        <5>1. h.marked[o] = "black"
          BY <1>3, <2>2, <2>4, <3>4, <4>2
        <5>2. o \in Cells
          BY <1>1, <1>13, <5>1, BlackFacts DEF MarkOK
        <5> QED BY <1>2, <4>2, <5>1, <5>2
      <4> QED BY <4>1, <4>2
    <3>5. Objs \subseteq Objs' /\ (\A o \in Objs' \ Objs : k.marked[o] = "white") /\ UNCHANGED tt /\ Good = Objs
      BY <1>3, <1>10, <1>13
    <3> QED BY <1>1, <1>2, <1>13, <2>4, <3>1, <3>2, <3>3, <3>4, <3>5, MarkFrame, ZenonT(30)
  <2>6. MarkOK(G0, {})'
    BY <2>4, <2>5
  <2>7. (\A o \in Objs : ColourOK(marked, o)' /\ marked'[o] # "dead") /\ ListTypes(G0)'
    <3>1. (G0.marked)' = marked'
      BY DEF G0
    <3>2. (\A o \in Objs : G0.marked[o] # "dead" /\ ColourOK(G0.marked, o))'
      BY <2>6 DEF MarkOK
    <3>3. \A o \in Objs : ColourOK(marked, o)' /\ marked'[o] # "dead"
      BY <1>3, <3>1, <3>2 DEF ColourOK
    <3> QED BY <2>6, <3>3 DEF MarkOK
  <2>8. \A o \in Objs : IsDead(o)' <=> IsDead(o)
    BY <1>10, <1>13, <2>7 DEF IsDead, Good
  <2>9. grayagain' \cup weak' \subseteq Good /\ marked'[Main] = marked[Main]
    BY <1>3, <1>10, <1>13, <2>2 DEF MarkOK, ListTypes, Of
  <2> QED BY <1>2, <1>7, <1>8, <1>13, <2>2, <2>6, <2>7, <2>8, <2>9, FinishStep, ZenonT(30)
<1>14. CASE gcstate = "propagate"
  <2>1. PICK g : g = G0
    OBVIOUS
  <2>2. /\ g \in Collector /\ MarkOK(g, {}) /\ g.marked = marked /\ g.gray = gray /\ g.grayagain = grayagain /\ g.weak = weak
    BY <1>10, <1>14, <2>1 DEF G0
  <2>3. CASE marked[u] = "white"
    <3>1. marked' = marked /\ gray' = gray /\ grayagain' = grayagain /\ weak' = weak
      BY <1>4, <2>3 DEF lists
    <3> QED BY <1>13, <1>14, <2>2, <2>3, <3>1
  <2>4. CASE marked[u] = "gray"
    <3>1. PICK m : m = [marked EXCEPT ![u] = "black"]
      OBVIOUS
    <3>2. m[u] = "black" /\ Barrierf(u, v, m)
      BY <1>3, <1>4, <1>12, <1>14, <2>4, <3>1
    <3>3. m \in [AllObjs -> Colours] /\ (\A o \in AllObjs : o # u => m[o] = marked[o])
      BY <1>3, <1>4, <3>1 DEF Colours
    <3>4. White(m) = White(marked) /\ u \notin White(marked) /\ Main \notin White(marked)
      <4>1. u \notin White(marked) /\ u \notin White(m)
        BY <2>4, <3>2 DEF White
      <4>2. \A o \in Objs : o # u => m[o] = marked[o]
        BY <1>3, <3>3
      <4>3. Main \notin White(marked)
        BY <1>1, <1>14 DEF PhaseInv, White
      <4> QED BY <4>1, <4>2, <4>3 DEF White
    <3>5. CASE v \notin White(marked)
      <4>1. marked' = m /\ gray' = gray /\ grayagain' = grayagain /\ weak' = weak
        BY <3>2, <3>4, <3>5 DEF Barrierf, lists
      <4> QED BY <1>13, <1>14, <2>2, <2>4, <3>1, <3>5, <4>1
    <3>6. CASE v \in White(marked)
      <4>1. PICK h : h = Mark(G0, {v})
        OBVIOUS
      <4>2. /\ h \in Collector /\ MarkOK(h, {}) /\ v \notin White(h.marked)
            /\ h.grayagain = grayagain /\ h.weak = weak
            /\ \A o \in Objs : o \notin White(marked) => h.marked[o] = marked[o]
        BY <1>1, <1>14, <4>1, BarrierMarks, ZenonT(30)
      <4>3. PICK f : f = Mark([G0 EXCEPT !.marked = m], {v})
        OBVIOUS
      <4>4. marked' = f.marked /\ gray' = f.gray /\ grayagain' = grayagain /\ weak' = weak
        BY <1>14, <3>2, <3>4, <3>6, <4>3 DEF Barrierf
      <4>5. f.gray = h.gray /\ f.marked = [h.marked EXCEPT ![u] = "black"]
        <5>1. PICK N : N = MarkedWith(White(marked), {v})
          OBVIOUS
        <5>2. u \notin N
          BY <3>4, <5>1 DEF MarkedWith
        <5>3. /\ h.marked = [o \in AllObjs |-> IF o \notin N THEN marked[o] ELSE IF Dark(o) THEN "black" ELSE "gray"]
              /\ h.gray = gray \cup (N \cap Of(Listed))
          BY <1>4, <4>1, <5>1 DEF Mark, G0
        <5>4. /\ f.marked = [o \in AllObjs |-> IF o \notin N THEN m[o] ELSE IF Dark(o) THEN "black" ELSE "gray"]
              /\ f.gray = gray \cup (N \cap Of(Listed))
          <6>1. PICK e : e = [G0 EXCEPT !.marked = m]
            OBVIOUS
          <6>2. e.marked = m /\ e.gray = gray /\ e = [marked |-> m, gray |-> gray, grayagain |-> grayagain, weak |-> weak]
            BY <6>1 DEF G0
          <6> QED BY <3>3, <3>4, <4>3, <5>1, <6>1, <6>2 DEF Mark
        <5> QED BY <1>3, <3>1, <3>2, <3>3, <5>2, <5>3, <5>4, SMT
      <4> QED BY <1>3, <1>13, <1>14, <2>4, <3>4, <4>2, <4>4, <4>5, ZenonT(30)
    <3> QED BY <3>5, <3>6
  <2> QED BY <1>5, <2>3, <2>4
<1>15. CASE gcstate # "propagate"
  <2>1. marked' = [marked EXCEPT ![u] = "white"] /\ gray' = gray /\ grayagain' = grayagain /\ weak' = weak
    BY <1>4, <1>5, <1>15 DEF lists
  <2>2. marked' \in [AllObjs -> Colours] /\ (\A o \in AllObjs : o # u => marked'[o] = marked[o]) /\ marked'[u] = "white"
    BY <1>3, <1>4, <2>1 DEF Colours
  <2>3. \A o \in Objs : IsDead(o)' <=> IsDead(o)
    BY <1>3, <1>5, <2>2 DEF IsDead
  <2>4. ASSUME NEW o \in Objs PROVE ColourOK(marked, o)'
    <3>1. ColourOK(marked, o)
      BY <1>4
    <3>2. CASE o = u
      BY <1>3, <1>6, <2>2, <3>2 DEF ColourOK
    <3>3. CASE o # u
      BY <1>3, <1>6, <2>2, <3>1, <3>3 DEF ColourOK
    <3> QED BY <3>2, <3>3
  <2>5. ListTypes(G0)' /\ grayagain' \cup weak' \subseteq Good /\ gray' = {}
    BY <1>3, <1>9, <1>15, <2>1 DEF ListTypes, G0
  <2>6. \A o \in Objs : marked'[o] = "white" \/ (marked[o] # "white" /\ (Kind(o) = "upval" => slot'[o] = slot[o]))
    BY <1>2, <1>3, <2>2 DEF Kind
  <2>7. marked'[Main] = marked[Main]
    BY <1>3, <2>2
  <2> QED BY <1>2, <1>7, <1>8, <1>15, <2>2, <2>3, <2>4, <2>5, <2>6, <2>7, FinishStep, ZenonT(30)
<1> QED BY <1>14, <1>15

(* luaF_close. *)
LEMMA CloseKeeps ==
  ASSUME GCInv, Mutating, ProgramFrame, NEW u \in Cells, Close(u)
  PROVE  GCInv'
<1>1. u \in live /\ tt[u] = "upval" /\ IsOpen(u)
  BY HeapAssumption DEF Close, Of, Objs, Kind
<1>2. Write(slot[u], Nil) /\ slot' = [slot EXCEPT ![u] = Nil] /\ UNCHANGED <<tt, mt, running>>
  BY DEF Close
<1>3. CASE IsDead(u)
  BY <1>1, <1>2, <1>3, CloseDead DEF Close, lists
<1>4. CASE ~IsDead(u)
  BY <1>1, <1>2, <1>4, CloseAlive DEF Close
<1> QED BY <1>3, <1>4

(***************************************************************************)
(* The closures of marked upvalues.                                        *)
(***************************************************************************)

(* reallymarkobject comes to an upvalue only when it is called for it. *)
LEMMA MarkedUpvals ==
  ASSUME HeapInv, NEW g \in Collector, NEW values, NEW h, h = Mark(g, values),
         NEW u \in Of({"upval"}), u \in White(g.marked), u \notin White(h.marked)
  PROVE  u \in values
<1> DEFINE white == White(g.marked)
           w1 == values \cap white
           w2 == w1 \cup ((UNION {Through(o) : o \in w1}) \cap white)
           new == w2 \cup ((UNION {Through(o) : o \in w2}) \cap white)
<1>1. new = MarkedWith(white, values)
  BY DEF MarkedWith
<1>2. \A o \in w2 : o \in white
  OBVIOUS
<1>3. \A o \in new : o \in values \/ \E x \in white : o \in Through(x)
  OBVIOUS
<1> HIDE DEF new
<1>4. h.marked = [o \in DOMAIN g.marked |-> IF o \notin new THEN g.marked[o]
                                            ELSE IF Dark(o) THEN "black" ELSE "gray"]
  <2>1. g = [marked |-> g.marked, gray |-> g.gray, grayagain |-> g.grayagain, weak |-> g.weak]
    BY SMT DEF Collector
  <2> QED BY <1>1, <2>1, SMT DEF Mark
<1>5. u \in Objs /\ Kind(u) = "upval" /\ u \in DOMAIN g.marked /\ \A x \in white : x \in Objs
  BY ObjFacts DEF Of, Collector, White, HeapInv
<1>6. u \in new
  BY <1>4, <1>5 DEF White
<1>7. ASSUME NEW x \in white, u \in Through(x) PROVE FALSE
  <2>1. IsValue(u) \/ IsTable(u)
    BY <1>5, <1>7, ThroughFacts
  <2>2. ~IsValue(u) /\ ~IsTable(u)
    BY <1>5, ObjFacts DEF IsValue, IsTable, HeapInv
  <2> QED BY <2>1, <2>2
<1> QED BY <1>3, <1>6, <1>7

(* A step that marks no further upvalue keeps the closures of the marked ones. *)
LEMMA OwnersKept ==
  ASSUME OwnersAreBlack, gcstate = "propagate", UNCHANGED tt,
         \A d \in live : tt[d] = "closure" /\ marked[d] = "black" =>
           d \in live' /\ marked'[d] = "black" /\ ref'[d] = ref[d],
         \A u \in Objs' : Kind(u) = "upval" /\ u \notin White(marked)' => u \in Objs /\ u \notin White(marked)
  PROVE  OwnersAreBlack'
<1>1. \A o : Kind(o)' = Kind(o)
  BY DEF Kind
<1> SUFFICES ASSUME NEW u \in Of({"upval"})', u \notin White(marked)'
             PROVE  \E d \in Of({"closure"})' : ref'[d] = u /\ marked'[d] = "black"
  BY DEF OwnersAreBlack
<1>2. u \in Of({"upval"}) /\ u \notin White(marked)
  BY <1>1 DEF Of
<1>3. PICK d \in Of({"closure"}) : ref[d] = u /\ marked[d] = "black"
  BY <1>2 DEF OwnersAreBlack
<1>4. d \in live /\ tt[d] = "closure"
  BY <1>3 DEF Of, Objs, Kind
<1>5. d \in Of({"closure"})'
  BY <1>1, <1>3, <1>4 DEF Of, Objs
<1> QED BY <1>3, <1>4, <1>5

(* markroot: no upvalue is marked. *)
LEMMA MarkrootOwners ==
  ASSUME GCInv, gcstate \in {"pause", "finalize"}, Markroot
  PROVE  OwnersAreBlack'
<1>1. HeapInv /\ LiveInv /\ PhaseInv
  BY DEF GCInv
<1>2. PICK b : b = [G0 EXCEPT !.gray = {}, !.grayagain = {}, !.weak = {}]
  OBVIOUS
<1>3. PICK roots : roots = {Main, mt}
  OBVIOUS
<1>4. PICK h : h = Mark(b, roots)
  OBVIOUS
<1>5. marked' = h.marked /\ UNCHANGED heap
  BY <1>2, <1>3, <1>4 DEF Markroot
<1>6. b \in Collector /\ b.marked = marked
  BY <1>1, <1>2, G0Facts DEF Collector
<1>7. /\ Objs' = Objs /\ (\A o : Kind(o)' = Kind(o)) /\ White(marked)' = White(h.marked)
  BY <1>5 DEF heap, Objs, Kind, White
<1>8. ASSUME NEW u \in Of({"upval"}), u \notin White(h.marked) PROVE FALSE
  <2>1. u \in Objs /\ Kind(u) = "upval"
    BY DEF Of
  <2>2. u \in White(marked)
    BY <1>1, <2>1 DEF PhaseInv, Of, White
  <2>3. u \in roots
    BY <1>1, <1>4, <1>6, <1>8, <2>2, MarkedUpvals
  <2>4. Kind(Main) = "thread" /\ Nil \notin Objs /\ (mt # Nil => Kind(mt) = "table")
    BY <1>1, ObjFacts DEF HeapInv, IsTable
  <2> QED BY <1>3, <2>1, <2>3, <2>4
<1> QED BY <1>7, <1>8 DEF OwnersAreBlack, Of

(* propagatemark marks the upvalue of a closure, which turns black. *)
LEMMA PropagateOwners ==
  ASSUME GCInv, OwnersAreBlack, PropagateStep
  PROVE  OwnersAreBlack'
<1>1. HeapInv /\ LiveInv /\ PhaseInv /\ gcstate = "propagate" /\ UNCHANGED heap
  BY DEF GCInv, PropagateStep
<1>2. PICK objs \in SUBSET gray : LET g == Propagate(G0, objs) IN marked' = g.marked
  <2>1. \A o \in Batches(gray, gray) : o \in SUBSET gray
    BY DEF Batches
  <2> QED BY <2>1 DEF PropagateStep
<1> DEFINE weaks == objs \cap Of({"weakv", "weakk"})
           threads == objs \cap Of({"thread"})
           strong == objs \ (weaks \cup threads)
           m == [o \in DOMAIN marked |-> IF o \in strong THEN "black" ELSE marked[o]]
           k == [marked |-> m, gray |-> gray \ objs, grayagain |-> grayagain \cup threads,
                 weak |-> weak \cup weaks]
           values == {ref[o] : o \in strong} \cup UNION {StackOf(t) : t \in threads}
<1>3. PICK h : h = Mark(k, values)
  OBVIOUS
<1>4. G0.marked = marked /\ G0.gray = gray /\ G0.grayagain = grayagain /\ G0.weak = weak /\ G0 \in Collector
      /\ MarkOK(G0, tmudata)
  BY <1>1, G0Facts DEF PhaseInv
<1>5. marked' = h.marked
  BY <1>2, <1>3, <1>4 DEF Propagate
<1>6. objs \subseteq Of(Listed) /\ (\A o \in objs : marked[o] = "gray")
  BY <1>4 DEF MarkOK, ListTypes
<1>7. strong \subseteq Of({"table", "closure"}) /\ weaks \subseteq objs /\ threads \subseteq Of({"thread"})
      /\ threads \subseteq objs /\ strong \subseteq objs
  BY <1>6 DEF Of, Listed
<1>8. \A x \in values : (\E o \in strong : x = ref[o]) \/ (\E t \in threads : x \in StackOf(t))
  OBVIOUS
<1> HIDE DEF weaks, threads, strong, values
<1>9. Objs \subseteq AllObjs /\ gray \subseteq AllObjs /\ marked \in [AllObjs -> Colours] /\ DOMAIN marked = AllObjs
  BY <1>1, <1>4, ObjFacts DEF HeapInv, Collector
<1>10. m \in [AllObjs -> Colours] /\ \A o \in AllObjs : m[o] = IF o \in strong THEN "black" ELSE marked[o]
  BY <1>9 DEF Colours
<1>11. k \in Collector /\ k.marked = m
  <2>1. /\ gray \ objs \in SUBSET AllObjs /\ grayagain \cup threads \in SUBSET AllObjs
        /\ weak \cup weaks \in SUBSET AllObjs
    BY <1>4, <1>6, <1>7, <1>9 DEF Collector, Of
  <2> QED BY <1>10, <2>1 DEF Collector
<1> HIDE DEF m, k
<1>12. White(k.marked) = White(marked)
  BY <1>6, <1>7, <1>9, <1>10, <1>11, SMT DEF White
<1>13. \A o \in AllObjs : o \notin White(marked) \ White(h.marked) => h.marked[o] = m[o]
  BY <1>1, <1>3, <1>11, <1>12, MarkFacts, SMT
<1>14. ASSUME NEW o \in Objs, marked[o] = "black" \/ o \in strong PROVE h.marked[o] = "black"
  <2>1. o \notin White(marked)
    BY <1>6, <1>7, <1>14 DEF White
  <2> QED BY <1>9, <1>10, <1>13, <1>14, <2>1
<1>15. /\ Objs' = Objs /\ live' = live /\ ref' = ref /\ (\A o : Kind(o)' = Kind(o)) /\ (\A ks : Of(ks)' = Of(ks))
       /\ White(marked)' = White(h.marked)
  BY <1>1, <1>5 DEF heap, Objs, Kind, White, Of
<1>16. ASSUME NEW u \in Of({"upval"}), u \notin White(h.marked)
       PROVE  \E d \in Of({"closure"}) : ref[d] = u /\ h.marked[d] = "black"
  <2>1. CASE u \notin White(marked)
    <3>1. PICK d \in Of({"closure"}) : ref[d] = u /\ marked[d] = "black"
      BY <1>1, <2>1 DEF OwnersAreBlack
    <3> QED BY <1>14, <3>1 DEF Of
  <2>2. CASE u \in White(marked)
    <3>1. u \in values
      BY <1>1, <1>3, <1>11, <1>12, <1>16, <2>2, MarkedUpvals
    <3>2. u \in Objs /\ Kind(u) = "upval" /\ ~IsValue(u)
      BY <1>1, ObjFacts DEF Of, IsValue, HeapInv
    <3>3. ASSUME NEW t \in threads, u \in StackOf(t) PROVE FALSE
      <4>1. t \in Good /\ Kind(t) = "thread"
        BY <1>1, <1>7, NothingDead DEF Of
      <4> QED BY <1>1, <3>2, <3>3, <4>1, StackGood
    <3>4. PICK d \in strong : u = ref[d]
      BY <1>8, <3>1, <3>3
    <3>5. d \in Objs /\ Kind(d) \in {"table", "closure"}
      BY <1>7, <3>4 DEF Of
    <3>6. d \in Cells /\ Kind(d) = tt[d]
      BY <1>1, <3>5, ObjFacts DEF HeapInv, Objs
    <3>7. Kind(d) = "closure"
      BY <1>1, <3>2, <3>4, <3>5, <3>6, ZenonT(30) DEF HeapInv
    <3> QED BY <1>14, <3>4, <3>5, <3>7 DEF Of
  <2> QED BY <2>1, <2>2
<1>17. Of({"upval"})' = Of({"upval"}) /\ Of({"closure"})' = Of({"closure"})
  BY <1>15
<1> SUFFICES ASSUME NEW u \in Of({"upval"})', u \notin White(marked)'
             PROVE  \E d \in Of({"closure"})' : ref'[d] = u /\ marked'[d] = "black"
  BY DEF OwnersAreBlack
<1>18. PICK d \in Of({"closure"}) : ref[d] = u /\ h.marked[d] = "black"
  BY <1>15, <1>16, <1>17
<1>19. ref'[d] = u /\ marked'[d] = "black"
  BY <1>5, <1>15, <1>18
<1> QED BY <1>17, <1>19

(* luaC_barrierf of a value marks no upvalue and turns nothing black but userdata. *)
LEMMA BarrierOwners ==
  ASSUME HeapInv, PhaseInv, gcstate = "propagate", Mutating, NEW v, IsValue(v), NEW y \in Objs, NEW m,
         m = [marked EXCEPT ![y] = "black"] \/ m = marked,
         m[y] = "black" => y \notin White(marked),
         Barrierf(y, v, m)
  PROVE  /\ \A d \in Objs : marked[d] = "black" => marked'[d] = "black"
         /\ \A u \in Objs : Kind(u) = "upval" /\ marked'[u] \notin {"white", "dead"} => u \notin White(marked)
<1>1. G0 \in Collector /\ G0.marked = marked /\ Objs \subseteq AllObjs /\ marked \in [AllObjs -> Colours]
  BY G0Facts, ObjFacts DEF HeapInv, Collector
<1>2. m \in [AllObjs -> Colours] /\ \A o \in AllObjs : m[o] = marked[o] \/ (o = y /\ m[o] = "black")
  BY <1>1 DEF Colours
<1>3. \A o \in Objs : o \in White(m) <=> o \in White(marked)
  BY <1>1, <1>2 DEF White
<1>4. CASE marked' = m
  BY <1>1, <1>2, <1>3, <1>4 DEF White
<1>5. CASE marked' # m
  <2>1. PICK b : b = [G0 EXCEPT !.marked = m]
    OBVIOUS
  <2>2. PICK values : values = {v}
    OBVIOUS
  <2>3. PICK h : h = Mark(b, values)
    OBVIOUS
  <2>4. marked' = h.marked
    BY <1>5, <2>1, <2>2, <2>3 DEF Barrierf
  <2>5. b \in Collector /\ b.marked = m
    BY <1>1, <1>2, <2>1 DEF Collector
  <2>6. \A o \in AllObjs : o \notin White(m) \ White(h.marked) => h.marked[o] = m[o]
    BY <2>3, <2>5, MarkFacts, SMT
  <2>7. ASSUME NEW d \in Objs, marked[d] = "black" PROVE marked'[d] = "black"
    <3>1. m[d] = "black" /\ d \notin White(m)
      BY <1>1, <1>2, <2>7 DEF White
    <3> QED BY <1>1, <2>4, <2>6, <3>1
  <2>8. ASSUME NEW u \in Objs, Kind(u) = "upval", marked'[u] \notin {"white", "dead"}, u \in White(marked) PROVE FALSE
    <3>1. u \in Of({"upval"}) /\ u \in White(b.marked) /\ u \notin White(h.marked)
      BY <1>3, <2>4, <2>5, <2>8 DEF Of, White
    <3>2. u \in values
      BY <2>3, <2>5, <3>1, MarkedUpvals
    <3>3. u = v
      BY <2>2, <3>2
    <3>4. ~IsValue(u)
      <4> HIDE <2>1, <2>2, <2>3, <2>4, <2>6, <2>7
      <4> QED BY <2>8, ObjFacts DEF IsValue, HeapInv
    <3> QED BY <3>3, <3>4
  <2> QED BY <2>7, <2>8
<1> QED BY <1>4, <1>5

(* No operation of the program marks an upvalue, or a closure less. *)
LEMMA ProgramOwners ==
  ASSUME GCInv, OwnersAreBlack, Program
  PROVE  OwnersAreBlack'
<1>1. HeapInv /\ LiveInv /\ PhaseInv /\ Mutating /\ gcstate' = gcstate
  BY DEF GCInv, Program
<1> SUFFICES ASSUME gcstate = "propagate" PROVE OwnersAreBlack'
  BY <1>1 DEF OwnersAreBlack
<1>2. Good = Objs /\ (\A o \in Objs : ~IsDead(o))
  BY <1>1, NothingDead DEF Good
<1>3. /\ Objs \subseteq AllObjs /\ marked \in [AllObjs -> Colours] /\ DOMAIN ref = Cells /\ live \subseteq Cells
      /\ (\A o \in live : o \in Objs /\ o \in Cells /\ o # Main /\ Kind(o) = tt[o])
  BY <1>1, ObjFacts DEF HeapInv, HeapTypes, PhaseInv, AllObjs, Objs
<1>4. ASSUME UNCHANGED tt, NEW N, N \cap live = {}, live' = live \cup N, \A c \in N : marked'[c] = "white",
             \A o \in Objs : marked'[o] = marked[o], \A o \in live : ref'[o] = ref[o]
      PROVE  OwnersAreBlack'
  <2>1. \A d \in live : marked[d] = "black" => d \in live' /\ marked'[d] = "black" /\ ref'[d] = ref[d]
    BY <1>3, <1>4
  <2>2. ASSUME NEW u \in Objs', u \notin White(marked)' PROVE u \in Objs /\ u \notin White(marked)
    <3>1. u \in Objs \/ u \in N
      BY <1>4 DEF Objs
    <3> QED BY <1>4, <2>2, <3>1 DEF White
  <2> QED BY <1>4, <2>1, <2>2, OwnersKept
<1>5. ASSUME UNCHANGED <<tt, live>>, NEW v, IsValue(v), NEW y \in Objs, Barrierf(y, v, marked),
             \A o \in live : tt[o] = "closure" => ref'[o] = ref[o]
      PROVE  OwnersAreBlack'
  <2>1. Objs' = Objs
    BY <1>5 DEF Objs
  <2>2. PICK m : m = marked
    OBVIOUS
  <2>3. Barrierf(y, v, m) /\ (m[y] = "black" => y \notin White(marked))
    BY <1>5, <2>2 DEF White
  <2>4. /\ \A d \in Objs : marked[d] = "black" => marked'[d] = "black"
        /\ \A u \in Objs : Kind(u) = "upval" /\ marked'[u] \notin {"white", "dead"} => u \notin White(marked)
    BY <1>1, <1>5, <2>2, <2>3, BarrierOwners
  <2>5. \A u \in Objs' : u \notin White(marked)' => marked'[u] \notin {"white", "dead"}
    BY DEF White
  <2> QED BY <1>3, <1>5, <2>1, <2>4, <2>5, OwnersKept
<1>6. \A v \in Held \cup Got(Held) : IsValue(v)
  BY <1>1, GotGood
<1>7. \A o \in Held : o \in Good /\ o \in live /\ o \in Objs
  BY <1>1, <1>2, HeldGood
<1>8. CASE \/ \E s \in Slots, v \in Held \cup Got(Held) : Move(s, v)
           \/ \E v \in Held \cup {Nil} : SetBasicMetatable(v)
           \/ \E t \in Held \cup {Main} : Resume(t)
  <2>1. UNCHANGED <<tt, live, ref, marked>>
    BY <1>8 DEF Move, SetBasicMetatable, Resume
  <2>2. PICK N : N = {}
    OBVIOUS
  <2>3. N \cap live = {} /\ live' = live \cup N /\ \A c \in N : marked'[c] = "white"
    BY <2>1, <2>2
  <2> QED BY <1>4, <2>1, <2>3
<1>9. ASSUME NEW s \in SlotsOf(running), NEW c \in Cells, New(s, c) \/ Intern(s, c) PROVE OwnersAreBlack'
  <2>1. CASE New(s, c)
    <3>1. c \notin live /\ live' = live \cup {c} /\ marked' = [marked EXCEPT ![c] = "white"] /\ UNCHANGED <<tt, ref>>
      BY <2>1 DEF New
    <3>2. c \in AllObjs /\ c \notin Objs /\ marked'[c] = "white"
      BY <1>3, <3>1, HeapAssumption DEF Objs, AllObjs
    <3>3. \A o \in Objs : marked'[o] = marked[o]
      BY <1>3, <3>1, <3>2
    <3>4. PICK N : N = {c}
      OBVIOUS
    <3>5. N \cap live = {} /\ live' = live \cup N /\ \A x \in N : marked'[x] = "white"
      BY <3>1, <3>2, <3>4
    <3> QED BY <1>4, <3>1, <3>3, <3>5
  <2>2. CASE Intern(s, c)
    <3>1. /\ UNCHANGED <<tt, live, ref>> /\ c \in Objs
          /\ marked' = [marked EXCEPT ![c] = IF IsDead(c) THEN "white" ELSE marked[c]]
      BY <2>2 DEF Intern, Of
    <3>2. \A o \in Objs : marked'[o] = marked[o]
      BY <1>2, <1>3, <3>1
    <3>3. PICK N : N = {}
      OBVIOUS
    <3>4. N \cap live = {} /\ live' = live \cup N /\ \A x \in N : marked'[x] = "white"
      BY <3>1, <3>3
    <3> QED BY <1>4, <3>1, <3>2, <3>4
  <2> QED BY <1>9, <2>1, <2>2
<1>10. ASSUME NEW s \in SlotsOf(running), NEW c \in Cells \ live, tt[c] = "closure", NEW u \in Cells,
              NEW v \in SlotsOf(running), NewClosure(s, v, c, u)
       PROVE  OwnersAreBlack'
  <2>1. /\ tt[u] = "upval" /\ live' = live \cup {c, u} /\ ref' = [ref EXCEPT ![c] = u] /\ UNCHANGED tt
        /\ marked' = [marked EXCEPT ![c] = "white",
                                    ![u] = IF u \notin live \/ IsDead(u) THEN "white" ELSE @]
    BY <1>10 DEF NewClosure
  <2>2. c \in AllObjs /\ u \in AllObjs /\ c # u /\ c \notin Objs /\ (u \in Objs <=> u \in live)
    BY <1>3, <1>10, <2>1, HeapAssumption DEF Objs, AllObjs
  <2>3. /\ marked'[c] = "white" /\ marked'[u] = IF u \notin live \/ IsDead(u) THEN "white" ELSE marked[u]
        /\ \A o \in AllObjs : o # c /\ o # u => marked'[o] = marked[o]
    BY <1>3, <2>1, <2>2
  <2>4. \A o \in Objs : marked'[o] = marked[o]
    BY <1>2, <1>3, <2>2, <2>3
  <2>5. PICK N : N = {c, u} \ live
    OBVIOUS
  <2>6. N \cap live = {} /\ live' = live \cup N /\ \A x \in N : marked'[x] = "white"
    BY <2>1, <2>3, <2>5
  <2>7. \A o \in live : ref'[o] = ref[o]
    BY <1>3, <1>10, <2>1
  <2> QED BY <1>4, <2>1, <2>4, <2>6, <2>7
<1>11. ASSUME NEW s \in SlotsOf(running), NEW c \in Cells \ live, NEW e \in StackOf(running), NewClosureShared(s, e, c)
       PROVE  OwnersAreBlack'
  <2>1. /\ live' = live \cup {c} /\ ref' = [ref EXCEPT ![c] = ref[e]] /\ UNCHANGED tt
        /\ marked' = [marked EXCEPT ![c] = "white"]
    BY <1>11 DEF NewClosureShared
  <2>2. c \in AllObjs /\ c \notin Objs /\ marked'[c] = "white"
    BY <1>3, <1>11, <2>1, HeapAssumption DEF Objs, AllObjs
  <2>3. (\A o \in Objs : marked'[o] = marked[o]) /\ \A o \in live : ref'[o] = ref[o]
    BY <1>3, <1>11, <2>1, <2>2
  <2>4. PICK N : N = {c}
    OBVIOUS
  <2>5. N \cap live = {} /\ live' = live \cup N /\ \A x \in N : marked'[x] = "white"
    BY <1>11, <2>1, <2>2, <2>4
  <2> QED BY <1>4, <2>1, <2>3, <2>5
<1>12. ASSUME NEW o \in Held, NEW v \in Held \cup {Nil}, SetTable(o, v) PROVE OwnersAreBlack'
  <2>1. Kind(o) \in {"table", "weakv", "weakk"} /\ ref' = [ref EXCEPT ![o] = v] /\ UNCHANGED <<tt, live>> /\ Barrierback(o, v)
    BY <1>12 DEF SetTable
  <2>2. marked' = marked \/ marked' = [marked EXCEPT ![o] = "gray"]
    BY <2>1 DEF Barrierback
  <2>3. o \in live /\ o \in Objs /\ Kind(o) = tt[o] /\ tt[o] # "closure" /\ Kind(o) # "upval" /\ o \in AllObjs
    BY <1>3, <1>7, <2>1
  <2>4. \A x \in Objs : x # o => marked'[x] = marked[x]
    BY <1>3, <2>2, <2>3
  <2>5. \A d \in live : tt[d] = "closure" /\ marked[d] = "black" => d \in live' /\ marked'[d] = "black" /\ ref'[d] = ref[d]
    BY <1>3, <2>1, <2>3, <2>4
  <2>6. ASSUME NEW u \in Objs', Kind(u) = "upval", u \notin White(marked)' PROVE u \in Objs /\ u \notin White(marked)
    <3>1. Objs' = Objs /\ u # o
      BY <2>1, <2>3, <2>6 DEF Objs
    <3> QED BY <2>4, <2>6, <3>1 DEF White
  <2> QED BY <2>1, <2>5, <2>6, OwnersKept
<1>13. ASSUME NEW o \in Held, NEW v \in Held \cup {Nil}, SetMetatable(o, v) PROVE OwnersAreBlack'
  <2>1. Kind(o) = "udata" /\ ref' = [ref EXCEPT ![o] = v] /\ UNCHANGED <<tt, live>> /\ Barrierf(o, v, marked)
    BY <1>13 DEF SetMetatable
  <2>2. o \in live /\ o \in Objs /\ tt[o] = "udata" /\ IsValue(v)
    BY <1>3, <1>6, <1>7, <2>1 DEF IsValue
  <2>3. \A d \in live : tt[d] = "closure" => ref'[d] = ref[d]
    BY <1>3, <2>1, <2>2
  <2> QED BY <1>5, <2>1, <2>2, <2>3
<1>14. ASSUME NEW c \in Held, NEW v \in Held \cup {Nil}, SetUpval(c, v) \/ SetUpvalue(c, v) PROVE OwnersAreBlack'
  <2>1. PICK u : u = ref[c]
    OBVIOUS
  <2>2. Kind(c) = "closure" /\ WriteUpval(u, v) /\ (Barrierf(u, v, marked) \/ Barrierf(c, v, marked))
    BY <1>14, <2>1 DEF SetUpval, SetUpvalue
  <2>3. (ref' = ref \/ ref' = [ref EXCEPT ![u] = v]) /\ UNCHANGED <<tt, live>>
    BY <2>2 DEF WriteUpval
  <2>4. c \in live /\ c \in Objs /\ c \in Cells /\ tt[c] = "closure" /\ IsValue(v)
    BY <1>3, <1>6, <1>7, <2>2 DEF IsValue
  <2>5. u \in Cells /\ tt[u] = "upval" /\ u # Nil
    BY <1>1, <2>1, <2>4, HeapAssumption DEF HeapInv
  <2>6. u \in Objs
    BY <1>1, <1>2, <2>1, <2>2, <2>4, <2>5 DEF Refs, LiveInv
  <2>7. \A d \in live : tt[d] = "closure" => ref'[d] = ref[d]
    BY <1>3, <2>3, <2>5
  <2> QED BY <1>5, <2>2, <2>3, <2>4, <2>6, <2>7
<1>15. ASSUME NEW u \in Cells, Close(u) PROVE OwnersAreBlack'
  <2>1. u \in live /\ u \in Objs /\ tt[u] = "upval" /\ IsOpen(u) /\ Kind(u) = "upval"
    BY <1>15, HeapAssumption DEF Close, Of, Objs, Kind
  <2>2. ~IsDead(u)
    BY <1>2, <2>1
  <2>3. /\ ref' = [ref EXCEPT ![u] = UpvalValue(u)] /\ UNCHANGED <<tt, live>>
        /\ IF marked[u] = "gray"
           THEN Barrierf(u, UpvalValue(u), [marked EXCEPT ![u] = "black"])
           ELSE marked' = [marked EXCEPT ![u] = marked[u]]
    BY <1>15, <2>2 DEF Close
  <2>4. Objs' = Objs /\ \A d \in live : tt[d] = "closure" => ref'[d] = ref[d]
    BY <1>3, <2>1, <2>3 DEF Objs
  <2>5. /\ \A d \in Objs : marked[d] = "black" => marked'[d] = "black"
        /\ \A x \in Objs : Kind(x) = "upval" /\ marked'[x] \notin {"white", "dead"} => x \notin White(marked)
    <3>1. CASE marked[u] = "gray"
      <4>1. PICK m : m = [marked EXCEPT ![u] = "black"]
        OBVIOUS
      <4>2. PICK v : v = UpvalValue(u)
        OBVIOUS
      <4>3. Barrierf(u, v, m) /\ u \notin White(marked) /\ IsValue(v)
        BY <1>1, <2>1, <2>3, <3>1, <4>1, <4>2, UpvalFacts DEF White
      <4> QED BY <1>1, <2>1, <4>1, <4>3, BarrierOwners
    <3>2. CASE marked[u] # "gray"
      BY <1>3, <2>3, <3>2 DEF White
    <3> QED BY <3>1, <3>2
  <2>6. \A x \in Objs' : x \notin White(marked)' => marked'[x] \notin {"white", "dead"}
    BY DEF White
  <2> QED BY <1>3, <2>3, <2>4, <2>5, <2>6, OwnersKept
<1> QED BY <1>8, <1>9, <1>10, <1>11, <1>12, <1>13, <1>14, <1>15, ZenonT(60) DEF Program

(* Every step keeps the closures of the marked upvalues. *)
LEMMA OwnersStep ==
  ASSUME GCInv, OwnersAreBlack, [Next]_vars
  PROVE  OwnersAreBlack'
<1>1. CASE UNCHANGED vars
  <2>1. UNCHANGED <<gcstate, marked, ref>> /\ (\A k : Of(k)' = Of(k)) /\ White(marked)' = White(marked)
    BY <1>1 DEF vars, heap, Of, Objs, Kind, White
  <2> QED BY <2>1 DEF OwnersAreBlack
<1>2. CASE StartCycle
  BY <1>2, MarkrootOwners DEF StartCycle
<1>3. CASE PropagateStep
  BY <1>3, PropagateOwners
<1>4. CASE Atomic
  BY <1>4 DEF Atomic, OwnersAreBlack
<1>5. CASE SweepStep
  BY <1>5 DEF SweepStep, OwnersAreBlack
<1>6. CASE Gctm
  BY <1>6 DEF Gctm, OwnersAreBlack
<1>7. CASE FinishCycle
  BY <1>7, MarkrootOwners DEF FinishCycle, OwnersAreBlack
<1>8. CASE FullGC
  <2>1. gcstate' # "propagate"
    BY <1>8 DEF FullGC
  <2> QED BY <2>1 DEF OwnersAreBlack
<1>9. CASE Program
  BY <1>9, ProgramOwners
<1> QED BY <1>1, <1>2, <1>3, <1>4, <1>5, <1>6, <1>7, <1>8, <1>9 DEF Next, Singlestep

(***************************************************************************)
(* All steps, and the theorems.                                            *)
(***************************************************************************)

(* An operation of the program keeps the invariant. *)
LEMMA ProgramKeeps ==
  ASSUME ~SetsShared, GCInv, OwnersAreBlack, Program
  PROVE  GCInv'
<1>1. Mutating /\ ProgramFrame
  BY DEF Program, ProgramFrame
<1>2. \/ \E s \in {s \in Slots : s[1] \in Held \cup {Main}}, v \in Held \cup Got(Held) : Move(s, v)
      \/ \E s \in SlotsOf(running) :
           \/ \E c \in Cells : New(s, c) \/ Intern(s, c)
           \/ \E c \in {c \in Cells \ live : tt[c] = "closure"} :
                \/ \E u \in Cells, v \in SlotsOf(running) : NewClosure(s, v, c, u)
                \/ \E e \in StackOf(running) : NewClosureShared(s, e, c)
      \/ \E o \in Held, v \in Held \cup {Nil} :
           SetTable(o, v) \/ SetMetatable(o, v) \/ SetUpval(o, v) \/ SetUpvalue(o, v)
      \/ \E v \in (Held \cap Metatables) \cup {Nil} : SetBasicMetatable(v)
      \/ \E u \in Cells : Close(u)
      \/ \E t \in Held \cup {Main} : Resume(t)
  BY DEF Program
<1>3. CASE \E s \in {s \in Slots : s[1] \in Held \cup {Main}}, v \in Held \cup Got(Held) : Move(s, v)
  BY <1>1, <1>3, MoveKeeps
<1>4. CASE \E s \in SlotsOf(running) : \E c \in Cells : New(s, c) \/ Intern(s, c)
  BY <1>1, <1>4, NewKeeps, InternKeeps
<1>5. CASE \E s \in SlotsOf(running) : \E c \in {c \in Cells \ live : tt[c] = "closure"} :
             \/ \E u \in Cells, v \in SlotsOf(running) : NewClosure(s, v, c, u)
             \/ \E e \in StackOf(running) : NewClosureShared(s, e, c)
  BY <1>1, <1>5, NewClosureKeeps, NewClosureSharedKeeps
<1>6. CASE \E o \in Held, v \in Held \cup {Nil} :
             SetTable(o, v) \/ SetMetatable(o, v) \/ SetUpval(o, v) \/ SetUpvalue(o, v)
  BY <1>1, <1>6, SetTableKeeps, SetMetatableKeeps, SetUpvalKeeps, SetUpvalueKeeps
<1>7. CASE \E v \in (Held \cap Metatables) \cup {Nil} : SetBasicMetatable(v)
  BY <1>1, <1>7, SetBasicMetatableKeeps
<1>8. CASE \E u \in Cells : Close(u)
  BY <1>1, <1>8, CloseKeeps
<1>9. CASE \E t \in Held \cup {Main} : Resume(t)
  BY <1>1, <1>9, ResumeKeeps
<1> QED BY <1>2, <1>3, <1>4, <1>5, <1>6, <1>7, <1>8, <1>9

(* A step that changes nothing. *)
LEMMA StutterKeeps ==
  ASSUME GCInv, UNCHANGED vars
  PROVE  GCInv'
<1>1. UNCHANGED <<tt, live, ref, stack, slot, mt, running, marked, gcstate, gray, grayagain, weak, sweep, tmudata,
                  finalized, full>>
  BY DEF vars, heap, lists
<1>2. HeapInv'
  BY <1>1 DEF GCInv, HeapInv, HeapTypes, IsValue, IsTable, Objs, Kind
<1>3. LiveInv'
  <2>1. Objs' = Objs /\ (\A o : Refs(o)' = Refs(o))
    BY <1>1, SameHeap DEF heap
  <2>2. Good' = Good
    BY <1>1, <2>1, ZenonT(30) DEF Good, IsDead
  <2> QED BY <1>1, <2>1, <2>2 DEF GCInv, LiveInv
<1>4. PhaseInv'
  BY <1>1, SMTT(20) DEF GCInv, PhaseInv, MarkOK, ListTypes, ColourOK, G0, Good, IsDead, Objs, Of, Kind, IsOpen, White, Strong,
              StackOf, UpvalValue
<1> QED BY <1>2, <1>3, <1>4 DEF GCInv

(* Every step of the collector and of the program keeps the invariant. *)
LEMMA NextKeeps ==
  ASSUME Counting, ~SetsShared, GCInv, OwnersAreBlack, [Next]_vars
  PROVE  GCInv'
BY StutterKeeps, ProgramKeeps, FullGCKeeps, StartCycleKeeps, PropagateStepKeeps, AtomicStep, SweepStepKeeps, GctmKeeps,
   FinishCycleKeeps DEF Next, Singlestep

(* It holds at the start. *)
LEMMA InitGood ==
  ASSUME Init
  PROVE  GCInv /\ OwnersAreBlack
<1>1. Objs = {Main} /\ Kind(Main) = "thread" /\ tt \in [Cells -> Kinds] /\ Main \notin Cells
  BY HeapAssumption DEF Init, Objs, Kind
<1>2. HeapTypes
  BY <1>1 DEF Init, HeapTypes, Values
<1>3. HeapInv
  BY <1>1, <1>2, SlotFacts DEF Init, HeapInv, IsValue, IsTable
<1>4. Good = {Main} /\ StackOf(Main) = {}
  <2>1. SlotsOf(Main) \subseteq Slots
    BY SlotFacts DEF AllObjs
  <2> QED BY <1>1, <2>1 DEF Good, IsDead, StackOf, Init
<1>5. LiveInv
  BY <1>1, <1>4 DEF LiveInv, Refs, Init
<1>6. marked \in [Cells \cup {Main} -> Colours] /\ marked[Main] = "white"
  BY DEF Init, Colours
<1>7. PhaseInv
  <2>1. ColourOK(marked, Main)
    BY <1>1, <1>6 DEF ColourOK, Weaks
  <2>2. ListTypes(G0)
    BY DEF ListTypes, G0, Init
  <2>3. Of({"udata"}) = {}
    BY <1>1 DEF Of
  <2> QED BY <1>1, <1>6, <2>1, <2>2, <2>3 DEF PhaseInv, Init, Sweeping
<1>8. OwnersAreBlack
  BY DEF OwnersAreBlack, Init
<1> QED BY <1>3, <1>5, <1>7, <1>8 DEF GCInv

(* A list of sets, each with what the last one refers to. *)
AreReached(r, roots, n) ==
  r = [i \in 0 .. n |-> IF i = 0 THEN roots ELSE r[i - 1] \cup UNION {Strong(o) : o \in r[i - 1] \cap Objs}]

(* The sets Reach is defined by, any number of them, are a function. *)
LEMMA ReachedExist ==
  ASSUME Counting, NEW roots
  PROVE  \A n \in Nat : \E r : AreReached(r, roots, n)
<1> DEFINE After(s) == s \cup UNION {Strong(o) : o \in s \cap Objs}
<1> DEFINE S == {n \in Nat : \E r : AreReached(r, roots, n)}
<1>1. 0 \in S
  <2>1. AreReached([i \in 0 .. 0 |-> roots], roots, 0)
    BY SMT DEF AreReached
  <2> QED BY <2>1
<1>2. ASSUME NEW n \in Nat, n \in S PROVE n + 1 \in S
  <2>1. PICK r : AreReached(r, roots, n)
    BY <1>2
  <2> DEFINE q == [i \in 0 .. (n + 1) |-> IF i = n + 1 THEN After(r[n]) ELSE r[i]]
  <2>2. ASSUME NEW i \in 0 .. (n + 1) PROVE q[i] = IF i = 0 THEN roots ELSE After(q[i - 1])
    <3>1. CASE i = n + 1
      BY <3>1, SMT
    <3>2. CASE i \in 0 .. n
      <4>1. r[i] = IF i = 0 THEN roots ELSE After(r[i - 1])
        BY <2>1, <3>2 DEF AreReached
      <4>2. q[i] = r[i] /\ (i # 0 => q[i - 1] = r[i - 1])
        BY <3>2, SMT
      <4> QED BY <4>1, <4>2
    <3> QED BY <3>1, <3>2, SMT
  <2>3. q = [i \in 0 .. (n + 1) |-> q[i]]
    OBVIOUS
  <2> HIDE DEF q
  <2>4. AreReached(q, roots, n + 1)
    BY <2>2, <2>3 DEF AreReached
  <2> QED BY <2>4, SMT
<1>3. \A n \in S : n + 1 \in S
  BY <1>2
<1>4. S \subseteq Nat
  OBVIOUS
<1> HIDE DEF S
<1>5. S = Nat
  BY <1>1, <1>3, <1>4, NatSetInduction
<1> QED BY <1>5 DEF S

(* What the program can come to is in use and not dead. *)
LEMMA ReachIsGood ==
  ASSUME Counting, GCInv
  PROVE  Reach \subseteq Good
<1>1. HeapInv /\ LiveInv /\ PhaseInv
  BY DEF GCInv
<1>2. PICK roots : roots = {Main, running} \cup tmudata \cup ({mt} \ {Nil})
  OBVIOUS
<1>3. PICK n : n = Cardinality(Cells)
  OBVIOUS
<1>4. n \in Nat
  BY <1>3, HeapAssumption DEF Counting
<1>5. PICK r : r = CHOOSE x : AreReached(x, roots, n)
  OBVIOUS
<1>6. Reach = r[n]
  BY <1>2, <1>3, <1>5 DEF Reach, AreReached
<1>7. AreReached(r, roots, n)
  BY <1>4, <1>5, ReachedExist
<1>8. roots \subseteq Good
  BY <1>1, <1>2, ObjFacts DEF LiveInv, Good, IsDead, HeapInv
<1>9. ASSUME NEW s, s \subseteq Good PROVE s \cup UNION {Strong(o) : o \in s \cap Objs} \subseteq Good
  <2>1. ASSUME NEW o \in s PROVE Strong(o) \subseteq Good
    <3>1. o \in Objs /\ Refs(o) \subseteq Good
      BY <1>1, <1>9 DEF LiveInv, Good
    <3>2. Strong(o) \subseteq Refs(o)
      BY <1>1, <3>1, StrongFacts
    <3> QED BY <3>1, <3>2
  <2> QED BY <1>9, <2>1
<1> DEFINE T == {i \in Nat : i <= n => r[i] \subseteq Good}
<1>10. 0 \in T
  <2>1. r[0] = roots
    BY <1>4, <1>7, SMT DEF AreReached
  <2> QED BY <1>8, <2>1
<1>11. ASSUME NEW i \in T PROVE i + 1 \in T
  <2>1. CASE i + 1 <= n
    <3>1. r[i + 1] = r[i] \cup UNION {Strong(o) : o \in r[i] \cap Objs}
      <4>1. i \in Nat /\ i + 1 \in 0 .. n /\ i + 1 # 0 /\ (i + 1) - 1 = i
        BY <1>4, <2>1, SMT
      <4> QED BY <1>7, <4>1 DEF AreReached
    <3>2. r[i] \subseteq Good
      BY <1>4, <2>1, SMT
    <3>3. PICK s : s = r[i]
      OBVIOUS
    <3>4. s \cup UNION {Strong(o) : o \in s \cap Objs} \subseteq Good
      BY <1>9, <3>2, <3>3, SMT
    <3> QED BY <3>1, <3>3, <3>4, SMT
  <2>2. CASE ~(i + 1 <= n)
    BY <2>2, SMT
  <2> QED BY <2>1, <2>2
<1>12. T \subseteq Nat /\ \A i \in T : i + 1 \in T
  BY <1>11
<1> HIDE DEF T
<1>13. T = Nat
  BY <1>10, <1>12, NatSetInduction
<1> QED BY <1>4, <1>6, <1>13, SMT DEF T

(* Only sweeplist and luaF_close free anything, only atomic finds userdata to finalize. *)
LEMMA WhatStepsDo ==
  ASSUME GCInv, [Next]_vars
  PROVE  /\ live \subseteq live' \/ SweepStep \/ (\E u \in live : tt[u] = "upval" /\ live' = live \ {u})
         /\ tmudata' \subseteq tmudata \/ Atomic
<1>1. CASE UNCHANGED vars
  BY <1>1 DEF vars, heap
<1>2. CASE StartCycle
  BY <1>2 DEF StartCycle, Markroot, heap
<1>3. CASE PropagateStep
  BY <1>3 DEF PropagateStep, heap
<1>4. CASE Atomic
  <2>1. live' = live
    BY <1>4 DEF Atomic
  <2> QED BY <1>4, <2>1
<1>5. CASE SweepStep
  <2>1. tmudata' = tmudata
    BY <1>5 DEF SweepStep, Sweep
  <2> QED BY <1>5, <2>1
<1>6. CASE Gctm
  BY <1>6 DEF Gctm
<1>7. CASE FinishCycle
  BY <1>7 DEF FinishCycle, Markroot, heap
<1>8. CASE FullGC
  BY <1>8 DEF FullGC, heap
<1>9. CASE Program
  <2>1. tmudata' = tmudata
    BY <1>9 DEF Program
  <2>2. live \subseteq live' \/ \E u \in Cells : Close(u)
    BY <1>9, SMT DEF Program, Move, New, Intern, NewClosure, NewClosureShared, SetTable,
                     SetMetatable, SetUpval, SetUpvalue, WriteUpval, SetBasicMetatable, Resume
  <2>3. ASSUME NEW u \in Cells, Close(u) PROVE u \in live /\ tt[u] = "upval" /\ (live' = live \ {u} \/ live' = live)
    BY <2>3, HeapAssumption DEF Close, Of, Objs, Kind
  <2> QED BY <2>1, <2>2, <2>3
<1> QED BY <1>1, <1>2, <1>3, <1>4, <1>5, <1>6, <1>7, <1>8, <1>9, ZenonT(30) DEF Next, Singlestep

-----------------------------------------------------------------------------
INSTANCE FiniteSetTheorems

(* A nonempty set of natural numbers has a least element. *)
LEMMA LeastNatural ==
  ASSUME NEW T, T \subseteq Nat, T # {}
  PROVE  \E x \in T : \A y \in T : x <= y
<1> DEFINE R == OpToRel(<, Nat)
<1>1. IsWellFoundedOn(R, Nat)
  BY NatLessThanWellFounded
<1>2. \E x \in T : \A y \in T : <<y, x>> \notin R
  <2> HIDE DEF R
  <2> QED BY <1>1, WFMin
<1>3. \A x, y \in Nat : <<y, x>> \notin R => x <= y
  BY SMT DEF OpToRel
<1> HIDE DEF R
<1> QED BY <1>2, <1>3

(* Induction over the natural numbers, for sets, from that. *)
LEMMA NatInductionHolds ==
  ASSUME NEW T, T \subseteq Nat, 0 \in T, \A n \in T : n + 1 \in T
  PROVE  T = Nat
<1> SUFFICES ASSUME Nat \ T # {} PROVE FALSE
  OBVIOUS
<1>1. PICK x \in Nat \ T : \A y \in Nat \ T : x <= y
  BY LeastNatural
<1>2. x - 1 \in T
  BY <1>1, SMT
<1>3. (x - 1) + 1 \in T
  BY <1>2
<1> QED BY <1>1, <1>3, SMT

(* The library has what the proofs above use. *)
LEMMA CountingHolds == Counting
<1>1. \A T : T \subseteq Nat /\ 0 \in T /\ (\A n \in T : n + 1 \in T) => T = Nat
  BY NatInductionHolds
<1>2. ASSUME NEW S, NEW T, IsFiniteSet(S), T \subseteq S
      PROVE  /\ IsFiniteSet(T) /\ Cardinality(T) \in Nat
             /\ Cardinality(T) <= Cardinality(S) /\ (Cardinality(T) = Cardinality(S) => T = S)
  BY <1>2, FS_Subset, FS_CardinalityType
<1>3. \A S, x : IsFiniteSet(S) => IsFiniteSet(S \cup {x})
  BY FS_AddElement
<1> QED BY <1>1, <1>2, <1>3 DEF Counting

(* The inductive invariant of the collector, where lua_setupvalue is not   *)
(* called for upvalues that closures share: every reference of an object   *)
(* that is not dead is to an object in use that is not dead, the colours   *)
(* and the lists say where the cycle is, and a marked upvalue has a black  *)
(* closure.                                                                *)
THEOREM Inductive ==
  ASSUME ~SetsShared
  PROVE  Spec => [](GCInv /\ OwnersAreBlack)
<1>1. Init => GCInv /\ OwnersAreBlack
  BY InitGood
<1>2. GCInv /\ OwnersAreBlack /\ [Next]_vars => (GCInv /\ OwnersAreBlack)'
  BY NextKeeps, OwnersStep, CountingHolds
<1> QED BY <1>1, <1>2, PTL DEF Spec

(* The gray, grayagain and weak lists agree with the colours, and after a  *)
(* cycle everything is white again (reallymarkobject, propagatemark,       *)
(* sweeplist).  No shared upvalue is set through lua_setupvalue.           *)
THEOREM ColoursAndListsAgree ==
  ASSUME ~SetsShared
  PROVE  Spec => []ListsAgree
<1>1. GCInv => ListsAgree
  <2> SUFFICES ASSUME GCInv PROVE ListsAgree
    OBVIOUS
  <2>1. HeapInv /\ LiveInv /\ PhaseInv
    BY DEF GCInv
  <2>2. ListTypes(G0)
    BY <2>1 DEF PhaseInv
  <2>3. gray \subseteq Of(Listed) /\ grayagain \subseteq Of(Listed) /\ weak \subseteq Of(Listed)
    BY <2>2 DEF ListTypes, G0, Of, Listed, Weaks
  <2>4. mt \in Values
    BY <2>1 DEF HeapInv, IsTable, Values
  <2>5. \A c \in Cells : slot[c] # Nil => c \in Of({"upval"}) /\ Kind(slot[c][1]) = "thread"
    BY <2>1, ObjFacts, ZenonT(30) DEF HeapInv, Of, Objs
  <2>6. TypeOK
    BY <2>1, <2>3, <2>4, <2>5, SMT DEF TypeOK, HeapInv, HeapTypes, PhaseInv, Colours
  <2>7. gray \cap grayagain = {} /\ gray \cap weak = {} /\ grayagain \cap weak = {}
    BY <2>2 DEF ListTypes, G0, Of, Weaks
  <2>8. gcstate = "propagate" => \A o \in Of(Listed) : marked[o] = "gray" <=> o \in gray \cup grayagain \cup weak
    BY <2>1 DEF PhaseInv, MarkOK, G0
  <2>9. \A o \in Objs : Kind(o) = "thread" \/ (Kind(o) = "upval" /\ IsOpen(o)) => marked[o] # "black"
    BY <2>1 DEF PhaseInv, ColourOK
  <2>10. gcstate \in {"pause", "finalize"} => Objs \ White(marked) \subseteq tmudata
    BY <2>1 DEF PhaseInv, White
  <2> QED BY <2>6, <2>7, <2>8, <2>9, <2>10 DEF ListsAgree
<1> QED BY <1>1, Inductive, PTL

(* No black object refers to a white one while the collector marks,        *)
(* whatever the program writes in between (luaC_barrierf,                  *)
(* luaC_barrierback, luaC_linkupval), lua_setupvalue of an upvalue that is *)
(* not shared included.                                                    *)
THEOREM BlackNeverSeesWhite ==
  ASSUME ~SetsShared
  PROVE  Spec => []BlackToWhite
<1>1. GCInv => BlackToWhite
  BY DEF GCInv, PhaseInv, MarkOK, BlackToWhite, Objs, G0
<1> QED BY <1>1, Inductive, PTL

(* Nothing the program can come to is ever freed or about to be (atomic,   *)
(* sweeplist, luaF_close, luaE_freethread), unless lua_setupvalue is       *)
(* called for an upvalue that closures share.                              *)
THEOREM NothingEverDangles ==
  ASSUME ~SetsShared
  PROVE  Spec => []NothingDangles
<1>1. GCInv => NothingDangles
  <2> SUFFICES ASSUME GCInv PROVE NothingDangles
    OBVIOUS
  <2>1. HeapInv /\ LiveInv /\ PhaseInv
    BY DEF GCInv
  <2>2. PICK used : used = Reach
    OBVIOUS
  <2>3. used \subseteq Good /\ Good \subseteq Objs
    BY <2>2, ReachIsGood, CountingHolds DEF Good
  <2>4. ASSUME NEW o \in used, Kind(o) \in {"weakv", "weakk"} PROVE ref[o] \in live \cup {Nil}
    <3>1. o \in live /\ o \in Cells
      BY <2>1, <2>3, <2>4, ObjFacts DEF HeapInv, Objs
    <3>2. ref[o] \in Cells \cup {Nil}
      BY <2>1, <3>1 DEF HeapInv, HeapTypes, Values
    <3>3. Refs(o) = {ref[o]} \ {Nil} /\ Refs(o) \subseteq Good
      BY <2>1, <2>3, <2>4 DEF Refs, LiveInv
    <3> QED BY <2>3, <3>2, <3>3, HeapAssumption DEF Objs
  <2>5. ASSUME NEW o \in used, Kind(o) = "upval", IsOpen(o) PROVE slot[o][1] \in Objs
    <3>1. o \in Cells
      BY <2>1, <2>3, <2>5, ObjFacts DEF HeapInv, Objs
    <3> QED BY <2>1, <2>5, <3>1 DEF HeapInv, IsOpen
  <2>6. gcstate \in {"pause", "propagate"} => \A o \in live : ~IsDead(o)
    <3>1. gcstate = "propagate" => Good = Objs
      BY <2>1, NothingDead DEF PhaseInv
    <3>2. gcstate = "pause" => Good = Objs
      BY <2>1 DEF PhaseInv, LiveInv, Good, IsDead
    <3> QED BY <3>1, <3>2 DEF Good, Objs
  <2>7. \A o \in used : ~IsDead(o)
    BY <2>3 DEF Good
  <2> QED BY <2>2, <2>3, <2>4, <2>5, <2>6, <2>7 DEF NothingDangles
<1> QED BY <1>1, Inductive, PTL

(* A userdata with a metatable is freed only after its finalizer was       *)
(* called, once (luaC_separateudata, GCTM), under the same condition.      *)
THEOREM FinalizersRunOnlyOnce ==
  ASSUME ~SetsShared
  PROVE  Spec => FinalizersRunOnce
<1> DEFINE Once(u) == /\ u \notin live' /\ ref[u] # Nil => u \in finalized \ tmudata
                      /\ u \in live' /\ u \in finalized \ tmudata => u \notin tmudata'
<1>1. ASSUME GCInv, [Next]_vars, NEW u \in Of({"udata"}) PROVE Once(u)
  <2>1. HeapInv /\ LiveInv /\ PhaseInv
    BY <1>1 DEF GCInv
  <2>2. u \in live /\ u \in Objs /\ Kind(u) = "udata" /\ tt[u] = "udata"
    BY <2>1, ObjFacts DEF HeapInv, Of, Objs
  <2>3. u \notin live' => u \in finalized \ tmudata
    <3>1. SUFFICES ASSUME u \notin live' PROVE u \in finalized \ tmudata
      OBVIOUS
    <3>2. SweepStep
      BY <1>1, <2>2, <3>1, WhatStepsDo
    <3>3. PICK objs : Sweep(objs)
      BY <3>2 DEF SweepStep
    <3>4. IsDead(u)
      BY <2>2, <3>1, <3>3 DEF Sweep
    <3>5. u \notin Good
      BY <3>4 DEF Good
    <3> QED BY <1>1, <2>1, <3>5 DEF PhaseInv, LiveInv
  <2>4. u \in finalized \ tmudata => u \notin tmudata'
    <3>1. CASE tmudata' \subseteq tmudata
      BY <3>1
    <3>2. CASE Atomic
      <4>1. PICK m : tmudata' = tmudata \cup {x \in Separateudata(m) : ref[x] # Nil}
        BY <3>2, ZenonT(30) DEF Atomic
      <4> QED BY <4>1 DEF Separateudata
    <3> QED BY <1>1, <3>1, <3>2, WhatStepsDo
  <2> QED BY <2>3, <2>4
<1>2. GCInv /\ [Next]_vars => [\A u \in Of({"udata"}) : Once(u)]_vars
  BY <1>1
<1> QED BY <1>2, Inductive, PTL DEF Spec, FinalizersRunOnce
=============================================================================

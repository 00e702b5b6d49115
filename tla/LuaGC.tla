------------------------------- MODULE LuaGC -------------------------------
(***************************************************************************)
(* The incremental garbage collector of Lua 5.1 (lua/src/lgc.c), with the  *)
(* write barriers the interpreter and the API call (lvm.c, lapi.c), the    *)
(* upvalues of lfunc.c and the interned strings of lstring.c.  A step of   *)
(* the collector (singlestep) comes between any two operations of the      *)
(* running program.                                                        *)
(*                                                                         *)
(* Objects live in cells; the kind tt of a cell is fixed by the chosen     *)
(* shape, and a cell can be used again once it is freed.  Every object has *)
(* one reference ref: the value of a table (weak in a weakv table, the     *)
(* weak key in a weakk table), the upvalue of a Lua closure, the metatable *)
(* of a userdata (which has a __gc method), the value of a closed upvalue. *)
(* Threads refer to what is in their stack slots, an open upvalue to a     *)
(* slot.  The lists gray, grayagain, weak and tmudata, and what is left to *)
(* sweep of rootgc and of the string table, are sets: their order decides  *)
(* only the order of steps the model leaves free.                          *)
(***************************************************************************)
EXTENDS Integers, FiniteSets

CONSTANTS Cells,      \* where objects live
          Shapes,     \* the kinds the cells may hold, one is chosen at the start
          Main,       \* the main thread
          MainSlots,  \* the size of its stack
          Watched,    \* the cells GarbageIsFreed is about
          Metatables, \* the tables that may become metatables of basic types
          SetsShared, \* whether lua_setupvalue is called for upvalues that closures share
          Nil

Kinds == {"table", "weakv", "weakk", "closure", "thread", "udata", "upval", "string"}

ASSUME HeapAssumption ==
  /\ IsFiniteSet(Cells) /\ Shapes \subseteq [Cells -> Kinds] /\ MainSlots \in Nat
  /\ Main \notin Cells /\ Nil \notin Cells \cup {Main} /\ SetsShared \in BOOLEAN

MainStack == {Main} \X (1 .. MainSlots)
Slots == MainStack \cup (Cells \X {1})
SlotsOf(t) == IF t = Main THEN MainStack ELSE {<<t, 1>>}
Values == Cells \cup {Nil}

ASSUME SlotsAssumption == Nil \notin Slots

VARIABLES tt,           \* the kind of every cell
          live,         \* the cells in use
          ref, stack,
          slot,         \* the stack slot of an open upvalue, Nil when it is closed
          mt,           \* g->mt: the metatable of a basic type
          running,      \* the running thread L
          marked,       \* white (the current one), dead (the other), gray, black
          gcstate,
          gray, grayagain, weak,
          sweep,        \* what is left to sweep
          tmudata,      \* userdata to be finalized
          finalized,    \* userdata with FINALIZEDBIT
          full          \* where luaC_fullgc is

heap == <<tt, live, ref, stack, slot, mt, running>>
lists == <<gray, grayagain, weak>>
vars == <<heap, marked, gcstate, lists, sweep, tmudata, finalized, full>>

Objs == live \cup {Main}
Kind(o) == IF o = Main THEN "thread" ELSE tt[o]
Of(kinds) == {o \in Objs : Kind(o) \in kinds}
Listed == {"table", "weakv", "weakk", "closure", "thread"}   \* the kinds with a gclist

IsDead(o) == o # Main /\ marked[o] = "dead"
White(m) == {o \in Objs : m[o] \in {"white", "dead"}}

IsOpen(u) == slot[u] # Nil
UpvalValue(u) == IF IsOpen(u) THEN stack[slot[u]] ELSE ref[u]
StackOf(t) == {stack[s] : s \in SlotsOf(t)} \ {Nil}

TypeOK ==
  /\ tt \in Shapes /\ live \subseteq Cells
  /\ ref \in [Cells -> Values] /\ stack \in [Slots -> Values]
  /\ slot \in [Cells -> Slots \cup {Nil}] /\ mt \in Values /\ running \in Objs
  /\ marked \in [Cells \cup {Main} -> {"white", "dead", "gray", "black"}]
  /\ gcstate \in {"pause", "propagate", "sweepstring", "sweep", "finalize"}
  /\ \A l \in {gray, grayagain, weak} : l \subseteq Of(Listed)
  /\ sweep \subseteq Objs /\ tmudata \subseteq Of({"udata"})
  /\ finalized \subseteq Of({"udata"})
  /\ \A c \in Cells : slot[c] # Nil => c \in Of({"upval"}) /\ Kind(slot[c][1]) = "thread"
  /\ full \in {"no", "sweep", "mark"}

Init ==
  /\ tt \in Shapes /\ live = {}
  /\ ref = [c \in Cells |-> Nil] /\ stack = [s \in Slots |-> Nil]
  /\ slot = [c \in Cells |-> Nil] /\ mt = Nil /\ running = Main
  /\ marked = [o \in Cells \cup {Main} |-> "white"]
  /\ gcstate = "pause"
  /\ gray = {} /\ grayagain = {} /\ weak = {}
  /\ sweep = {} /\ tmudata = {} /\ finalized = {} /\ full = "no"
-----------------------------------------------------------------------------
(* The collector's state while it marks, for the pure operators below. *)
G0 == [marked |-> marked, gray |-> gray, grayagain |-> grayagain, weak |-> weak]

(* What reallymarkobject goes on to mark from a userdata or an upvalue. *)
Through(o) ==
  CASE Kind(o) = "udata" -> {ref[o]} [] Kind(o) = "upval" -> {UpvalValue(o)} [] OTHER -> {}

(* The objects reallymarkobject turns black: it handles them at once.      *)
Dark(o) == Kind(o) = "udata" \/ (Kind(o) = "upval" /\ ~IsOpen(o))

(* The white objects marked with a set of values.  An upvalue can lead to  *)
(* a userdata and that to a table, no further.                             *)
MarkedWith(white, values) ==
  LET w1 == values \cap white
      w2 == w1 \cup ((UNION {Through(o) : o \in w1}) \cap white)
  IN  w2 \cup ((UNION {Through(o) : o \in w2}) \cap white)

(* markvalue and markobject of a set of values. *)
Mark(g, values) ==
  LET new == MarkedWith(White(g.marked), values)
  IN  [g EXCEPT !.marked = [o \in DOMAIN @ |-> IF o \notin new THEN @[o]
                                               ELSE IF Dark(o) THEN "black" ELSE "gray"],
                !.gray = @ \cup (new \cap Of(Listed))]

(* Mutant: weak tables turn black. *)
PropagateWeakBlack(g, objs) ==
  LET weaks == objs \cap Of({"weakv", "weakk"})
      threads == objs \cap Of({"thread"})
      strong == objs \ (weaks \cup threads)
  IN  Mark([marked |-> [o \in DOMAIN g.marked |-> IF o \in strong \cup weaks THEN "black" ELSE g.marked[o]],
            gray |-> g.gray \ objs,
            grayagain |-> g.grayagain \cup threads,
            weak |-> g.weak \cup weaks],
           {ref[o] : o \in strong} \cup UNION {StackOf(t) : t \in threads})

(* propagatemark, of some objects of the gray list: weak tables and        *)
(* threads stay gray, on a list for atomic.                                *)
Propagate(g, objs) ==
  LET weaks == objs \cap Of({"weakv", "weakk"})
      threads == objs \cap Of({"thread"})
      strong == objs \ (weaks \cup threads)
  IN  Mark([marked |-> [o \in DOMAIN g.marked |-> IF o \in strong THEN "black" ELSE g.marked[o]],
            gray |-> g.gray \ objs,
            grayagain |-> g.grayagain \cup threads,
            weak |-> g.weak \cup weaks],
           {ref[o] : o \in strong} \cup UNION {StackOf(t) : t \in threads})

(* propagateall *)
Propagateall(g) ==
  LET after[n \in 0 .. Cardinality(Objs)] ==
        IF n = 0 THEN g
        ELSE LET h == after[n - 1] IN IF h.gray = {} THEN h ELSE Propagate(h, h.gray)
  IN  after[Cardinality(Objs)]

(* remarkupvals *)
Remarkupvals(g) ==
  Mark(g, {UpvalValue(u) : u \in {u \in Of({"upval"}) : IsOpen(u) /\ g.marked[u] = "gray"}})

(* marktmu *)
Marktmu(g, pending) ==
  Mark([g EXCEPT !.marked =
          [o \in DOMAIN @ |-> IF o \in pending THEN "white" ELSE @[o]]], pending)

(* Mutant: only weak values are cleared. *)
IsClearedValues(m, fin, h) ==
  /\ ref[h] # Nil /\ Kind(ref[h]) # "string"
  /\ Kind(h) = "weakv" /\ ref[h] \in White(m) \cup fin

(* iscleared, of the reference of a weak table. *)
IsCleared(m, fin, h) ==
  /\ ref[h] # Nil /\ Kind(ref[h]) # "string"
  /\ ref[h] \in White(m) \/ (Kind(h) = "weakv" /\ ref[h] \in fin)

(* markroot *)
Markroot ==
  LET g == Mark([G0 EXCEPT !.gray = {}, !.grayagain = {}, !.weak = {}], {Main, mt})
  IN  /\ marked' = g.marked /\ gray' = g.gray
      /\ grayagain' = {} /\ weak' = {}
      /\ gcstate' = "propagate"
      /\ UNCHANGED <<heap, sweep, tmudata, finalized>>

(* A step of the collector handles one object.  Nothing comes between the  *)
(* steps of luaC_fullgc: there it handles all that wait.                   *)
Batches(next, all) == IF full = "no" THEN {{o} : o \in next} ELSE {all}

(* GCSpropagate with something gray. *)
PropagateStep ==
  /\ gcstate = "propagate" /\ gray # {}
  /\ \E objs \in Batches(gray, gray) :
       LET g == Propagate(G0, objs) IN
       marked' = g.marked /\ gray' = g.gray /\ grayagain' = g.grayagain /\ weak' = g.weak
  /\ UNCHANGED <<heap, gcstate, sweep, tmudata, finalized, full>>

(* What atomic marks whatever happened since markroot: the running thread, *)
(* the basic metatables again.                                             *)
LateRoots == {running, mt}

(* Mutant: a userdata is separated again after its finalizer has run. *)
SeparateudataAgain(m) == Of({"udata"}) \cap White(m)

(* luaC_separateudata: the userdata found dead for the first time; those   *)
(* with a metatable go to tmudata.                                         *)
Separateudata(m) == (Of({"udata"}) \cap White(m)) \ finalized

(* Mutant: the whites are not exchanged. *)
FlipNot(colour) == colour

(* The other white becomes the current one. *)
Flip(colour) == CASE colour = "white" -> "dead" [] colour = "dead" -> "white" [] OTHER -> colour

(* GCSpropagate with nothing gray: atomic, with luaC_separateudata and     *)
(* cleartable.                                                             *)
Atomic ==
  /\ gcstate = "propagate" /\ gray = {}
  /\ \E g1 \in {Propagateall(Remarkupvals(G0))} :
     \E g2 \in {Propagateall(Mark([g1 EXCEPT !.gray = g1.weak, !.weak = {}], LateRoots))} :
     \E g3 \in {Propagateall([g2 EXCEPT !.gray = g2.grayagain, !.grayagain = {}])} :
     LET found == Separateudata(g3.marked)
         fin == finalized \cup found
         tmu == tmudata \cup {u \in found : ref[u] # Nil}
     IN  \E g4 \in {Propagateall(Marktmu(g3, tmu))} :
         LET kept == {ref[h] : h \in g4.weak} \cap Of({"string"}) IN
         /\ tmudata' = tmu
         /\ finalized' = fin
         /\ marked' = [o \in DOMAIN marked |-> IF o \in kept THEN "gray" ELSE Flip(g4.marked[o])]
         /\ ref' = [c \in Cells |-> IF c \in g4.weak /\ IsCleared(g4.marked, fin, c) THEN Nil ELSE ref[c]]
         /\ gray' = {} /\ grayagain' = g4.grayagain /\ weak' = g4.weak
         /\ sweep' = Objs \ (tmu \cup {u \in Of({"upval"}) : IsOpen(u)})
  /\ gcstate' = "sweepstring"
  /\ UNCHANGED <<tt, live, stack, slot, mt, running, full>>

(* sweeplist on some objects: a dead one is freed, any other made white;   *)
(* the open upvalues of a thread are swept with it, and those that survive *)
(* a dead thread are closed before its stack goes (luaE_freethread).       *)
Sweep(objs) ==
  LET upvals == {u \in Of({"upval"}) : IsOpen(u) /\ slot[u][1] \in objs}
      gone == {o \in upvals \cup objs : IsDead(o)}
      closed == {u \in upvals \ gone : slot[u][1] \in gone}
  IN  /\ live' = live \ gone
      /\ sweep' = sweep \ objs
      /\ ref' = [c \in Cells |-> IF c \in gone THEN Nil
                                 ELSE IF c \in closed THEN UpvalValue(c) ELSE ref[c]]
      /\ slot' = [c \in Cells |-> IF c \in gone \cup closed THEN Nil ELSE slot[c]]
      /\ stack' = [s \in Slots |-> IF s[1] \in gone THEN Nil ELSE stack[s]]
      /\ marked' = [o \in DOMAIN marked |-> IF o \in upvals \cup objs THEN "white" ELSE marked[o]]
      /\ finalized' = finalized \ gone
      /\ UNCHANGED <<tt, mt, running, lists, tmudata>>

(* What sweeplist may come to next: the strings first, then rootgc, where  *)
(* the main thread and the userdata after it end the list.                 *)
NextToSweep ==
  LET rank(o) == CASE o = Main -> 2 [] Kind(o) = "string" -> 0 [] Kind(o) = "udata" -> 3 [] OTHER -> 1
  IN  {o \in sweep : \A x \in sweep : rank(o) <= rank(x)}

(* GCSsweepstring and GCSsweep *)
SweepStep ==
  /\ gcstate \in {"sweepstring", "sweep"}
  /\ \E objs \in Batches(NextToSweep, sweep) :
       /\ Sweep(objs)
       /\ gcstate' = IF sweep = objs THEN "finalize"
                     ELSE IF \E o \in sweep \ objs : Kind(o) = "string" THEN "sweepstring"
                     ELSE "sweep"
  /\ UNCHANGED full

(* GCTM: the userdata goes back to the root list and, if its metatable is  *)
(* still there, to its __gc method, which finds it in a stack slot.        *)
Gctm ==
  /\ gcstate = "finalize" /\ full # "sweep"
  /\ \E u \in tmudata, s \in SlotsOf(running) :
       /\ tmudata' = tmudata \ {u}
       /\ marked' = [marked EXCEPT ![u] = "white"]
       /\ stack' = [stack EXCEPT ![s] = IF ref[u] = Nil THEN @ ELSE u]
  /\ UNCHANGED <<tt, live, ref, slot, mt, running, gcstate, lists, sweep,
                 finalized, full>>

(* The cycle ends, or luaC_fullgc, its sweep over, starts another. *)
FinishCycle ==
  /\ gcstate = "finalize"
  /\ IF full = "sweep" THEN Markroot /\ full' = "mark"
     ELSE /\ tmudata = {}
          /\ gcstate' = "pause" /\ full' = "no"
          /\ UNCHANGED <<heap, marked, lists, sweep, tmudata, finalized>>

StartCycle == gcstate = "pause" /\ Markroot /\ UNCHANGED full

(* The program runs, or a finalizer called from luaC_fullgc does. *)
Mutating == full = "no" \/ (full = "mark" /\ gcstate = "finalize")

(* luaC_fullgc: a mark phase under way is abandoned, everything is swept   *)
(* back to white, and a whole cycle follows.                               *)
FullGC ==
  /\ Mutating
  /\ full' = "sweep"
  /\ IF gcstate \in {"pause", "propagate"}
     THEN /\ gray' = {} /\ grayagain' = {} /\ weak' = {}
          /\ sweep' = Objs \ (tmudata \cup {u \in Of({"upval"}) : IsOpen(u)})
          /\ gcstate' = "sweepstring"
     ELSE UNCHANGED <<lists, sweep, gcstate>>
  /\ UNCHANGED <<heap, marked, tmudata, finalized>>

Singlestep == StartCycle \/ PropagateStep \/ Atomic \/ SweepStep \/ Gctm \/ FinishCycle
-----------------------------------------------------------------------------
(* The operations of the program.                                          *)

(* The references of an object that keep their referents alive: a weak     *)
(* table keeps strings only.                                               *)
Strong(o) ==
  CASE Kind(o) = "thread" -> StackOf(o)
    [] Kind(o) \in {"weakv", "weakk"} -> {v \in {ref[o]} \cap live : Kind(v) = "string"}
    [] Kind(o) = "upval" -> {UpvalValue(o)} \ {Nil}
    [] OTHER -> {ref[o]} \ {Nil}

(* What the program can still come to: from the threads, the metatables of *)
(* the basic types and the userdata waiting for their finalizers.          *)
Reach ==
  LET after[n \in 0 .. Cardinality(Cells)] ==
        IF n = 0 THEN {Main, running} \cup tmudata \cup ({mt} \ {Nil})
        ELSE LET r == after[n - 1] IN r \cup UNION {Strong(o) : o \in r \cap Objs}
  IN  after[Cardinality(Cells)]

(* The values at hand are those in the stacks, also of a coroutine found   *)
(* there; the others are got from them by lua_gettable, lua_getmetatable,  *)
(* OP_GETUPVAL and the like.                                               *)
Held ==
  LET mine == StackOf(Main) \cup StackOf(running)
  IN  mine \cup UNION {StackOf(t) : t \in {t \in mine : Kind(t) = "thread"}}
Got(held) ==
  {ref[o] : o \in {o \in held : Kind(o) \in {"table", "weakv", "weakk", "udata"}}}
    \cup {UpvalValue(ref[c]) : c \in {c \in held : Kind(c) = "closure"}} \cup {mt, Nil}

Write(s, v) == stack' = [stack EXCEPT ![s] = v]

(* A copy within or between stacks (lua_xmove), a load, a pop: no barrier, *)
(* for threads are never black.                                            *)
Move(s, v) ==
  /\ Kind(s[1]) = "thread" /\ stack[s] # v
  /\ Write(s, v)
  /\ UNCHANGED <<tt, live, ref, slot, mt, running, marked, lists>>

(* luaC_link, luaS_newudata and newlstr of a new string. *)
New(s, c) ==
  /\ c \notin live /\ tt[c] \notin {"closure", "upval"}
  /\ live' = live \cup {c}
  /\ marked' = [marked EXCEPT ![c] = "white"]
  /\ Write(s, c)
  /\ UNCHANGED <<tt, ref, slot, mt, running, lists>>

(* luaS_newlstr of a string that exists, dead perhaps. *)
Intern(s, c) ==
  /\ c \in Of({"string"})
  /\ marked' = [marked EXCEPT ![c] = IF IsDead(c) THEN "white" ELSE @]
  /\ Write(s, c)
  /\ UNCHANGED <<tt, live, ref, slot, mt, running, lists>>

(* OP_CLOSURE with OP_MOVE: over slot v, by luaF_findupval.  The upvalue   *)
(* open on v is shared, and brought back if it is dead.                    *)
NewClosure(s, v, c, u) ==
  /\ tt[u] = "upval"
  /\ IF \E x \in Of({"upval"}) : slot[x] = v THEN u \in live /\ slot[u] = v ELSE u \notin live
  /\ live' = live \cup {c, u}
  /\ slot' = [slot EXCEPT ![u] = v]
  /\ ref' = [ref EXCEPT ![c] = u]
  /\ marked' = [marked EXCEPT ![c] = "white",
                              ![u] = IF u \notin live \/ IsDead(u) THEN "white" ELSE @]
  /\ Write(s, c)
  /\ UNCHANGED <<tt, mt, running, lists>>

(* OP_CLOSURE with OP_GETUPVAL: in a closure e that runs, and is therefore *)
(* in the stack, whose upvalue the new one shares.                         *)
NewClosureShared(s, e, c) ==
  /\ Kind(e) = "closure"
  /\ live' = live \cup {c}
  /\ ref' = [ref EXCEPT ![c] = ref[e]]
  /\ marked' = [marked EXCEPT ![c] = "white"]
  /\ Write(s, c)
  /\ UNCHANGED <<tt, slot, mt, running, lists>>

(* luaC_barrierf: o, which is black, has come to refer to v. *)
Barrierf(o, v, m) ==
  IF m[o] = "black" /\ v \in White(m)
  THEN IF gcstate = "propagate"
       THEN LET g == Mark([G0 EXCEPT !.marked = m], {v})
            IN  marked' = g.marked /\ gray' = g.gray /\ UNCHANGED <<grayagain, weak>>
       ELSE marked' = [m EXCEPT ![o] = "white"] /\ UNCHANGED lists
  ELSE marked' = m /\ UNCHANGED lists

(* luaC_barrierback: the table is looked at again in atomic. *)
Barrierback(t, v) ==
  IF marked[t] = "black" /\ v \in White(marked)
  THEN marked' = [marked EXCEPT ![t] = "gray"] /\ grayagain' = grayagain \cup {t}
       /\ UNCHANGED <<gray, weak>>
  ELSE UNCHANGED <<marked, lists>>

(* lua_settable, OP_SETTABLE; a value or, in a weakk table, a key. *)
SetTable(t, v) ==
  /\ Kind(t) \in {"table", "weakv", "weakk"} /\ ref[t] # v
  /\ ref' = [ref EXCEPT ![t] = v]
  /\ Barrierback(t, v)
  /\ UNCHANGED <<tt, live, stack, slot, mt, running>>

(* lua_setmetatable of a userdata. *)
SetMetatable(u, v) ==
  /\ Kind(u) = "udata" /\ (v # Nil => Kind(v) = "table") /\ ref[u] # v
  /\ ref' = [ref EXCEPT ![u] = v]
  /\ Barrierf(u, v, marked)
  /\ UNCHANGED <<tt, live, stack, slot, mt, running>>

(* lua_setmetatable of a basic type: no barrier. *)
SetBasicMetatable(v) ==
  /\ (v # Nil => Kind(v) = "table") /\ mt' = v /\ mt # v
  /\ UNCHANGED <<tt, live, ref, stack, slot, running, marked, lists>>

(* The value of an upvalue, which is in a stack slot while it is open. *)
WriteUpval(u, v) ==
  /\ UpvalValue(u) # v
  /\ IF IsOpen(u) THEN Write(slot[u], v) /\ UNCHANGED ref
     ELSE ref' = [ref EXCEPT ![u] = v] /\ UNCHANGED stack
  /\ UNCHANGED <<tt, live, slot, mt, running>>

(* Mutant: no barrier. *)
SetUpvalBare(c, v) ==
  /\ Kind(c) = "closure" /\ WriteUpval(ref[c], v)
  /\ UNCHANGED <<marked, lists>>

(* OP_SETUPVAL *)
SetUpval(c, v) ==
  /\ Kind(c) = "closure" /\ WriteUpval(ref[c], v)
  /\ Barrierf(ref[c], v, marked)

(* lua_setupvalue: the barrier is that of the closure, not of the upvalue. *)
SetUpvalue(c, v) ==
  /\ Kind(c) = "closure"
  /\ SetsShared \/ \A d \in Of({"closure"}) : ref[d] = ref[c] => d = c
  /\ WriteUpval(ref[c], v)
  /\ Barrierf(c, v, marked)

(* luaF_close of the upvalue open on a slot that goes out of scope, with   *)
(* luaC_linkupval: a dead one is freed.                                    *)
Close(u) ==
  /\ u \in Of({"upval"}) /\ IsOpen(u) /\ slot[u][1] = running
  /\ Write(slot[u], Nil)
  /\ slot' = [slot EXCEPT ![u] = Nil]
  /\ IF IsDead(u)
     THEN live' = live \ {u} /\ marked' = [marked EXCEPT ![u] = "white"] /\ UNCHANGED <<ref, lists>>
     ELSE /\ ref' = [ref EXCEPT ![u] = UpvalValue(u)]
          /\ IF marked[u] = "gray" /\ gcstate = "propagate"
             THEN Barrierf(u, UpvalValue(u), [marked EXCEPT ![u] = "black"])
             ELSE /\ marked' = [marked EXCEPT ![u] = IF @ = "gray" THEN "white" ELSE @]
                  /\ UNCHANGED lists
          /\ UNCHANGED live
  /\ UNCHANGED <<tt, mt, running>>

(* lua_resume, and the return from it. *)
Resume(t) ==
  /\ running' = t
  /\ IF running = Main THEN Kind(t) = "thread" /\ t # Main ELSE t = Main
  /\ UNCHANGED <<tt, live, ref, stack, slot, mt, marked, lists>>

Program ==
  /\ Mutating
  /\ \E held \in {Held} :
     \/ \E s \in {s \in Slots : s[1] \in held \cup {Main}}, v \in held \cup Got(held) : Move(s, v)
     \/ \E s \in SlotsOf(running) :
          \/ \E c \in Cells : New(s, c) \/ Intern(s, c)
          \/ \E c \in {c \in Cells \ live : tt[c] = "closure"} :
               \/ \E u \in Cells, v \in SlotsOf(running) : NewClosure(s, v, c, u)
               \/ \E e \in StackOf(running) : NewClosureShared(s, e, c)
     \/ \E o \in held, v \in held \cup {Nil} :
          SetTable(o, v) \/ SetMetatable(o, v) \/ SetUpval(o, v) \/ SetUpvalue(o, v)
     \/ \E v \in (held \cap Metatables) \cup {Nil} : SetBasicMetatable(v)
     \/ \E u \in Cells : Close(u)
     \/ \E t \in held \cup {Main} : Resume(t)
  /\ UNCHANGED <<gcstate, sweep, tmudata, finalized, full>>

Next == Singlestep \/ FullGC \/ Program
Spec == Init /\ [][Next]_vars

(* A step of the collector is possible in every state, and is taken again  *)
(* and again.                                                              *)
FairSpec == Spec /\ []<><<Singlestep>>_vars
-----------------------------------------------------------------------------
(* No live object refers to freed memory: whatever the program can come to *)
(* is allocated, what a weak table still shows it too, and the stack an    *)
(* open upvalue points into (sweeplist, cleartable, luaE_freethread).  Nor *)
(* is anything of it about to be freed: while the collector sweeps nothing *)
(* the program can come to is dead, and while it marks nothing is (the     *)
(* assertion of reallymarkobject).  It holds as long as lua_setupvalue is  *)
(* not called for an upvalue that closures share (SetsShared).             *)
NothingDangles ==
  LET used == Reach IN
  /\ \A o \in used :
       /\ o \in Objs
       /\ Kind(o) \in {"weakv", "weakk"} => ref[o] \in live \cup {Nil}
       /\ Kind(o) = "upval" /\ IsOpen(o) => slot[o][1] \in Objs
  /\ \A o \in IF gcstate \in {"pause", "propagate"} THEN live ELSE used : ~IsDead(o)

(* The invariant the barriers keep: while marking goes on, no black object *)
(* refers to a white one (userdata whose finalizers luaC_fullgc left       *)
(* waiting are marked anew in atomic).  The barrier of lua_setupvalue      *)
(* keeps it only for an upvalue that no other closure shares.              *)
BlackToWhite ==
  gcstate = "propagate" =>
    \A o \in live \ tmudata :
      marked[o] = "black" => Strong(o) \cap White(marked) = {}

(* An object has one gclist: while marking goes on it is in at most one of *)
(* the lists, and in exactly one when it is gray; upvalues that are open   *)
(* and threads are never black (the comments of reallymarkobject).  When a *)
(* cycle is over nothing is gray or black but userdata that wait for their *)
(* finalizers.                                                             *)
ListsAgree ==
  /\ TypeOK
  /\ gray \cap grayagain = {} /\ gray \cap weak = {} /\ grayagain \cap weak = {}
  /\ gcstate = "propagate" =>
       \A o \in Of(Listed) : marked[o] = "gray" <=> o \in gray \cup grayagain \cup weak
  /\ \A o \in Objs :
       Kind(o) = "thread" \/ (Kind(o) = "upval" /\ IsOpen(o)) => marked[o] # "black"
  /\ gcstate \in {"pause", "finalize"} => Objs \ White(marked) \subseteq tmudata

(* A userdata with a metatable is freed only after its finalizer was       *)
(* called, and is not handed to it twice (luaC_separateudata, GCTM).       *)
FinalizersRunOnce ==
  [][\A u \in Of({"udata"}) :
       /\ u \notin live' /\ ref[u] # Nil => u \in finalized \ tmudata
       /\ u \in live' /\ u \in finalized \ tmudata => u \notin tmudata']_vars

(* What the program cannot come to any more is freed in the end, if it is  *)
(* not brought back (by luaS_newlstr, by a weak table): luaC_step, called  *)
(* at every allocation, gets through the cycle whatever the program does.  *)
GarbageIsFreed ==
  \A c \in Watched : []<>(c \notin live \/ c \in Reach)
=============================================================================

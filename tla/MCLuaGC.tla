------------------------------ MODULE MCLuaGC ------------------------------
(* Small heaps for LuaGC: a closure and a coroutine; two closures that may *)
(* share an upvalue; weak values, strings and a metatable of a basic type; *)
(* userdata with finalizers and weak keys.                                 *)
EXTENDS LuaGC, TLC

CONSTANTS a, b, c

MCCells == {a, b, c}
Heap(ka, kb, kc) == (a :> ka) @@ (b :> kb) @@ (c :> kc)

MCShapes == {Heap("thread", "upval", "closure"),
             Heap("closure", "upval", "closure"),
             Heap("table", "string", "weakv"),
             Heap("weakk", "udata", "table")}
=============================================================================

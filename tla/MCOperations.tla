---------------------------- MODULE MCOperations ----------------------------
(* The literals of a function.  The first one is around the limits of its    *)
(* type, in short, long, overlong and broken encodings, or of a conversion.  *)
EXTENDS Operations

Literal(type, codes) ==
  [op : {"const"}, type : {type}, from : {"code"}, code : codes]

\* Floats, in halves, of three and of six bits.
FpLiteral(type, positive, negative) ==
  Literal(type, {<<Float(FALSE, h)>> : h \in positive} \cup {<<Float(TRUE, h)>> : h \in negative}
                \cup {<<NaN>>})

MCPushes ==
  << Literal("i32", {<<1>>, <<7>>, <<8, 7>>, <<15, 0>>, <<8, 8, 0>>, <<15>>, <<13, 2>>})
     \cup Literal("i64", {<<1>>, <<7>>, <<8, 4>>, <<8, 8, 1>>, <<8, 8, 2>>, <<15, 9, 4>>, <<8, 8, 8, 0>>})
     \cup FpLiteral("f32", {0, 14, 16, 28, 32, 224, 256, 448, 512, Infinity}, {0, 2, 16, 20, 256, 320})
     \cup FpLiteral("f64", {1, 15, 16, 31, 32, 252, 256, 504, 512}, {0, 1, 2, 17, 18, 256, 264}),
     Literal("i32", {<<7>>, <<3>>}) \cup Literal("i64", {<<7>>, <<8, 8, 2>>})
     \cup FpLiteral("f32", {}, {0}) \cup FpLiteral("f64", {0}, {}),
     Literal("i32", {<<2>>}) \cup Literal("f64", {<<1>>}) >>

MCConsts == UNION {MCPushes[h] : h \in DOMAIN MCPushes}
MCPrecision == [f32 |-> 3, f64 |-> 6]
MCOffsets == {<<10, 0>>}

Any == {i.op : i \in Wasm!UnaryInstruction \cup Wasm!ConvertInstruction \cup Wasm!BinaryInstruction
                   \cup Wasm!SelectInstruction \cup Wasm!LoadInstruction
                   \cup Wasm!StoreInstruction \cup Wasm!MemoryInstruction}
MCOps == <<Any, Any, {"f.lt", "f.eq"}>>
=============================================================================

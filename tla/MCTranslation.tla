--------------------------- MODULE MCTranslation ---------------------------
(***************************************************************************)
(* Instances of Translation: the instructions on values without blocks,    *)
(* the blocks and branches with few values, and functions of the kind that *)
(* Allowed stands for.                                                     *)
(***************************************************************************)
EXTENDS Translation

Op(operands, result) == [operands |-> operands, result |-> result, load |-> FALSE]
Load(operands, result) == [operands |-> operands, result |-> result, load |-> TRUE]
Word32(v) == [type |-> "i32", words |-> <<v>>]
Word64(v) == [type |-> "i64", words |-> <<v, v + 1>>]
Type(params, results) == [params |-> params, results |-> results]

MCNone == {}
MCNegative == {2}
MCNoTypes == <<>>
MCInt == <<"i32">>
MCLong == <<"i64">>
MCIntConstant == {Word32(2)}
MCLongConstant == {Word64(2)}

MCOperators == {Op(<<"i32", "i32">>, "i32"), Op(<<"f64">>, "i32"), Op(<<"i32", "f64">>, None),
                Load(<<"i32">>, "f64")}
MCConversions == {Op(<<"i32">>, "f64")}
MCSelectTypes == {"i32"}
MCGlobalTypes == {"f64"}
MCCallTypes == {[args |-> <<"i32">>, rets |-> <<"f64">>],
                [args |-> <<"i32", "i32", "i32">>, rets |-> <<>>]}

MCBlocksOperators == {Op(<<"i32", "i32">>, "i32")}
MCBlockTypes == {Type(<<>>, <<>>), Type(<<"i32">>, <<"i32">>), Type(<<>>, <<"i32", "i32">>)}

MCIntGlobals == {"i32"}
MCDoubleRefs == {"double_refs"}
=============================================================================

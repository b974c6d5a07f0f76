---------------------------- MODULE MCBinRouting ----------------------------
(* An instance of BinRouting: nested, repeated and unusable prefixes over two   *)
(* digits, three tables and the cards they tell apart.                          *)
EXTENDS BinRouting, TLC

CONSTANTS visa, mc, crdb

R(p, r) == [prefix |-> p, route |-> r]
TableA == <<R(<<4>>, visa), R(<<4, 1>>, NoRoute), R(<<4, 1, 4>>, mc)>>
TableB == <<R(<<4, 1>>, crdb), R(<<>>, mc), R(<<4>>, visa), R(<<4, 1>>, mc)>>
ThreeTables == {TableA, TableB, <<>>}
SomePans == {<<4, 1, 4>>, <<4, 1, 1, 4>>, <<1, 4>>, <<4>>}
=============================================================================

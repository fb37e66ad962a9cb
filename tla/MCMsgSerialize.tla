--------------------------- MODULE MCMsgSerialize ---------------------------
(* Types and values for the serializer: one of every kind, with objects in *)
(* objects and in containers.                                              *)
EXTENDS MsgSerialize, TLC

Lit(n) == [kind |-> "literal", width |-> n, default |-> [k \in 1..n |-> 0]]
Text(kind) == [kind |-> kind, default |-> <<>>]
Obj(fields) == [kind |-> "object", fields |-> fields, default |-> [k \in DOMAIN fields |-> fields[k].default]]
Of(kind, T) == [kind |-> kind, of |-> T, default |-> <<>>]
MapTo(kind, T) == [kind |-> kind, key |-> Lit(1), of |-> T, default |-> <<>>]
(* Objects, and what a later version has added to them.                    *)
P1 == Obj(<<Lit(1)>>)
P2 == Obj(<<Lit(1), Text("string")>>)
Q1 == Obj(<<P1, Lit(2)>>)
Q2 == Obj(<<P2, Lit(2), Of("vector", Lit(1)), Text("wstring")>>)
D3 == Obj(<<Q1>>)

MCTypes == <<
  Lit(2), Text("string"), Text("wstring"), Text("cstring"), Of("bools", Lit(1)),
  Q1, Q2, Of("vector", P1), Of("vector", P2), Of("vector", Lit(2)), Of("list", P1), Of("list", P2), Of("set", Lit(2)), MapTo("map", P1),
  Of("vector*", P1), Of("list*", P1), Of("set*", P1), MapTo("map*", P1), D3>>

(* Values up to one more than the limits of strings and containers, C      *)
(* strings around the number of sizes, objects of up to more bytes than    *)
(* there are sizes, and one that nests too deep.                           *)
Bytes == {<<1>>, <<31>>}
Pairs == {<<1, 2>>, <<31, 0>>}
Strings == {<<>>, <<8>>, <<1, 31>>, <<1, 2, 3>>, <<1, 2, 3, 4>>}
CStrings == Strings \cup {[k \in 1..n |-> 8] : n \in SizeMod - 2..SizeMod + 2}
Wides == {<<>>, <<<<1, 2, 0, 0>>>>, <<<<8, 0, 0, 0>>, <<1, 0, 0, 0>>>>, <<<<1, 2, 3, 0>>>>}
P1s == {<<b>> : b \in Bytes}
P2s == {<<b, s>> : b \in Bytes, s \in Strings}
UpTo(S) == UNION {[1..n -> S] : n \in 0..3}
Ptrs == {<<>>, <<Null>>, <<<<<<1>>>>, Null>>, <<<<<<31>>>>, <<<<1>>>>>>, <<Null, Null, Null>>}
MCValuesOf == <<
  Pairs, Strings, Wides, CStrings, UpTo(Bytes),
  {<<p, n>> : p \in P1s, n \in Pairs}, {<<p, <<1, 2>>, <<<<31>>>>, s>> : p \in P2s, s \in Wides},
  UpTo(P1s), UNION {[1..n -> P2s] : n \in 0..2}, UpTo(Pairs), UpTo(P1s), UNION {[1..n -> P2s] : n \in 0..2}, SUBSET Pairs,
  UNION {[D -> P1s] : D \in SUBSET Bytes},
  Ptrs, Ptrs, Ptrs, UNION {[D -> P1s \cup {Null}] : D \in SUBSET Bytes},
  {<<<<p, <<1, 2>>>>>> : p \in P1s}>>

MCVersions == {<<6, 7>>, <<7, 6>>, <<8, 9>>, <<9, 8>>, <<11, 12>>, <<12, 11>>}
=============================================================================

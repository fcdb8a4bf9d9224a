------------------------------- MODULE MCXml -------------------------------
(* A small text and a few keys: r with an element a and a list ts of one. *)
EXTENDS XmlFlatten

R == "r"
A == "a"
X == "x"
T == "ts"

MCList == <<R, T>>
MCItemTag(n) == "t" \o ToString(n)
MCPaths == {<<R>>, <<R, A>>, <<R, A, X>>, <<R, T>>, TotalKey}
MCSubs == {<<>>, <<X>>}

Text(key, v) == Token("value", key, v)
Open(key) == Token("open", key, Empty)
Close(key) == Token("close", key, Empty)
Leaf(key, v) == <<Open(key), Text(key, v), Close(key)>>

MCSource ==
    <<Text(<<>>, Empty), Open(<<R>>), Text(<<R>>, Empty)>>
      \o Leaf(<<R, A>>, 7)
      \o <<Open(<<R, T>>), Text(<<R, T>>, Empty)>>
      \o Leaf(<<R, T, "total">>, 1) \o Leaf(<<R, T, "t1">>, 5)
      \o <<Close(<<R, T>>), Text(<<R>>, Empty), Close(<<R>>), Text(<<>>, Empty)>>

MCEOF == Token("eof", <<>>, Empty)
=============================================================================

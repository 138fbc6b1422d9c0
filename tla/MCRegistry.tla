---------------------------- MODULE MCRegistry ----------------------------
(* Small instances of Registry: a namespace whose name begins with another *)
(* one's, a namespace with a dot, a VM whose name begins with a dot, and   *)
(* one whose key can be read as a VM of the namespace with the dot.        *)
EXTENDS Registry

Dev == <<"d">>
Dev2 == <<"d", "2">>
DevDot2 == <<"d", ".", "2">>

Simple == [ns |-> Dev, name |-> <<"a">>]
Other == [ns |-> Dev2, name |-> <<"a">>]
Dotted == [ns |-> Dev, name |-> <<".", "a">>]
Split == [ns |-> Dev, name |-> <<"2", ".", "a">>]
SameKey == [ns |-> DevDot2, name |-> <<"a">>]

SomeVMs == {Other, Dotted, Split, SameKey}
OneVM == {Simple}

MCNamespaces == {Dev, DevDot2}
OneNamespace == {Dev}
=============================================================================

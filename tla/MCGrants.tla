------------------------------- MODULE MCGrants -------------------------------
(* A small instance of Grants for TLC. *)
EXTENDS Grants

CONSTANTS docs, docs2

MCSpelling == {<<docs, docs2>>}
MCPaths == {<< >>, <<docs>>, <<docs2>>, <<docs, Up, docs>>, <<docs, PaddedUp>>}
MCOwnPaths == {<< >>, <<docs>>}
MCRoles == {{"admin"}, {"read", "write", "admin"}}
MCAsked == {{}, {"read"}, {"read", "write", "admin"}}
MCKinds == {"Open", "Read", "Move", "Share"}
MCSymmetry == Permutations(Holders) \union Permutations(Drives)
===============================================================================

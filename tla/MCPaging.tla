------------------------------ MODULE MCPaging ------------------------------
(* Instances of Paging for TLC: result sets of up to MaxDocs distinct         *)
(* documents.  Clients ask for any page and limit, Ints.                      *)
EXTENDS Paging

CONSTANT MaxDocs

Listings == {[i \in 1..n |-> i] : n \in 0..MaxDocs}
=============================================================================

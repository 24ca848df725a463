--------------------------- MODULE MCAddressSpaces ---------------------------
(* AddressSpaces for TLC: the kernel's table and two address spaces that    *)
(* disagree on one section; at reset the TLB maps the kernel elsewhere.     *)
EXTENDS AddressSpaces

CONSTANTS kern, one, two
MCTables == {kern, one, two}
MCAsidOf == [t \in MCTables |-> CASE t = kern -> 1 [] t = one -> 2 [] t = two -> 3]
MCBootTlb == {[sec |-> "code", asid |-> 1, pte |-> [pa |-> "data", nG |-> FALSE]]}
=============================================================================

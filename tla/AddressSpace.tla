---------------------------- MODULE AddressSpace ----------------------------
(***************************************************************************)
(* What the contiguous memory allocator of Project-7 does to the bytes it  *)
(* manages, without its list of blocks: owner says which process each byte *)
(* belongs to.                                                             *)
(***************************************************************************)
EXTENDS Naturals, Sequences, FiniteSets

CONSTANTS MemSizes,   \* how many bytes there may be
          Processes,  \* the names of the processes
          Nobody      \* the owner of a byte that is not allocated

VARIABLE owner        \* the owner of each byte, the one at address 0 first

Addresses == 1 .. Len(owner)

(* Some run of size free bytes is given to process p.                      *)
Request(p, first, size) ==
    /\ first + size - 1 <= Len(owner)
    /\ \A a \in first .. first + size - 1 : owner[a] = Nobody
    /\ owner' = [a \in Addresses |->
                    IF a \in first .. first + size - 1 THEN p ELSE owner[a]]

(* Everything process p owns becomes free.                                 *)
Release(p) ==
    owner' = [a \in Addresses |-> IF owner[a] = p THEN Nobody ELSE owner[a]]

(* The bytes of the processes move to the low end, in order: each to the   *)
(* place that its rank among them says.                                    *)
Compact ==
    LET used == {a \in Addresses : owner[a] # Nobody}
        rank(a) == Cardinality({b \in used : b <= a})
    IN /\ DOMAIN owner' = Addresses
       /\ \A a \in used : owner'[rank(a)] = owner[a]
       /\ \A a \in Addresses : a > Cardinality(used) => owner'[a] = Nobody

Init == \E n \in MemSizes : owner = [a \in 1 .. n |-> Nobody]

Next == \/ \E p \in Processes, first, size \in Addresses : Request(p, first, size)
        \/ \E p \in Processes : Release(p)
        \/ Compact

Spec == Init /\ [][Next]_owner
=============================================================================

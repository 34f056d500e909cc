------------------------------ MODULE Registry ------------------------------
(***************************************************************************)
(* What the manager promises about devices, whatever sockets, slots and    *)
(* packages it uses to keep the promise: a book with at most one entry for *)
(* each device identity.  Addresses are handed out once each; a device     *)
(* enters the book under an address that was handed out and that no other  *)
(* device has, unproxied, and a new registration replaces the old one; it  *)
(* is proxied, released and deleted by its address, and by nothing else.   *)
(***************************************************************************)
EXTENDS Naturals

CONSTANTS
    DevID,
    NoEntry   \* what the book holds for a device that is not in it; not an Entry

VARIABLES
    book,   \* device identity -> its entry, or NoEntry
    next    \* the next address to hand out

Entry == [ip : Nat, proxied : {0, 1}]

Init == book = [d \in DevID |-> NoEntry] /\ next = 0

HandOut == next' = next + 1 /\ UNCHANGED book

Taken == {book[d].ip : d \in {d \in DevID : book[d] # NoEntry}}

Register(d, a) ==
    /\ a < next /\ a \notin Taken
    /\ book' = [book EXCEPT ![d] = [ip |-> a, proxied |-> 0]]
    /\ UNCHANGED next

Delete(d) ==
    /\ book[d] # NoEntry
    /\ book' = [book EXCEPT ![d] = NoEntry]
    /\ UNCHANGED next

Proxy(d, flag) ==
    /\ book[d] # NoEntry
    /\ book' = [book EXCEPT ![d].proxied = flag]
    /\ UNCHANGED next

Next ==
    \/ HandOut
    \/ \E d \in DevID :
         \/ \E a \in 0 .. next : Register(d, a)
         \/ Delete(d)
         \/ \E flag \in {0, 1} : Proxy(d, flag)

Spec == Init /\ [][Next]_<<book, next>>

\* Distinct devices have distinct addresses, all of them handed out.
BookOK ==
    /\ book \in [DevID -> Entry \cup {NoEntry}] /\ next \in Nat
    /\ \A d \in DevID : book[d] # NoEntry => book[d].ip < next
    /\ \A d, e \in DevID : book[d] # NoEntry /\ book[e] # NoEntry
                           /\ book[d].ip = book[e].ip => d = e
=============================================================================

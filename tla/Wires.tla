------------------------------- MODULE Wires -------------------------------
(***************************************************************************)
(* Queues shared by the virtual channels of a link.  A wire is a sequence  *)
(* of records with a field vc: flits, with the position id in the packet   *)
(* and the flag tail, or credits, with the flag free.  The operators speak *)
(* of the entries of one VC.                                               *)
(***************************************************************************)
EXTENDS Integers, Sequences, FiniteSets

IndicesOf(q, v) == {i \in 1 .. Len(q) : q[i].vc = v}
CountOf(q, v) == Cardinality(IndicesOf(q, v))
NoneOf(q, v) == \A i \in 1 .. Len(q) : q[i].vc # v

(* Flits                                                                   *)
HasHead(q, v) == \E i \in 1 .. Len(q) : q[i].vc = v /\ q[i].id = 0
AllBelow(q, v, k) ==
    \A i \in 1 .. Len(q) : q[i].vc = v => q[i].id < k /\ ~q[i].tail

Increasing(q) ==
    \A i, j \in 1 .. Len(q) :
        i < j /\ q[i].vc = q[j].vc => q[i].id < q[j].id /\ ~q[i].tail
AllBefore(p, q) ==
    \A i \in 1 .. Len(p), j \in 1 .. Len(q) :
        p[i].vc = q[j].vc => p[i].id < q[j].id /\ ~p[i].tail
Follow(q, f) ==
    \A i \in 1 .. Len(q) : q[i].vc = f.vc => f.id < q[i].id /\ ~f.tail

(* Credits                                                                 *)
NoFree(q, v) == \A i \in 1 .. Len(q) : q[i].vc = v => ~q[i].free
FreeLast(q) ==
    \A i, j \in 1 .. Len(q) : i < j /\ q[i].free => q[j].vc # q[i].vc

(* Streams: what the wire carries of each VC                               *)

(* The number of entries of the same VC before entry i.                    *)
PlaceOn(q, i) == Cardinality({j \in 1 .. i - 1 : q[j].vc = q[i].vc})

(* Entries of one VC only.                                                 *)
OnlyOf(q, v) == \A i \in 1 .. Len(q) : q[i].vc = v

(* Of each VC v the wire holds the items from[v] .. to[v] - 1, in order.   *)
CarriesAll(q, from, to, item) ==
    /\ \A i \in 1 .. Len(q) :
         /\ q[i].vc \in DOMAIN from
         /\ q[i] = item[q[i].vc][from[q[i].vc] + PlaceOn(q, i)]
    /\ \A v \in DOMAIN from : to[v] = from[v] + CountOf(q, v)
=============================================================================

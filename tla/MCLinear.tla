------------------------------ MODULE MCLinear ------------------------------
(* Instances of Linear, after the shard request of main.go.                *)
EXTENDS Linear

Ana(n) == [target |-> 65, stamp |-> n]
Bo(n) == [target |-> 66, stamp |-> n]
Carol(n) == [target |-> 67, stamp |-> n]

\* Ana and Bo pay Carol, and Ana is paid.
Example ==
  [votes |-> <<Ana(1), Bo(1)>>, commits |-> <<Carol(1), Ana(2)>>, aborts |-> <<Ana(3)>>]

\* One over two of the shards, in another order.
Second ==
  [votes |-> <<Bo(4), Carol(4)>>, commits |-> <<Bo(5)>>, aborts |-> <<>>]

\* One with two votes at the same shard, whose second commit is on an account
\* that begins with a small letter, and so belongs to a shard that is not there.
Stray ==
  [votes |-> <<Carol(6), Carol(7), Ana(6)>>,
   commits |-> <<Bo(6), [target |-> 97, stamp |-> 6]>>,
   aborts |-> <<Carol(8)>>]

Crossing == {Example, Second, Stray}
=============================================================================

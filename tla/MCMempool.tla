----------------------------- MODULE MCMempool -----------------------------
\* A chain t1 - t2 - t3 with two spenders t4 and t8; t7, a second child of t1,
\* is another parent of t4.  t5 conflicts with both t2 and t7; t6 conflicts with
\* t2 and spends an output of t3, so that it would replace its own ancestor.
EXTENDS Mempool, TLC

CONSTANTS t1, t2, t3, t4, t5, t6, t7, t8, c1, o1, o2, o3, o4, o5, o6

MCvin == t1 :> <<c1>> @@ t2 :> <<o1>> @@ t3 :> <<o3>> @@ t4 :> <<o4, o5>>
           @@ t5 :> <<o1, o2>> @@ t6 :> <<o4, o1>> @@ t7 :> <<o2>> @@ t8 :> <<o6>>
MCOutputs == t1 :> {o1, o2} @@ t2 :> {o3} @@ t3 :> {o4, o6} @@ t4 :> {} @@ t5 :> {}
           @@ t6 :> {} @@ t7 :> {o5} @@ t8 :> {}
MCSize == t1 :> 1 @@ t2 :> 2 @@ t3 :> 4 @@ t4 :> 8 @@ t5 :> 16 @@ t6 :> 32 @@ t7 :> 64
           @@ t8 :> 128
MCFee == t1 :> 128 @@ t2 :> 64 @@ t3 :> 32 @@ t4 :> 16 @@ t5 :> 8 @@ t6 :> 4 @@ t7 :> 2
           @@ t8 :> 1
MCDelta == [t \in Tx |-> IF t = t3 THEN {256} ELSE {}]
MCPackages == {<<t2, t3>>, <<t3, t7, t4>>}
MCPackage == {<<t3, t8>>}
=============================================================================

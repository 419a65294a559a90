------------------------------- MODULE MCHeap -------------------------------
EXTENDS Heap

HKeys == 1 .. 2
HHash == [k \in HKeys |-> 3 - k]
HKeyLen == [k \in HKeys |-> IF k = 1 THEN 40 ELSE 62]
HIds == 1 .. 9
HCalls == [Object |-> 3, Array |-> 6]
Val(t, n) == [type |-> t, size |-> n]
HStored == [Object |-> {Val("Null", 0), Val("Bool", 1), Val("Array", 0)},
            Array |-> {Val("Bool", 1), Val("Object", 0)}]
=============================================================================

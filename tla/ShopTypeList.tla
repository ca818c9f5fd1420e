------------------------------- MODULE ShopTypeList -------------------------------
(***************************************************************************)
(* The list of shop types: ShopTypeServiceImpl.getTypeList asks Redis for  *)
(* the size of the list and then for its elements, or, if it is empty,     *)
(* fills it from MySQL.  Each call is a step, and requests overlap.        *)
(***************************************************************************)
EXTENDS Naturals, FiniteSets

CONSTANTS
    Threads,
    Types           \* the number of shop types, in MySQL in their order

VARIABLES
    length,         \* entries of cache:type, whole copies of the types one after the other
    pc,
    size,           \* the size each request has read
    answer          \* the number of entries in each thread's last answer, 0 before

vars == <<length, pc, size, answer>>

Init ==
    /\ length = 0
    /\ pc = [t \in Threads |-> "size"]
    /\ size = [t \in Threads |-> 0] /\ answer = [t \in Threads |-> 0]

Goto(t, where) == pc' = [pc EXCEPT ![t] = where]

\* Slip: the types are pushed every time.
NeverThere(t) == FALSE

IsThere(t) == length # 0

Size(t) ==
    /\ pc[t] = "size"
    /\ size' = [size EXCEPT ![t] = length]
    /\ Goto(t, IF IsThere(t) THEN "range" ELSE "push")
    /\ UNCHANGED <<length, answer>>

\* Slip: the size is taken for the last index.
SizeItself(t) == size[t]

LastIndex(t) == size[t] - 1

\* LRANGE 0 last: the entries up to that index, as far as there are any.
ReadRange(t) ==
    /\ pc[t] = "range"
    /\ answer' = [answer EXCEPT ![t] = IF LastIndex(t) < length THEN LastIndex(t) + 1 ELSE length]
    /\ Goto(t, "size")
    /\ UNCHANGED <<length, size>>

\* The types as MySQL has them are pushed, all at once, and answered.
Push(t) ==
    /\ pc[t] = "push"
    /\ length' = length + Types
    /\ answer' = [answer EXCEPT ![t] = Types]
    /\ Goto(t, "size")
    /\ UNCHANGED size

\* A call fails, or the reply of the push is lost.
Fails(t) ==
    /\ \/ UNCHANGED length
       \/ pc[t] = "push" /\ length' = length + Types
    /\ Goto(t, "size")
    /\ UNCHANGED <<size, answer>>

Next == \E t \in Threads : Size(t) \/ ReadRange(t) \/ Push(t) \/ Fails(t)

Spec == Init /\ [][Next]_vars

--------------------------------------------------------------------------------
\* Ranges; at most one copy per thread, for a thread pushes only what it has found empty.
TypeOK ==
    /\ length \in 0..(Cardinality(Threads) * Types)
    /\ pc \in [Threads -> {"size", "range", "push"}]
    /\ size \in [Threads -> Nat] /\ answer \in [Threads -> Nat]

\* An answer never stops in the middle of the types, although the list may grow between
\* the two calls for its size and its entries.
WholeLists == \A t \in Threads : answer[t] % Types = 0

\* The pages render the answer with v-for and :key="t.id": each type is there once.
EachTypeOnce == \A t \in Threads : answer[t] <= Types
================================================================================

------------------------------ MODULE KeyValue ------------------------------
(***************************************************************************)
(* What the callers of a map rely on (src/src/sc_map.h): a function from   *)
(* keys to values, with put, get and del answering what was there and      *)
(* whether there was anything.                                             *)
(***************************************************************************)
CONSTANTS Key, Value, NoValue, None

VARIABLES contents, reply

vars == <<contents, reply>>

Found(k) == k \in DOMAIN contents

Current(k) == IF Found(k) THEN contents[k] ELSE NoValue

Return(op, k, v, ret, found) ==
  reply' = [op |-> op, key |-> k, value |-> v, ret |-> ret, found |-> found, oom |-> FALSE]

Init ==
  /\ contents = <<>>
  /\ reply = [op |-> "init", key |-> None, value |-> NoValue, ret |-> NoValue,
              found |-> FALSE, oom |-> FALSE]

Put(k, v) ==
  /\ contents' = [x \in DOMAIN contents \cup {k} |-> IF x = k THEN v ELSE contents[x]]
  /\ Return("put", k, v, Current(k), Found(k))

(* Out of memory; what found says then is left open.                       *)
PutFails(k, v) ==
  /\ UNCHANGED contents
  /\ \E found \in BOOLEAN :
       reply' = [op |-> "put", key |-> k, value |-> v, ret |-> NoValue,
                 found |-> found, oom |-> TRUE]

Get(k) ==
  /\ UNCHANGED contents
  /\ Return("get", k, NoValue, Current(k), Found(k))

Del(k) ==
  /\ contents' = [x \in DOMAIN contents \ {k} |-> contents[x]]
  /\ Return("del", k, NoValue, Current(k), Found(k))

(* clear and term.                                                         *)
Forget(op) ==
  /\ contents' = <<>>
  /\ \E found \in BOOLEAN : Return(op, None, NoValue, NoValue, found)

Next ==
  \/ \E k \in Key, v \in Value : Put(k, v) \/ PutFails(k, v)
  \/ \E k \in Key : Get(k) \/ Del(k)
  \/ Forget("clear")
  \/ Forget("term")

Spec == Init /\ [][Next]_vars

=============================================================================

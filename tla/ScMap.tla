------------------------------- MODULE ScMap -------------------------------
(***************************************************************************)
(* The hash map of src/src/sc_map.c: open addressing with linear probing,  *)
(* deletion by moving later entries back into the hole, key 0 kept apart   *)
(* in mem[-1], the table doubled when it is three quarters full.           *)
(* Directory entries, open files and pids all live in such maps.  The      *)
(* strings of a directory's map are numbers here, with Hash in the place   *)
(* of murmurhash.  The value left behind in a slot that is emptied is      *)
(* dropped: nobody reads the value of an empty slot.                       *)
(***************************************************************************)
EXTENDS Integers, FiniteSets

CONSTANTS
  Key,       \* 0 is the key that marks an empty slot
  Value,
  ValuesOf,  \* bound: the values a key is put with
  NoValue,   \* what get, put and del return for "nothing": 0 or NULL
  Hash,      \* hash_fn; the identity for the maps of pids and of fds
  MaxCap     \* bound: calloc fails beyond it, and may fail before

ASSUME MapAssumption ==
  /\ Key \subseteq Nat /\ IsFiniteSet(Key)
  /\ NoValue \notin Value
  /\ Hash \in [Key -> Nat]
  /\ ValuesOf \in [Key -> SUBSET Value]
  /\ MaxCap \in Nat

VARIABLES
  map,    \* struct sc_map, without oom
  reply   \* the last call, what it returned and what found and oom say then

vars == <<map, reply>>

Slots(cap) == 0..(cap - 1)

(* sc_map_empty: one slot, shared by all empty maps and never written to.  *)
Empty(load_fac) ==
  [cap |-> 1, key |-> [i \in Slots(1) |-> 0], value |-> [i \in Slots(1) |-> NoValue],
   zero |-> NoValue, used |-> FALSE, size |-> 0, remap |-> 0,
   load_fac |-> load_fac, found |-> FALSE]

Return(op, k, v, ret, m, oom) ==
  reply' = [op |-> op, key |-> k, value |-> v, ret |-> ret, found |-> m.found, oom |-> oom]

-----------------------------------------------------------------------------
(* The slot the probing loops stop at: the first from the key's home that  *)
(* is empty or holds it.  A table with neither would keep them going.      *)
At(h, d, cap) == (h + d) % cap

Stops(key, cap, k) == {d \in Slots(cap) : key[At(Hash[k], d, cap)] \in {0, k}}

Find(key, cap, k) ==
  At(Hash[k], CHOOSE d \in Stops(key, cap, k) : \A e \in Stops(key, cap, k) : d <= e, cap)

NewCap(cap) == IF cap < 8 THEN 8 ELSE 2 * cap

(* A table of cap slots with the entries of m, each in the first slot free *)
(* from its home among the first mod.                                      *)
Rehashed(m, cap, mod) ==
  LET move[i \in 0..m.cap] ==
        IF i = 0
        THEN [key |-> [s \in Slots(cap) |-> 0], value |-> [s \in Slots(cap) |-> NoValue]]
        ELSE LET t == move[i - 1]
                 k == m.key[i - 1]
                 s == Find(t.key, mod, k)
             IN  IF k = 0 THEN t
                 ELSE [key |-> [t.key EXCEPT ![s] = k],
                       value |-> [t.value EXCEPT ![s] = m.value[i - 1]]]
  IN  move[m.cap]

(* Mutant of Moved: the slots are computed for the old size (line 190).     *)
MovedOldMod(m, cap) == Rehashed(m, cap, m.cap)

Moved(m, cap) == Rehashed(m, cap, cap)

(* Mutant of NeedsRemap: the table may fill up (line 176).                  *)
NeedsRemapWhenFull(m) == m.size >= m.cap

NeedsRemap(m) == m.size >= m.remap

sc_map_remap(m) ==
  IF ~NeedsRemap(m) THEN m
  ELSE LET cap == NewCap(m.cap)
           t == Moved(m, cap)
       IN  [m EXCEPT !.cap = cap, !.key = t.key, !.value = t.value,
                     !.remap = (cap * m.load_fac) \div 100]

Has(m, k) == IF k = 0 THEN m.used ELSE m.key[Find(m.key, m.cap, k)] = k

(* Mutant of Grown: a key that was there counts again (lines 242-247).      *)
GrownAlways(m, k) == m.size + 1

Grown(m, k) == IF Has(m, k) THEN m.size ELSE m.size + 1

(* put, once there is room.                                                *)
Store(m, k, v) ==
  LET n == [m EXCEPT !.found = Has(m, k), !.size = Grown(m, k)]
      s == Find(m.key, m.cap, k)
  IN  IF k = 0 THEN [n EXCEPT !.used = TRUE, !.zero = v]
      ELSE [n EXCEPT !.key[s] = k, !.value[s] = v]

Stored(m, k) ==
  IF k = 0 THEN IF m.used THEN m.zero ELSE NoValue
  ELSE LET s == Find(m.key, m.cap, k)
       IN  IF m.key[s] = k THEN m.value[s] ELSE NoValue

(* Mutant of MovesTo: rows that wrap around are forgotten (line 328).       *)
MovesToNoWrap(p, it, prev) == p <= prev /\ it >= prev

(* May the entry at slot it, whose home is p, move to the hole at prev?     *)
MovesTo(p, it, prev) ==
  (p > it /\ (p <= prev \/ it >= prev)) \/ (p <= prev /\ it >= prev)

(* The table after i slots behind the hole at pos have been looked at; the *)
(* loop ends at an empty slot.                                             *)
Closed(m, pos) ==
  LET shift[i \in 0..m.cap] ==
        IF i = 0
        THEN [key |-> [m.key EXCEPT ![pos] = 0], value |-> [m.value EXCEPT ![pos] = NoValue],
              prev |-> pos, done |-> FALSE]
        ELSE LET t == shift[i - 1]
                 it == At(pos, i, m.cap)
             IN  IF t.done \/ t.key[it] = 0 THEN [t EXCEPT !.done = TRUE]
                 ELSE IF MovesTo(Hash[t.key[it]] % m.cap, it, t.prev)
                 THEN [t EXCEPT !.key = [@ EXCEPT ![t.prev] = t.key[it], ![it] = 0],
                                !.value = [@ EXCEPT ![t.prev] = t.value[it], ![it] = NoValue],
                                !.prev = it]
                 ELSE t
  IN  shift[m.cap]

(* del, of a key that is there.                                            *)
Taken(m, k) ==
  LET n == [m EXCEPT !.found = TRUE, !.size = @ - 1]
      t == Closed(m, Find(m.key, m.cap, k))
  IN  IF k = 0 THEN [n EXCEPT !.used = FALSE, !.zero = NoValue]
      ELSE [n EXCEPT !.key = t.key, !.value = t.value]

(* Mutant of Remove: a miss counts as well (line 315 before the test).      *)
RemoveCountsMisses(m, k) ==
  IF Has(m, k) THEN Taken(m, k) ELSE [m EXCEPT !.found = FALSE, !.size = @ - 1]

Remove(m, k) == IF Has(m, k) THEN Taken(m, k) ELSE [m EXCEPT !.found = FALSE]

-----------------------------------------------------------------------------
Init ==
  /\ map = Empty(75)
  /\ reply = [op |-> "init", key |-> 0, value |-> NoValue, ret |-> NoValue,
              found |-> FALSE, oom |-> FALSE]

(* When the table cannot grow, put gives up before it looks at the key.    *)
sc_map_put(k, v) ==
  \/ /\ NeedsRemap(map) => NewCap(map.cap) <= MaxCap
     /\ LET m == sc_map_remap(map)
        IN  /\ map' = Store(m, k, v)
            /\ Return("put", k, v, Stored(m, k), map', FALSE)
  \/ /\ NeedsRemap(map)
     /\ UNCHANGED map
     /\ Return("put", k, v, NoValue, map, TRUE)

sc_map_get(k) ==
  /\ map' = [map EXCEPT !.found = Has(map, k)]
  /\ Return("get", k, NoValue, Stored(map, k), map', FALSE)

sc_map_del(k) ==
  /\ map' = Remove(map, k)
  /\ Return("del", k, NoValue, Stored(map, k), map', FALSE)

sc_map_clear ==
  /\ map' = IF map.size > 0
            THEN [map EXCEPT !.key = [i \in Slots(map.cap) |-> 0], !.used = FALSE, !.size = 0,
                            !.value = [i \in Slots(map.cap) |-> NoValue], !.zero = NoValue]
            ELSE map
  /\ Return("clear", 0, NoValue, NoValue, map', FALSE)

(* term forgets the load factor with the rest: used again without init, a  *)
(* map doubles at every put.                                               *)
sc_map_term ==
  /\ map' = IF map.cap > 1 THEN Empty(0) ELSE map
  /\ Return("term", 0, NoValue, NoValue, map', FALSE)

Next ==
  \/ \E k \in Key : \E v \in ValuesOf[k] : sc_map_put(k, v)
  \/ \E k \in Key : sc_map_get(k) \/ sc_map_del(k)
  \/ sc_map_clear
  \/ sc_map_term

Spec == Init /\ [][Next]_vars

-----------------------------------------------------------------------------
Occupied(m) == {i \in Slots(m.cap) : m.key[i] # 0}

TypeOK ==
  /\ map.cap \in Nat \ {0}
  /\ map.key \in [Slots(map.cap) -> Key \cup {0}]
  /\ map.value \in [Slots(map.cap) -> Value \cup {NoValue}]
  /\ map.zero \in Value \cup {NoValue}
  /\ map.used \in BOOLEAN /\ map.found \in BOOLEAN
  /\ map.size \in Nat /\ map.remap \in Nat /\ map.load_fac \in 0..95

(* No key is in the table twice, and from every key's home to where it is  *)
(* there is no empty slot: growing and closing the holes of deleted keys   *)
(* never put an entry where the probing loops do not come.                 *)
Reachable ==
  \A i \in Occupied(map) :
    LET k == map.key[i]
        home == Hash[k] % map.cap
        dist == (i - home) % map.cap
    IN  /\ \A d \in 0..dist : map.key[(home + d) % map.cap] # 0
        /\ \A j \in Occupied(map) : map.key[j] = k => i = j

(* size counts the entries, the one of key 0 included.                     *)
SizeCounts ==
  map.size = Cardinality(Occupied(map)) + (IF map.used THEN 1 ELSE 0)

(* There is always an empty slot, so that every loop over the slots ends.  *)
LoopsEnd == \E i \in Slots(map.cap) : map.key[i] = 0

=============================================================================

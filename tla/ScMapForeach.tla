---------------------------- MODULE ScMapForeach ----------------------------
(***************************************************************************)
(* The foreach macros of sc_map.h: a loop over mem[-1] and the slots in    *)
(* order, that reads each slot when its turn comes.  readdir, unmount and  *)
(* free_fs_fh only look; the cleaner of fs_fh.c deletes what it stands on, *)
(* which moves other entries about under the loop.  Here it has the map to *)
(* itself.                                                                 *)
(***************************************************************************)
EXTENDS ScMap, Sequences

(* Mutant of Clean: the object is freed but left in the table (line 50).   *)
CleanKeeps(m, k, dead) == m

(* The cleaner's body, with the processes in "dead" gone.                  *)
Clean(m, k, dead) == IF k \in dead THEN Remove(m, k) ELSE m

(* Mutant of FirstSlot: the loop begins with mem[0].                       *)
FirstSlotIsZero == 0

FirstSlot == -1

Holds(m, i) == IF i = -1 THEN m.used ELSE m.key[i] # 0

(* The map after a round and the keys in the order they were visited.      *)
Round(m, dead) ==
  LET turn[i \in (FirstSlot - 1)..(m.cap - 1)] ==
        IF i < FirstSlot THEN [map |-> m, visited |-> <<>>]
        ELSE LET t == turn[i - 1]
                 k == IF i = -1 THEN 0 ELSE t.map.key[i]
             IN  IF Holds(t.map, i)
                 THEN [map |-> Clean(t.map, k, dead), visited |-> Append(t.visited, k)]
                 ELSE t
  IN  turn[m.cap - 1]

Keys(m) == {k \in Key : Has(m, k)}
Visits(r, k) == Cardinality({i \in DOMAIN r.visited : r.visited[i] = k})

(* A loop that changes nothing visits every entry once: readdir lists each *)
(* name once, unmount frees each item and each process's object once       *)
(* (fs.c:95-102, fs_fh.c:142-149).                                         *)
VisitsEveryEntry ==
  \A k \in Key : Visits(Round(map, {}), k) = IF Has(map, k) THEN 1 ELSE 0

(* Whatever the cleaner's deletions move, it keeps the entries of living   *)
(* processes, never meets one that is dead a second time, to free its      *)
(* object again, and a round that has some to drop drops one, so that as   *)
(* many rounds drop them all.  (One behind the hole may be skipped, one    *)
(* that lives be visited twice.)                                           *)
RoundsClean ==
  \A dead \in SUBSET Keys(map) :
    LET r == Round(map, dead)
    IN  /\ \A k \in Keys(map) \ dead : Stored(r.map, k) = Stored(map, k)
        /\ \A k \in dead : Visits(r, k) = IF Has(r.map, k) THEN 0 ELSE 1
        /\ dead # {} => Keys(r.map) # Keys(map)

=============================================================================

----------------------------- MODULE PathString -----------------------------
(***************************************************************************)
(* The bytes under FsTree's paths.  libfuse hands a handler one string,    *)
(* "/name/name"; parse_path_string copies it into path_copy, cuts the copy *)
(* into C strings at the slashes and notes in idx_buff where each begins.  *)
(* Neither array is measured.                                              *)
(***************************************************************************)
EXTENDS FsTree

CONSTANTS
  Char,           \* the characters of a name
  Spelling,       \* those of each name
  PATH_LEN_MAX,   \* path_copy has one byte more
  FILE_NAME_MAX,
  MAX_FILES       \* the places of idx_buff

NUL == "NUL"

ASSUME SpellingAssumption ==
  /\ "/" \notin Char /\ NUL \notin Char /\ FILE_NAME_MAX \in Nat
  /\ Spelling \in [Name -> Seq(Char)]
  /\ \A n \in Name :
       /\ Spelling[n] # <<>>
       /\ n \in LongName <=> Len(Spelling[n]) > FILE_NAME_MAX
       /\ \A o \in Name : Spelling[n] = Spelling[o] => n = o

(* What malloc has to give is finite: the way up from an item ends.        *)
ASSUME HeapAssumption == IsFiniteSet(Item)

(* What libfuse passes for a path.                                         *)
Text(p) ==
  LET upto[i \in 0..Len(p)] ==
        IF i = 0 THEN <<>> ELSE upto[i - 1] \o <<"/">> \o Spelling[p[i]]
  IN  IF p = <<>> THEN <<"/">> ELSE upto[Len(p)]

(* Mutant of Start: the index of the slash itself is kept (line 161).      *)
StartAtSlash(k) == k

(* The start of the next path is the character after the slash.            *)
Start(k) == k + 1

(* The first slash stays, the others become the ends of strings; the mount *)
(* point, "/", has no files.  Indexes begin with 1 here.                   *)
split_file_path(path) ==
  LET slashes == {k \in DOMAIN path : path[k] = "/"}
      nth(i) == CHOOSE k \in slashes : Cardinality({j \in slashes : j <= k}) = i
  IN  [path_copy |-> [k \in DOMAIN path |-> IF k \in slashes \ {1} THEN NUL ELSE path[k]],
       idx_buff |-> IF path = <<"/">> THEN <<>>
                    ELSE [i \in 1..Cardinality(slashes) |-> Start(nth(i))]]

(* The C string that begins at place k.                                    *)
CString(s, k) ==
  LET end == CHOOSE e \in (k - 1)..Len(s) :
               /\ NUL \notin {s[j] : j \in k..e}
               /\ e < Len(s) => s[e + 1] = NUL
  IN  SubSeq(s, k, end)

ps_file(ps, i) == CString(ps.path_copy, ps.idx_buff[i])

(* The strings the handlers work with: strlen of the last is measured.     *)
Files(p) ==
  LET ps == split_file_path(Text(p))
  IN  [i \in DOMAIN ps.idx_buff |-> ps_file(ps, i)]

(* Both arrays hold what is written to them.                               *)
Fits(p) == Len(Text(p)) <= PATH_LEN_MAX /\ Len(p) <= MAX_FILES

(* In every directory there is, wherever renames have moved it, and for    *)
(* every name in it or not: the string libfuse has for that place is cut   *)
(* into the names on the way, the last of which is refused exactly if it   *)
(* is too long, and they lead to what the directory's map holds.  So it is *)
(* while the string fits the arrays.  Past them the handler writes over    *)
(* its stack, which a client gets to that works relative to a directory.   *)
PathsSplit ==
  \A d \in Item, n \in Name :
    LET p == Append(PathTo(d), n)
    IN  Live(d) /\ Fits(p) =>
          /\ Files(p) = [i \in DOMAIN p |-> Spelling[p[i]]]
          /\ parse_path_string(p) = "OK" <=> Len(Files(p)[Len(p)]) <= FILE_NAME_MAX
          /\ fs_get_item(p, 0).item = items[d][n]

=============================================================================

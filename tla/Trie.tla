--------------------------------- MODULE Trie ---------------------------------
(***************************************************************************)
(* class Trie (include/containers/trie.h): a tree with one edge per        *)
(* character.  A tree t is a function from paths to nodes; a path is the   *)
(* sequence of child indices that leads to a node, the root's is <<>>.     *)
(***************************************************************************)
EXTENDS Strings

CONSTANTS
  ctoi,   \* character -> index of a child; every character that is neither a
          \* letter nor a digit has the same one
  Nil     \* a null value pointer

EmptyNode == [value |-> Nil, size |-> 0]
EmptyTrie == [p \in {<<>>} |-> EmptyNode]

Path(s) == [i \in 1..Len(s) |-> ctoi[s[i]]]

\* query(), count().
Query(t, s) == IF Path(s) \in DOMAIN t THEN t[Path(s)].value ELSE Nil
Count(t, s) == Query(t, s) # Nil

NodeAt(t, p) == IF p \in DOMAIN t THEN t[p] ELSE EmptyNode

\* insert(), and operator [] with the assignment that follows it: the path is
\* made, and counted unless there was a value at its end.
Stored(t, s, v) ==
  LET p     == Path(s)
      grown == IF Count(t, s) THEN {} ELSE Prefixes(p)
  IN  [q \in DOMAIN t \cup Prefixes(p) |->
         [value |-> IF q = p THEN v ELSE NodeAt(t, q).value,
          size  |-> NodeAt(t, q).size + (IF q \in grown THEN 1 ELSE 0)]]

\* The tree without the value at p, every node on the way counted down.
Counted(t, p) ==
  [q \in DOMAIN t |->
     [value |-> IF q = p THEN Nil ELSE t[q].value,
      size  |-> t[q].size - (IF q \in Prefixes(p) THEN 1 ELSE 0)]]

\* Where erase() cuts: below the deepest node on the way that still counts
\* something, or below the root.
Cut(t, p) ==
  LET alive == {i \in 0..(Len(p) - 1) : t[SubSeq(p, 1, i)].size # 0}
  IN  IF alive = {} THEN 1 ELSE 1 + CHOOSE i \in alive : \A j \in alive : j <= i

\* Mutant: the branch goes although longer keys hang from it.
PrunedBranch(t, s) ==
  LET p == Path(s)
      c == Counted(t, p)
  IN  IF p \notin DOMAIN t THEN t
      ELSE [q \in {q \in DOMAIN c : ~IsPrefix(SubSeq(p, 1, Cut(c, p)), q)} |-> c[q]]

\* erase(), which counts a value down whether there was one or not.
Pruned(t, s) ==
  LET p == Path(s)
      c == Counted(t, p)
  IN  IF p \notin DOMAIN t THEN t
      ELSE IF c[p].size # 0 THEN c
      ELSE [q \in {q \in DOMAIN c : ~IsPrefix(SubSeq(p, 1, Cut(c, p)), q)} |-> c[q]]

\* size().
Size(t) == t[<<>>].size

Valued(t) == {p \in DOMAIN t : t[p].value # Nil}

\* getKV(): a node before its children, the children by index.  A key comes
\* back as its path: itoc() has one '_' for all characters of the last index.
Entries(t) ==
  [i \in 1..Cardinality(Valued(t)) |->
     LET p == CHOOSE q \in Valued(t) : Cardinality({r \in Valued(t) : Less(r, q)}) = i - 1
     IN  [key |-> p, value |-> t[p].value]]

=============================================================================

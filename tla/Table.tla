-------------------------------- MODULE Table --------------------------------
(***************************************************************************)
(* The layout of an SST file (src/sst): sorted entries are cut into blocks *)
(* and blocks into groups; within a group a key is stored as the length of *)
(* the prefix it shares with the key before and the rest.  An index block  *)
(* has one key per data block.  Both are searched by bisection.  Byte      *)
(* offsets are group and block numbers here.                               *)
(***************************************************************************)
EXTENDS Strings

CONSTANTS
  BlockSize,   \* one_block_size_, entries in a data block
  GroupSize,   \* max_group_size_ of a data block, 16 in the code
  LetterZ,     \* the character 'z'
  NotFound     \* "", what getValue() returns for a key that is not there

Chunks(s, n) ==
  [i \in 1..((Len(s) + n - 1) \div n) |->
     SubSeq(s, (i - 1) * n + 1, IF i * n < Len(s) THEN i * n ELSE Len(s))]

SharedBytes(s, t) ==
  CHOOSE n \in 0..Len(s) : /\ IsPrefix(SubSeq(s, 1, n), t)
                           /\ n < Len(s) => ~IsPrefix(SubSeq(s, 1, n + 1), t)

\* Entry::encode() of every entry of a group, the first with no last_key.
EncodedGroup(group) ==
  [i \in DOMAIN group |->
     LET last_key == IF i = 1 THEN <<>> ELSE group[i - 1].key
         shared   == SharedBytes(last_key, group[i].key)
     IN  [shared |-> shared, delta |-> SubSeq(group[i].key, shared + 1, Len(group[i].key)),
          value |-> group[i].value]]

\* BlockBuilder::finish(): sorted, grouped, encoded.
Block(entries, group_size) ==
  LET groups == Chunks(SortedByKey(entries), group_size)
  IN  [g \in DOMAIN groups |-> EncodedGroup(groups[g])]

\* Entry::decode() along a group, as decodeEntry() and decodeEntries() do.
DecodedGroup(group) ==
  LET key[i \in 0..Len(group)] ==
        IF i = 0 THEN <<>> ELSE SubSeq(key[i - 1], 1, group[i].shared) \o group[i].delta
  IN  [i \in DOMAIN group |-> [key |-> key[i], value |-> group[i].value]]

FirstKey(block, g) == DecodedGroup(block[g])[1].key

\* Two keys that differ at j: the shortest that key1 and one character make.
Raised(key1, key2, j) ==
  IF key1[j] + 1 = key2[j] /\ j = Len(key2)
    THEN SubSeq(key1, 1, j) \o (IF j = Len(key1) THEN <<0>> ELSE <<key1[j + 1] + 1>>)
    ELSE SubSeq(key1, 1, j - 1) \o <<key1[j] + 1>>

\* Mutant: nothing keeps the index key above a key that the next one extends.
SeparatorPlain(key1, key2) ==
  LET j == SharedBytes(key1, key2) + 1
  IN  IF j > Len(key1) THEN key1 ELSE Raised(key1, key2, j)

\* The index key between the last key of a block and the first of the next.
Separator(key1, key2) ==
  LET j == SharedBytes(key1, key2) + 1
  IN  IF j > Len(key1) THEN key1 \o <<0>> ELSE Raised(key1, key2, j)

AllZ(key) == \A i \in DOMAIN key : key[i] = LetterZ

\* The index key of the last block: up to the first character that is not 'z',
\* that one raised.
LastSeparator(key) ==
  IF AllZ(key) THEN key
  ELSE LET j == CHOOSE j \in DOMAIN key : key[j] # LetterZ /\ AllZ(SubSeq(key, 1, j - 1))
       IN  SubSeq(key, 1, j - 1) \o <<key[j] + 1>>

\* TableBuilder::finish() of the entries of a map.
TableOf(map) ==
  LET keys    == SortedKeys(DOMAIN map)
      entries == [i \in DOMAIN keys |-> [key |-> keys[i], value |-> map[keys[i]]]]
      data    == Chunks(entries, BlockSize)
      n       == Len(data)
      index   == [b \in 1..n |->
                    [key   |-> IF b < n THEN Separator(Last(data[b]).key, data[b + 1][1].key)
                               ELSE LastSeparator(Last(data[b]).key),
                     value |-> b]]
  IN  [blocks |-> [b \in 1..n |-> Block(data[b], GroupSize)], index |-> Block(index, 1)]

\* getBlock(): the index says which block it is.
BlockOfIndex(table, block_id) == table.blocks[DecodedGroup(table.index[block_id])[1].value]

\* Table::getValue(): the first block whose index key is above the key; the
\* first of all when there is none.
BlockFor(table, key) ==
  LET n == Len(table.index)
      search[l \in 1..(n + 1), r \in 0..n, block_id \in 1..n] ==
        LET mid == (l + r) \div 2
        IN  IF l > r THEN block_id
            ELSE IF Less(key, FirstKey(table.index, mid)) THEN search[l, mid - 1, mid]
            ELSE search[mid + 1, r, block_id]
  IN  BlockOfIndex(table, search[1, n, 1])

\* Block::getValue(): the last group whose first key is not above the key.
GroupFor(block, key) ==
  LET n == Len(block)
      search[l \in 1..(n + 1), r \in 0..n, group_id \in 1..n] ==
        LET mid == (l + r) \div 2
        IN  IF l > r THEN group_id
            ELSE IF LessEq(FirstKey(block, mid), key) THEN search[mid + 1, r, mid]
            ELSE search[l, mid - 1, group_id]
  IN  DecodedGroup(block[IF LessEq(FirstKey(block, n), key) THEN n ELSE search[1, n, 1]])

\* getValue(), the group read up to the first key that is not below.
GetValue(table, key) ==
  LET group == GroupFor(BlockFor(table, key), key)
      hits  == {i \in DOMAIN group : /\ group[i].key = key
                                     /\ \A j \in 1..(i - 1) : ~Less(key, group[j].key)}
  IN  IF hits = {} THEN NotFound ELSE group[CHOOSE i \in hits : TRUE].value

\* getBlock() and decodeEntries() of one block after another, as compact() reads.
AllEntries(table) ==
  LET Entries(block) == FlattenSeq([g \in DOMAIN block |-> DecodedGroup(block[g])])
  IN  FlattenSeq([b \in DOMAIN table.index |-> Entries(BlockOfIndex(table, b))])

=============================================================================

------------------------------- MODULE SstFile -------------------------------
(***************************************************************************)
(* The bytes of an SST file (src/sst) and their reader: a table of Table,  *)
(* with the positions in the file that Table gives as numbers of blocks    *)
(* and groups.                                                             *)
(***************************************************************************)
EXTENDS Table, Coding

CONSTANTS
  Crc,      \* the bytes of a block's checksum; nothing reads them
  Magic     \* the bytes that close a file; nothing reads them

\* uint64_t, in the footer.
Wide == INSTANCE Coding WITH FixedLen <- 2 * FixedLen

\* Parts that are flushed one after another, and the place of each.
Flushed(parts) ==
  LET upto[i \in 0..Len(parts)] ==
        IF i = 0 THEN [content |-> <<>>, places |-> <<>>]
        ELSE LET before == upto[i - 1]
                 part   == parts[i]
             IN  [content |-> before.content \o part,
                  places  |-> Append(before.places, [offset |-> Len(before.content),
                                                     size   |-> Len(part)])]
  IN  upto[Len(parts)]

-----------------------------------------------------------------------------
(* BlockBuilder, TableBuilder, FooterBuilder *)

\* Mutant: the lengths of the value and of the key in the other order.
EntryBytesSwapped(entry) ==
  SetVarint(entry.shared) \o SetVarint(Len(entry.value)) \o SetVarint(Len(entry.delta))
  \o entry.delta \o entry.value

\* Entry::encode().
EntryBytes(entry) ==
  SetVarint(entry.shared) \o SetVarint(Len(entry.delta)) \o SetVarint(Len(entry.value))
  \o entry.delta \o entry.value

\* BlockBuilder::finish(): the groups, restarts_, their number, the type, the
\* checksum.
BlockBytes(block) ==
  LET Bytes(group) == FlattenSeq([i \in DOMAIN group |-> EntryBytes(group[i])])
      groups       == Flushed([g \in DOMAIN block |-> Bytes(block[g])])
      restarts     == [g \in DOMAIN block |-> SetFixed(groups.places[g].offset)]
  IN  groups.content \o FlattenSeq(restarts) \o SetFixed(Len(block)) \o <<1>> \o Crc

\* TableBuilder::finish(): the blocks, the index of their offsets and sizes, the
\* footer.
FileBytes(table) ==
  LET data      == Flushed([b \in DOMAIN table.blocks |-> BlockBytes(table.blocks[b])])
      handle(b) == SetFixed(data.places[b].offset) \o SetFixed(data.places[b].size)
      index     == BlockBytes([b \in DOMAIN table.index |->
                                 <<[table.index[b][1] EXCEPT !.value = handle(@)]>>])
  IN  data.content \o index
      \o Wide!SetFixed(Len(data.content)) \o Wide!SetFixed(Len(index)) \o Magic

-----------------------------------------------------------------------------
(* Block, Footer, Table *)

\* preParse(): restart_number, restart_offset.
RestartNumber(s) == GetFixed(s, Len(s) - 2 * FixedLen)
RestartOffset(s) == Len(s) - (2 * FixedLen + 1) - FixedLen * RestartNumber(s)

GroupOffset(s, g) == GetFixed(s, RestartOffset(s) + FixedLen * (g - 1) + 1)

\* next_group_offset.
GroupEnd(s, g) == IF g = RestartNumber(s) THEN RestartOffset(s) ELSE GroupOffset(s, g + 1)

\* Entry::decode() of the entry at a position, but for the prefix it shares, and
\* where the next one is.
Decoded(s, at) ==
  LET shared   == VarintEnd(s, at)
      unshared == VarintEnd(s, shared)
      delta    == VarintEnd(s, unshared)
      value    == delta + GetVarint(s, shared)
      next     == value + GetVarint(s, unshared)
  IN  IF 0 \in {shared, unshared, delta} \/ next - 1 > Len(s) THEN Aborted
      ELSE [shared |-> GetVarint(s, at), delta |-> SubSeq(s, delta, value - 1),
            value |-> SubSeq(s, value, next - 1), next |-> next]

\* The loop of decodeEntries().
GroupOf(s, max_group_size) ==
  LET from[at \in 1..(Len(s) + 1), i \in 0..max_group_size] ==
        IF i = max_group_size \/ at > Len(s) THEN <<>>
        ELSE LET entry == Decoded(s, at)
             IN  IF entry = Aborted THEN <<Aborted>>
                 ELSE <<[shared |-> entry.shared, delta |-> entry.delta, value |-> entry.value]>>
                      \o from[entry.next, i + 1]
  IN  from[1, 0]

BlockOf(s, max_group_size) ==
  [g \in 1..RestartNumber(s) |->
     GroupOf(SubSeq(s, GroupOffset(s, g) + 1, GroupEnd(s, g)), max_group_size)]

\* The part of a file that an offset and a size, in two words, say.
Part(file, offset, size) == SubSeq(file, offset + 1, offset + size)

\* Table's constructor.
IndexOf(file) ==
  LET footer == SubSeq(file, Len(file) - 6 * FixedLen + 1, Len(file))
  IN  BlockOf(Part(file, Wide!GetFixed(footer, 1), Wide!GetFixed(footer, 2 * FixedLen + 1)), 1)

\* getBlock(), parsed.
GetBlock(file, index, block_id) ==
  LET info == DecodedGroup(index[block_id])[1].value
  IN  BlockOf(Part(file, GetFixed(info, 1), GetFixed(info, FixedLen + 1)), GroupSize)

=============================================================================

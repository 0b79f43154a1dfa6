---------------------------- MODULE MCPinnedRequest ----------------------------
(* Heads that end in text or in the digit of a last chunk; bodies of up to   *)
(* two chunks, of data that looks like the framing itself, with sizes in the *)
(* forms the decoder reads; and endings: the last chunk, one with a trailer, *)
(* none, a line that is no size or more than a usize holds; a chunk that     *)
(* goes on for less than its size, one whose end is no usize, and one longer *)
(* than its size says, with the next line in the wrong place.                *)
EXTENDS PinnedRequest
Symbols == {"r", "n", "x", ";", " ", "+"} \cup Range(Digits)
HeadEnds == {<<"a">>, <<"0">>}
Chunk(size, data) == [size |-> size, data |-> data]
Sixteen == [i \in 1..16 |-> "x"]
ChunkLists ==
  {<<>>,
   <<Chunk(<<"0", "1", ";", "x">>, <<"a">>)>>,
   <<Chunk(<<"2">>, <<"a", "b">>), Chunk(<<"+", "1", " ">>, <<"c">>)>>,
   <<Chunk(<<"3">>, <<"0", "r", "n">>), Chunk(<<" ", "1">>, <<"b">>)>>,
   <<Chunk(<<"4">>, <<"r", "n", "r", "n">>), Chunk(<<"1">>, <<"1">>)>>,
   <<Chunk(<<"1", "0">>, Sixteen)>>}
Ends ==
  {LastChunk, <<"0", "r", "n", "x", "r", "n", "r", "n">>, <<>>,
   <<"x", "r", "n">>, <<"1", "0", "0", "r", "n", "x">>,
   <<"f", "0", "r", "n", "x">>, <<"f", "f", "r", "n", "x">>,
   <<"1", "r", "n", "x", "x", "x", "2", "r", "n">> \o LastChunk}
================================================================================

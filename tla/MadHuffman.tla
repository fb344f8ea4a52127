----------------------------- MODULE MadHuffman -----------------------------
(***************************************************************************)
(* mp3/mad/huffman.c: the Huffman code tables of Layer III, and the lookup *)
(* in them of III_huffdecode in layer3.c.                                  *)
(*                                                                         *)
(* A table is an array of entries that is read with a clump of bits: the   *)
(* first startbits bits of a code word give an entry of the beginning of   *)
(* the table.  An entry <<offset, bits>> sends the reader to another part  *)
(* of the table, with the next clump of bits.  An entry <<x, y, hlen>> (or *)
(* <<v, w, x, y, hlen>> in the tables of quadruples) ends the word: the    *)
(* values, and how many bits of the last clump belonged to it.             *)
(***************************************************************************)
EXTENDS Integers, Sequences, FiniteSets

hufftabA == <<
    <<16,2>>, <<20,2>>, <<24,1>>, <<26,1>>, <<0,0,1,0,4>>, <<0,0,0,1,4>>, <<0,1,0,0,4>>,
    <<1,0,0,0,4>>, <<0,0,0,0,1>>, <<0,0,0,0,1>>, <<0,0,0,0,1>>, <<0,0,0,0,1>>, <<0,0,0,0,1>>,
    <<0,0,0,0,1>>, <<0,0,0,0,1>>, <<0,0,0,0,1>>, <<1,0,1,1,2>>, <<1,1,1,1,2>>, <<1,1,0,1,2>>,
    <<1,1,1,0,2>>, <<0,1,1,1,2>>, <<0,1,0,1,2>>, <<1,0,0,1,1>>, <<1,0,0,1,1>>, <<0,1,1,0,1>>,
    <<0,0,1,1,1>>, <<1,0,1,0,1>>, <<1,1,0,0,1>>>>

hufftabB == <<
    <<1,1,1,1,4>>, <<1,1,1,0,4>>, <<1,1,0,1,4>>, <<1,1,0,0,4>>, <<1,0,1,1,4>>, <<1,0,1,0,4>>,
    <<1,0,0,1,4>>, <<1,0,0,0,4>>, <<0,1,1,1,4>>, <<0,1,1,0,4>>, <<0,1,0,1,4>>, <<0,1,0,0,4>>,
    <<0,0,1,1,4>>, <<0,0,1,0,4>>, <<0,0,0,1,4>>, <<0,0,0,0,4>>>>

hufftab0 == <<
    <<0,0,0>>>>

hufftab1 == <<
    <<1,1,3>>, <<0,1,3>>, <<1,0,2>>, <<1,0,2>>, <<0,0,1>>, <<0,0,1>>, <<0,0,1>>, <<0,0,1>>>>

hufftab2 == <<
    <<8,3>>, <<1,1,3>>, <<0,1,3>>, <<1,0,3>>, <<0,0,1>>, <<0,0,1>>, <<0,0,1>>, <<0,0,1>>,
    <<2,2,3>>, <<0,2,3>>, <<1,2,2>>, <<1,2,2>>, <<2,1,2>>, <<2,1,2>>, <<2,0,2>>, <<2,0,2>>>>

hufftab3 == <<
    <<8,3>>, <<1,0,3>>, <<1,1,2>>, <<1,1,2>>, <<0,1,2>>, <<0,1,2>>, <<0,0,2>>, <<0,0,2>>,
    <<2,2,3>>, <<0,2,3>>, <<1,2,2>>, <<1,2,2>>, <<2,1,2>>, <<2,1,2>>, <<2,0,2>>, <<2,0,2>>>>

hufftab5 == <<
    <<8,4>>, <<1,1,3>>, <<0,1,3>>, <<1,0,3>>, <<0,0,1>>, <<0,0,1>>, <<0,0,1>>, <<0,0,1>>,
    <<24,1>>, <<3,2,4>>, <<3,1,3>>, <<3,1,3>>, <<1,3,4>>, <<0,3,4>>, <<3,0,4>>, <<2,2,4>>,
    <<1,2,3>>, <<1,2,3>>, <<2,1,3>>, <<2,1,3>>, <<0,2,3>>, <<0,2,3>>, <<2,0,3>>, <<2,0,3>>,
    <<3,3,1>>, <<2,3,1>>>>

hufftab6 == <<
    <<16,3>>, <<24,1>>, <<26,1>>, <<1,2,4>>, <<2,1,4>>, <<2,0,4>>, <<0,1,3>>, <<0,1,3>>,
    <<1,1,2>>, <<1,1,2>>, <<1,1,2>>, <<1,1,2>>, <<1,0,3>>, <<1,0,3>>, <<0,0,3>>, <<0,0,3>>,
    <<3,3,3>>, <<0,3,3>>, <<2,3,2>>, <<2,3,2>>, <<3,2,2>>, <<3,2,2>>, <<3,0,2>>, <<3,0,2>>,
    <<1,3,1>>, <<3,1,1>>, <<2,2,1>>, <<0,2,1>>>>

hufftab7 == <<
    <<16,4>>, <<32,4>>, <<48,2>>, <<1,1,4>>, <<0,1,3>>, <<0,1,3>>, <<1,0,3>>, <<1,0,3>>,
    <<0,0,1>>, <<0,0,1>>, <<0,0,1>>, <<0,0,1>>, <<0,0,1>>, <<0,0,1>>, <<0,0,1>>, <<0,0,1>>,
    <<52,2>>, <<56,1>>, <<58,1>>, <<1,5,4>>, <<5,1,4>>, <<60,1>>, <<5,0,4>>, <<62,1>>, <<2,4,4>>,
    <<4,2,4>>, <<1,4,3>>, <<1,4,3>>, <<4,1,3>>, <<4,1,3>>, <<4,0,3>>, <<4,0,3>>, <<0,4,4>>,
    <<2,3,4>>, <<3,2,4>>, <<0,3,4>>, <<1,3,3>>, <<1,3,3>>, <<3,1,3>>, <<3,1,3>>, <<3,0,3>>,
    <<3,0,3>>, <<2,2,3>>, <<2,2,3>>, <<1,2,2>>, <<1,2,2>>, <<1,2,2>>, <<1,2,2>>, <<2,1,1>>,
    <<2,1,1>>, <<0,2,2>>, <<2,0,2>>, <<5,5,2>>, <<4,5,2>>, <<5,4,2>>, <<5,3,2>>, <<3,5,1>>,
    <<4,4,1>>, <<2,5,1>>, <<5,2,1>>, <<0,5,1>>, <<3,4,1>>, <<4,3,1>>, <<3,3,1>>>>

hufftab8 == <<
    <<16,4>>, <<32,4>>, <<1,2,4>>, <<2,1,4>>, <<1,1,2>>, <<1,1,2>>, <<1,1,2>>, <<1,1,2>>,
    <<0,1,3>>, <<0,1,3>>, <<1,0,3>>, <<1,0,3>>, <<0,0,2>>, <<0,0,2>>, <<0,0,2>>, <<0,0,2>>,
    <<48,3>>, <<56,2>>, <<60,1>>, <<1,5,4>>, <<5,1,4>>, <<62,1>>, <<64,1>>, <<2,4,4>>, <<4,2,4>>,
    <<1,4,4>>, <<4,1,3>>, <<4,1,3>>, <<0,4,4>>, <<4,0,4>>, <<2,3,4>>, <<3,2,4>>, <<1,3,4>>,
    <<3,1,4>>, <<0,3,4>>, <<3,0,4>>, <<2,2,2>>, <<2,2,2>>, <<2,2,2>>, <<2,2,2>>, <<0,2,2>>,
    <<0,2,2>>, <<0,2,2>>, <<0,2,2>>, <<2,0,2>>, <<2,0,2>>, <<2,0,2>>, <<2,0,2>>, <<5,5,3>>,
    <<5,4,3>>, <<4,5,2>>, <<4,5,2>>, <<5,3,1>>, <<5,3,1>>, <<5,3,1>>, <<5,3,1>>, <<3,5,2>>,
    <<4,4,2>>, <<2,5,1>>, <<2,5,1>>, <<5,2,1>>, <<0,5,1>>, <<3,4,1>>, <<4,3,1>>, <<5,0,1>>,
    <<3,3,1>>>>

hufftab9 == <<
    <<16,4>>, <<32,3>>, <<40,2>>, <<44,2>>, <<48,1>>, <<1,2,4>>, <<2,1,4>>, <<2,0,4>>, <<1,1,3>>,
    <<1,1,3>>, <<0,1,3>>, <<0,1,3>>, <<1,0,3>>, <<1,0,3>>, <<0,0,3>>, <<0,0,3>>, <<50,1>>,
    <<3,5,4>>, <<5,3,4>>, <<52,1>>, <<4,4,4>>, <<2,5,4>>, <<5,2,4>>, <<1,5,4>>, <<5,1,3>>,
    <<5,1,3>>, <<3,4,3>>, <<3,4,3>>, <<4,3,3>>, <<4,3,3>>, <<5,0,4>>, <<0,4,4>>, <<2,4,3>>,
    <<4,2,3>>, <<3,3,3>>, <<4,0,3>>, <<1,4,2>>, <<1,4,2>>, <<4,1,2>>, <<4,1,2>>, <<2,3,2>>,
    <<3,2,2>>, <<1,3,1>>, <<1,3,1>>, <<3,1,1>>, <<3,1,1>>, <<0,3,2>>, <<3,0,2>>, <<2,2,1>>,
    <<0,2,1>>, <<5,5,1>>, <<4,5,1>>, <<5,4,1>>, <<0,5,1>>>>

hufftab10 == <<
    <<16,4>>, <<32,4>>, <<48,2>>, <<1,1,4>>, <<0,1,3>>, <<0,1,3>>, <<1,0,3>>, <<1,0,3>>,
    <<0,0,1>>, <<0,0,1>>, <<0,0,1>>, <<0,0,1>>, <<0,0,1>>, <<0,0,1>>, <<0,0,1>>, <<0,0,1>>,
    <<52,3>>, <<60,2>>, <<64,3>>, <<72,1>>, <<74,2>>, <<78,2>>, <<82,2>>, <<1,7,4>>, <<7,1,4>>,
    <<86,1>>, <<88,2>>, <<92,2>>, <<1,6,4>>, <<6,1,4>>, <<6,0,4>>, <<96,1>>, <<98,1>>, <<100,1>>,
    <<1,4,4>>, <<4,1,4>>, <<4,0,4>>, <<2,3,4>>, <<3,2,4>>, <<0,3,4>>, <<1,3,3>>, <<1,3,3>>,
    <<3,1,3>>, <<3,1,3>>, <<3,0,3>>, <<3,0,3>>, <<2,2,3>>, <<2,2,3>>, <<1,2,2>>, <<2,1,2>>,
    <<0,2,2>>, <<2,0,2>>, <<7,7,3>>, <<6,7,3>>, <<7,6,3>>, <<5,7,3>>, <<7,5,3>>, <<6,6,3>>,
    <<4,7,2>>, <<4,7,2>>, <<7,4,2>>, <<5,6,2>>, <<6,5,2>>, <<3,7,2>>, <<7,3,2>>, <<7,3,2>>,
    <<4,6,2>>, <<4,6,2>>, <<5,5,3>>, <<5,4,3>>, <<6,3,2>>, <<6,3,2>>, <<2,7,1>>, <<7,2,1>>,
    <<6,4,2>>, <<0,7,2>>, <<7,0,1>>, <<7,0,1>>, <<6,2,1>>, <<6,2,1>>, <<4,5,2>>, <<3,5,2>>,
    <<0,6,1>>, <<0,6,1>>, <<5,3,2>>, <<4,4,2>>, <<3,6,1>>, <<2,6,1>>, <<2,5,2>>, <<5,2,2>>,
    <<1,5,1>>, <<1,5,1>>, <<5,1,1>>, <<5,1,1>>, <<3,4,2>>, <<4,3,2>>, <<0,5,1>>, <<5,0,1>>,
    <<2,4,1>>, <<4,2,1>>, <<3,3,1>>, <<0,4,1>>>>

hufftab11 == <<
    <<16,4>>, <<32,4>>, <<48,4>>, <<64,3>>, <<1,2,4>>, <<72,1>>, <<1,1,3>>, <<1,1,3>>, <<0,1,3>>,
    <<0,1,3>>, <<1,0,3>>, <<1,0,3>>, <<0,0,2>>, <<0,0,2>>, <<0,0,2>>, <<0,0,2>>, <<74,2>>,
    <<78,3>>, <<86,2>>, <<90,1>>, <<92,2>>, <<2,7,4>>, <<7,2,4>>, <<96,1>>, <<7,1,3>>, <<7,1,3>>,
    <<1,7,4>>, <<7,0,4>>, <<3,6,4>>, <<6,3,4>>, <<6,0,4>>, <<98,1>>, <<100,1>>, <<1,5,4>>,
    <<6,2,3>>, <<6,2,3>>, <<2,6,4>>, <<0,6,4>>, <<1,6,3>>, <<1,6,3>>, <<6,1,3>>, <<6,1,3>>,
    <<5,1,4>>, <<3,4,4>>, <<5,0,4>>, <<102,1>>, <<2,4,4>>, <<4,2,4>>, <<1,4,4>>, <<4,1,4>>,
    <<0,4,4>>, <<4,0,4>>, <<2,3,3>>, <<2,3,3>>, <<3,2,3>>, <<3,2,3>>, <<1,3,2>>, <<1,3,2>>,
    <<1,3,2>>, <<1,3,2>>, <<3,1,2>>, <<3,1,2>>, <<3,1,2>>, <<3,1,2>>, <<0,3,3>>, <<3,0,3>>,
    <<2,2,2>>, <<2,2,2>>, <<2,1,1>>, <<2,1,1>>, <<2,1,1>>, <<2,1,1>>, <<0,2,1>>, <<2,0,1>>,
    <<7,7,2>>, <<6,7,2>>, <<7,6,2>>, <<7,5,2>>, <<6,6,2>>, <<6,6,2>>, <<4,7,2>>, <<4,7,2>>,
    <<7,4,2>>, <<7,4,2>>, <<5,7,3>>, <<5,5,3>>, <<5,6,2>>, <<6,5,2>>, <<3,7,1>>, <<3,7,1>>,
    <<7,3,1>>, <<4,6,1>>, <<4,5,2>>, <<5,4,2>>, <<3,5,2>>, <<5,3,2>>, <<6,4,1>>, <<0,7,1>>,
    <<4,4,1>>, <<2,5,1>>, <<5,2,1>>, <<0,5,1>>, <<4,3,1>>, <<3,3,1>>>>

hufftab12 == <<
    <<16,4>>, <<32,4>>, <<48,4>>, <<64,2>>, <<68,3>>, <<76,1>>, <<1,2,4>>, <<2,1,4>>, <<78,1>>,
    <<0,0,4>>, <<1,1,3>>, <<1,1,3>>, <<0,1,3>>, <<0,1,3>>, <<1,0,3>>, <<1,0,3>>, <<80,2>>,
    <<84,1>>, <<86,1>>, <<88,1>>, <<5,6,4>>, <<3,7,4>>, <<90,1>>, <<2,7,4>>, <<7,2,4>>,
    <<4,6,4>>, <<6,4,4>>, <<1,7,4>>, <<7,1,4>>, <<92,1>>, <<3,6,4>>, <<6,3,4>>, <<4,5,4>>,
    <<5,4,4>>, <<4,4,4>>, <<94,1>>, <<2,6,3>>, <<2,6,3>>, <<6,2,3>>, <<6,2,3>>, <<6,1,3>>,
    <<6,1,3>>, <<1,6,4>>, <<6,0,4>>, <<3,5,4>>, <<5,3,4>>, <<2,5,4>>, <<5,2,4>>, <<1,5,3>>,
    <<1,5,3>>, <<5,1,3>>, <<5,1,3>>, <<3,4,3>>, <<3,4,3>>, <<4,3,3>>, <<4,3,3>>, <<5,0,4>>,
    <<0,4,4>>, <<2,4,3>>, <<2,4,3>>, <<4,2,3>>, <<4,2,3>>, <<1,4,3>>, <<1,4,3>>, <<3,3,2>>,
    <<4,1,2>>, <<2,3,2>>, <<3,2,2>>, <<4,0,3>>, <<0,3,3>>, <<3,0,2>>, <<3,0,2>>, <<1,3,1>>,
    <<1,3,1>>, <<1,3,1>>, <<1,3,1>>, <<3,1,1>>, <<2,2,1>>, <<0,2,1>>, <<2,0,1>>, <<7,7,2>>,
    <<6,7,2>>, <<7,6,1>>, <<7,6,1>>, <<5,7,1>>, <<7,5,1>>, <<6,6,1>>, <<4,7,1>>, <<7,4,1>>,
    <<6,5,1>>, <<7,3,1>>, <<5,5,1>>, <<0,7,1>>, <<7,0,1>>, <<0,6,1>>, <<0,5,1>>>>

hufftab13 == <<
    <<16,4>>, <<32,4>>, <<48,4>>, <<64,2>>, <<1,1,4>>, <<0,1,4>>, <<1,0,3>>, <<1,0,3>>,
    <<0,0,1>>, <<0,0,1>>, <<0,0,1>>, <<0,0,1>>, <<0,0,1>>, <<0,0,1>>, <<0,0,1>>, <<0,0,1>>,
    <<68,4>>, <<84,4>>, <<100,4>>, <<116,4>>, <<132,4>>, <<148,4>>, <<164,3>>, <<172,3>>,
    <<180,3>>, <<188,3>>, <<196,3>>, <<204,3>>, <<212,1>>, <<214,2>>, <<218,3>>, <<226,1>>,
    <<228,2>>, <<232,2>>, <<236,2>>, <<240,2>>, <<8,1,4>>, <<244,1>>, <<246,1>>, <<248,1>>,
    <<250,2>>, <<254,1>>, <<1,5,4>>, <<5,1,4>>, <<256,1>>, <<258,1>>, <<260,1>>, <<1,4,4>>,
    <<4,1,3>>, <<4,1,3>>, <<0,4,4>>, <<4,0,4>>, <<2,3,4>>, <<3,2,4>>, <<1,3,3>>, <<1,3,3>>,
    <<3,1,3>>, <<3,1,3>>, <<0,3,3>>, <<0,3,3>>, <<3,0,3>>, <<3,0,3>>, <<2,2,3>>, <<2,2,3>>,
    <<1,2,2>>, <<2,1,2>>, <<0,2,2>>, <<2,0,2>>, <<262,4>>, <<278,4>>, <<294,4>>, <<310,3>>,
    <<318,2>>, <<322,2>>, <<326,3>>, <<334,2>>, <<338,1>>, <<340,2>>, <<344,2>>, <<348,2>>,
    <<352,2>>, <<356,2>>, <<1,15,4>>, <<15,1,4>>, <<15,0,4>>, <<360,1>>, <<362,1>>, <<364,1>>,
    <<14,2,4>>, <<366,1>>, <<1,14,4>>, <<14,1,4>>, <<368,1>>, <<370,1>>, <<372,1>>, <<374,1>>,
    <<376,1>>, <<378,1>>, <<12,6,4>>, <<3,13,4>>, <<380,1>>, <<2,13,4>>, <<13,2,4>>, <<1,13,4>>,
    <<11,7,4>>, <<382,1>>, <<384,1>>, <<12,3,4>>, <<386,1>>, <<4,11,4>>, <<13,1,3>>, <<13,1,3>>,
    <<0,13,4>>, <<13,0,4>>, <<8,10,4>>, <<10,8,4>>, <<4,12,4>>, <<12,4,4>>, <<6,11,4>>,
    <<11,6,4>>, <<3,12,3>>, <<3,12,3>>, <<2,12,3>>, <<2,12,3>>, <<12,2,3>>, <<12,2,3>>,
    <<5,11,3>>, <<5,11,3>>, <<11,5,4>>, <<8,9,4>>, <<1,12,3>>, <<1,12,3>>, <<12,1,3>>,
    <<12,1,3>>, <<9,8,4>>, <<0,12,4>>, <<12,0,3>>, <<12,0,3>>, <<11,4,4>>, <<6,10,4>>,
    <<10,6,4>>, <<7,9,4>>, <<3,11,3>>, <<3,11,3>>, <<11,3,3>>, <<11,3,3>>, <<8,8,4>>, <<5,10,4>>,
    <<2,11,3>>, <<2,11,3>>, <<10,5,4>>, <<6,9,4>>, <<10,4,3>>, <<10,4,3>>, <<7,8,4>>, <<8,7,4>>,
    <<9,4,3>>, <<9,4,3>>, <<7,7,4>>, <<7,6,4>>, <<11,2,2>>, <<11,2,2>>, <<11,2,2>>, <<11,2,2>>,
    <<1,11,2>>, <<1,11,2>>, <<11,1,2>>, <<11,1,2>>, <<0,11,3>>, <<11,0,3>>, <<9,6,3>>,
    <<4,10,3>>, <<3,10,3>>, <<10,3,3>>, <<5,9,3>>, <<9,5,3>>, <<2,10,2>>, <<2,10,2>>, <<10,2,2>>,
    <<10,2,2>>, <<1,10,2>>, <<1,10,2>>, <<10,1,2>>, <<10,1,2>>, <<0,10,3>>, <<6,8,3>>,
    <<10,0,2>>, <<10,0,2>>, <<8,6,3>>, <<4,9,3>>, <<9,3,2>>, <<9,3,2>>, <<3,9,3>>, <<5,8,3>>,
    <<8,5,3>>, <<6,7,3>>, <<2,9,2>>, <<2,9,2>>, <<9,2,2>>, <<9,2,2>>, <<5,7,3>>, <<7,5,3>>,
    <<3,8,2>>, <<3,8,2>>, <<8,3,2>>, <<8,3,2>>, <<6,6,3>>, <<4,7,3>>, <<7,4,3>>, <<5,6,3>>,
    <<6,5,3>>, <<7,3,3>>, <<1,9,1>>, <<9,1,1>>, <<0,9,2>>, <<9,0,2>>, <<4,8,2>>, <<8,4,2>>,
    <<7,2,2>>, <<7,2,2>>, <<4,6,3>>, <<6,4,3>>, <<2,8,1>>, <<2,8,1>>, <<2,8,1>>, <<2,8,1>>,
    <<8,2,1>>, <<1,8,1>>, <<3,7,2>>, <<2,7,2>>, <<1,7,1>>, <<1,7,1>>, <<7,1,1>>, <<7,1,1>>,
    <<5,5,2>>, <<0,7,2>>, <<7,0,2>>, <<3,6,2>>, <<6,3,2>>, <<4,5,2>>, <<5,4,2>>, <<2,6,2>>,
    <<6,2,2>>, <<3,5,2>>, <<0,8,1>>, <<8,0,1>>, <<1,6,1>>, <<6,1,1>>, <<0,6,1>>, <<6,0,1>>,
    <<5,3,2>>, <<4,4,2>>, <<2,5,1>>, <<2,5,1>>, <<5,2,1>>, <<0,5,1>>, <<3,4,1>>, <<4,3,1>>,
    <<5,0,1>>, <<2,4,1>>, <<4,2,1>>, <<3,3,1>>, <<388,3>>, <<15,15,4>>, <<14,15,4>>, <<13,15,4>>,
    <<14,14,4>>, <<12,15,4>>, <<13,14,4>>, <<11,15,4>>, <<15,11,4>>, <<12,14,4>>, <<13,12,4>>,
    <<396,1>>, <<14,12,3>>, <<14,12,3>>, <<13,13,3>>, <<13,13,3>>, <<15,10,4>>, <<12,13,4>>,
    <<11,14,3>>, <<11,14,3>>, <<14,11,3>>, <<14,11,3>>, <<9,15,3>>, <<9,15,3>>, <<15,9,3>>,
    <<15,9,3>>, <<14,10,3>>, <<14,10,3>>, <<11,13,3>>, <<11,13,3>>, <<13,11,3>>, <<13,11,3>>,
    <<8,15,3>>, <<8,15,3>>, <<15,8,3>>, <<15,8,3>>, <<12,12,3>>, <<12,12,3>>, <<10,14,4>>,
    <<9,14,4>>, <<8,14,3>>, <<8,14,3>>, <<7,15,4>>, <<7,14,4>>, <<15,7,2>>, <<15,7,2>>,
    <<15,7,2>>, <<15,7,2>>, <<13,10,2>>, <<13,10,2>>, <<10,13,3>>, <<11,12,3>>, <<12,11,3>>,
    <<15,6,3>>, <<6,15,2>>, <<6,15,2>>, <<14,8,2>>, <<5,15,2>>, <<9,13,2>>, <<13,9,2>>,
    <<15,5,2>>, <<14,7,2>>, <<10,12,2>>, <<11,11,2>>, <<4,15,2>>, <<4,15,2>>, <<15,4,2>>,
    <<15,4,2>>, <<12,10,3>>, <<14,6,3>>, <<15,3,2>>, <<15,3,2>>, <<3,15,1>>, <<3,15,1>>,
    <<8,13,2>>, <<13,8,2>>, <<2,15,1>>, <<15,2,1>>, <<6,14,2>>, <<9,12,2>>, <<0,15,1>>,
    <<0,15,1>>, <<12,9,2>>, <<5,14,2>>, <<10,11,1>>, <<10,11,1>>, <<7,13,2>>, <<13,7,2>>,
    <<4,14,1>>, <<4,14,1>>, <<12,8,2>>, <<13,6,2>>, <<3,14,1>>, <<3,14,1>>, <<11,9,1>>,
    <<11,9,1>>, <<9,11,2>>, <<10,10,2>>, <<11,10,1>>, <<14,5,1>>, <<14,4,1>>, <<8,12,1>>,
    <<6,13,1>>, <<14,3,1>>, <<2,14,1>>, <<0,14,1>>, <<14,0,1>>, <<5,13,1>>, <<13,5,1>>,
    <<7,12,1>>, <<12,7,1>>, <<4,13,1>>, <<8,11,1>>, <<11,8,1>>, <<13,4,1>>, <<9,10,1>>,
    <<10,9,1>>, <<6,12,1>>, <<13,3,1>>, <<7,11,1>>, <<5,12,1>>, <<12,5,1>>, <<9,9,1>>,
    <<7,10,1>>, <<10,7,1>>, <<9,7,1>>, <<15,14,3>>, <<15,12,3>>, <<15,13,2>>, <<15,13,2>>,
    <<14,13,1>>, <<14,13,1>>, <<14,13,1>>, <<14,13,1>>, <<10,15,1>>, <<14,9,1>>>>

hufftab15 == <<
    <<16,4>>, <<32,4>>, <<48,4>>, <<64,4>>, <<80,4>>, <<96,3>>, <<104,3>>, <<112,2>>, <<116,1>>,
    <<118,1>>, <<1,1,3>>, <<1,1,3>>, <<0,1,4>>, <<1,0,4>>, <<0,0,3>>, <<0,0,3>>, <<120,4>>,
    <<136,4>>, <<152,4>>, <<168,4>>, <<184,4>>, <<200,3>>, <<208,3>>, <<216,4>>, <<232,3>>,
    <<240,3>>, <<248,3>>, <<256,3>>, <<264,2>>, <<268,3>>, <<276,3>>, <<284,2>>, <<288,2>>,
    <<292,2>>, <<296,2>>, <<300,2>>, <<304,2>>, <<308,2>>, <<312,2>>, <<316,2>>, <<320,1>>,
    <<322,1>>, <<324,1>>, <<326,2>>, <<330,1>>, <<332,1>>, <<334,2>>, <<338,1>>, <<340,1>>,
    <<342,1>>, <<9,1,4>>, <<344,1>>, <<346,1>>, <<348,1>>, <<350,1>>, <<352,1>>, <<2,8,4>>,
    <<8,2,4>>, <<1,8,4>>, <<8,1,4>>, <<354,1>>, <<356,1>>, <<358,1>>, <<360,1>>, <<2,7,4>>,
    <<7,2,4>>, <<6,4,4>>, <<1,7,4>>, <<5,5,4>>, <<7,1,4>>, <<362,1>>, <<3,6,4>>, <<6,3,4>>,
    <<4,5,4>>, <<5,4,4>>, <<2,6,4>>, <<6,2,4>>, <<1,6,4>>, <<364,1>>, <<3,5,4>>, <<6,1,3>>,
    <<6,1,3>>, <<5,3,4>>, <<4,4,4>>, <<2,5,3>>, <<2,5,3>>, <<5,2,3>>, <<5,2,3>>, <<1,5,3>>,
    <<1,5,3>>, <<5,1,3>>, <<5,1,3>>, <<0,5,4>>, <<5,0,4>>, <<3,4,3>>, <<3,4,3>>, <<4,3,3>>,
    <<2,4,3>>, <<4,2,3>>, <<3,3,3>>, <<4,1,2>>, <<4,1,2>>, <<1,4,3>>, <<0,4,3>>, <<2,3,2>>,
    <<2,3,2>>, <<3,2,2>>, <<3,2,2>>, <<4,0,3>>, <<0,3,3>>, <<1,3,2>>, <<1,3,2>>, <<3,1,2>>,
    <<3,0,2>>, <<2,2,1>>, <<2,2,1>>, <<1,2,1>>, <<2,1,1>>, <<0,2,1>>, <<2,0,1>>, <<366,1>>,
    <<368,1>>, <<14,14,4>>, <<370,1>>, <<372,1>>, <<374,1>>, <<15,11,4>>, <<376,1>>, <<13,13,4>>,
    <<10,15,4>>, <<15,10,4>>, <<11,14,4>>, <<14,11,4>>, <<12,13,4>>, <<13,12,4>>, <<9,15,4>>,
    <<15,9,4>>, <<14,10,4>>, <<11,13,4>>, <<13,11,4>>, <<8,15,4>>, <<15,8,4>>, <<12,12,4>>,
    <<9,14,4>>, <<14,9,4>>, <<7,15,4>>, <<15,7,4>>, <<10,13,4>>, <<13,10,4>>, <<11,12,4>>,
    <<6,15,4>>, <<378,1>>, <<12,11,3>>, <<12,11,3>>, <<15,6,3>>, <<15,6,3>>, <<8,14,4>>,
    <<14,8,4>>, <<5,15,4>>, <<9,13,4>>, <<15,5,3>>, <<15,5,3>>, <<7,14,3>>, <<7,14,3>>,
    <<14,7,3>>, <<14,7,3>>, <<10,12,3>>, <<10,12,3>>, <<12,10,3>>, <<12,10,3>>, <<11,11,3>>,
    <<11,11,3>>, <<13,9,4>>, <<8,13,4>>, <<4,15,3>>, <<4,15,3>>, <<15,4,3>>, <<15,4,3>>,
    <<3,15,3>>, <<3,15,3>>, <<15,3,3>>, <<15,3,3>>, <<13,8,3>>, <<13,8,3>>, <<14,6,3>>,
    <<14,6,3>>, <<2,15,3>>, <<2,15,3>>, <<15,2,3>>, <<15,2,3>>, <<6,14,4>>, <<15,0,4>>,
    <<1,15,3>>, <<1,15,3>>, <<15,1,3>>, <<15,1,3>>, <<9,12,3>>, <<9,12,3>>, <<12,9,3>>,
    <<12,9,3>>, <<5,14,3>>, <<10,11,3>>, <<11,10,3>>, <<14,5,3>>, <<7,13,3>>, <<13,7,3>>,
    <<4,14,3>>, <<14,4,3>>, <<8,12,3>>, <<12,8,3>>, <<3,14,3>>, <<6,13,3>>, <<13,6,3>>,
    <<14,3,3>>, <<9,11,3>>, <<11,9,3>>, <<2,14,3>>, <<2,14,3>>, <<10,10,3>>, <<10,10,3>>,
    <<14,2,3>>, <<14,2,3>>, <<1,14,3>>, <<1,14,3>>, <<14,1,3>>, <<14,1,3>>, <<0,14,4>>,
    <<14,0,4>>, <<5,13,3>>, <<5,13,3>>, <<13,5,3>>, <<13,5,3>>, <<7,12,3>>, <<12,7,3>>,
    <<4,13,3>>, <<8,11,3>>, <<13,4,2>>, <<13,4,2>>, <<11,8,3>>, <<9,10,3>>, <<10,9,3>>,
    <<6,12,3>>, <<12,6,3>>, <<3,13,3>>, <<13,3,2>>, <<13,3,2>>, <<13,2,2>>, <<13,2,2>>,
    <<2,13,3>>, <<0,13,3>>, <<1,13,2>>, <<1,13,2>>, <<7,11,2>>, <<7,11,2>>, <<11,7,2>>,
    <<11,7,2>>, <<13,1,2>>, <<13,1,2>>, <<5,12,3>>, <<13,0,3>>, <<12,5,2>>, <<12,5,2>>,
    <<8,10,2>>, <<8,10,2>>, <<10,8,2>>, <<4,12,2>>, <<12,4,2>>, <<6,11,2>>, <<11,6,2>>,
    <<11,6,2>>, <<9,9,3>>, <<0,12,3>>, <<3,12,2>>, <<3,12,2>>, <<12,3,2>>, <<12,3,2>>,
    <<7,10,2>>, <<7,10,2>>, <<10,7,2>>, <<10,7,2>>, <<10,6,2>>, <<10,6,2>>, <<12,0,3>>,
    <<0,11,3>>, <<12,2,1>>, <<12,2,1>>, <<2,12,2>>, <<5,11,2>>, <<11,5,2>>, <<1,12,2>>,
    <<8,9,2>>, <<9,8,2>>, <<12,1,2>>, <<4,11,2>>, <<11,4,2>>, <<6,10,2>>, <<3,11,2>>, <<7,9,2>>,
    <<11,3,1>>, <<11,3,1>>, <<9,7,2>>, <<8,8,2>>, <<2,11,2>>, <<5,10,2>>, <<11,2,1>>, <<11,2,1>>,
    <<10,5,2>>, <<1,11,2>>, <<11,1,1>>, <<11,1,1>>, <<11,0,2>>, <<6,9,2>>, <<9,6,2>>, <<4,10,2>>,
    <<10,4,2>>, <<7,8,2>>, <<8,7,2>>, <<3,10,2>>, <<10,3,1>>, <<10,3,1>>, <<5,9,1>>, <<9,5,1>>,
    <<2,10,1>>, <<10,2,1>>, <<1,10,1>>, <<10,1,1>>, <<0,10,2>>, <<10,0,2>>, <<6,8,1>>, <<6,8,1>>,
    <<8,6,1>>, <<4,9,1>>, <<9,4,1>>, <<3,9,1>>, <<9,3,1>>, <<9,3,1>>, <<7,7,2>>, <<0,9,2>>,
    <<5,8,1>>, <<8,5,1>>, <<2,9,1>>, <<6,7,1>>, <<7,6,1>>, <<9,2,1>>, <<1,9,1>>, <<9,0,1>>,
    <<4,8,1>>, <<8,4,1>>, <<5,7,1>>, <<7,5,1>>, <<3,8,1>>, <<8,3,1>>, <<6,6,1>>, <<4,7,1>>,
    <<7,4,1>>, <<0,8,1>>, <<8,0,1>>, <<5,6,1>>, <<6,5,1>>, <<3,7,1>>, <<7,3,1>>, <<4,6,1>>,
    <<0,7,1>>, <<7,0,1>>, <<0,6,1>>, <<6,0,1>>, <<15,15,1>>, <<14,15,1>>, <<15,14,1>>,
    <<13,15,1>>, <<15,13,1>>, <<12,15,1>>, <<15,12,1>>, <<13,14,1>>, <<14,13,1>>, <<11,15,1>>,
    <<12,14,1>>, <<14,12,1>>, <<10,14,1>>, <<0,15,1>>>>

hufftab16 == <<
    <<16,4>>, <<32,4>>, <<48,4>>, <<64,2>>, <<1,1,4>>, <<0,1,4>>, <<1,0,3>>, <<1,0,3>>,
    <<0,0,1>>, <<0,0,1>>, <<0,0,1>>, <<0,0,1>>, <<0,0,1>>, <<0,0,1>>, <<0,0,1>>, <<0,0,1>>,
    <<68,3>>, <<76,3>>, <<84,2>>, <<15,15,4>>, <<88,2>>, <<92,1>>, <<94,4>>, <<15,2,4>>,
    <<110,1>>, <<1,15,4>>, <<15,1,4>>, <<112,4>>, <<128,4>>, <<144,4>>, <<160,4>>, <<176,4>>,
    <<192,4>>, <<208,3>>, <<216,3>>, <<224,3>>, <<232,3>>, <<240,3>>, <<248,3>>, <<256,3>>,
    <<264,2>>, <<268,2>>, <<272,1>>, <<274,2>>, <<278,2>>, <<282,1>>, <<5,1,4>>, <<284,1>>,
    <<286,1>>, <<288,1>>, <<290,1>>, <<1,4,4>>, <<4,1,4>>, <<292,1>>, <<2,3,4>>, <<3,2,4>>,
    <<1,3,3>>, <<1,3,3>>, <<3,1,3>>, <<3,1,3>>, <<0,3,4>>, <<3,0,4>>, <<2,2,3>>, <<2,2,3>>,
    <<1,2,2>>, <<2,1,2>>, <<0,2,2>>, <<2,0,2>>, <<14,15,3>>, <<15,14,3>>, <<13,15,3>>,
    <<15,13,3>>, <<12,15,3>>, <<15,12,3>>, <<11,15,3>>, <<15,11,3>>, <<10,15,2>>, <<10,15,2>>,
    <<15,10,3>>, <<9,15,3>>, <<15,9,3>>, <<15,8,3>>, <<8,15,2>>, <<8,15,2>>, <<7,15,2>>,
    <<15,7,2>>, <<6,15,2>>, <<15,6,2>>, <<5,15,2>>, <<15,5,2>>, <<4,15,1>>, <<4,15,1>>,
    <<15,4,1>>, <<15,3,1>>, <<15,0,1>>, <<15,0,1>>, <<15,0,1>>, <<15,0,1>>, <<15,0,1>>,
    <<15,0,1>>, <<15,0,1>>, <<15,0,1>>, <<3,15,2>>, <<3,15,2>>, <<3,15,2>>, <<3,15,2>>,
    <<294,4>>, <<310,3>>, <<318,3>>, <<326,3>>, <<2,15,1>>, <<0,15,1>>, <<334,2>>, <<338,2>>,
    <<342,2>>, <<346,1>>, <<348,2>>, <<352,2>>, <<356,1>>, <<358,2>>, <<362,2>>, <<366,2>>,
    <<370,2>>, <<14,3,4>>, <<374,1>>, <<376,1>>, <<378,1>>, <<380,1>>, <<382,1>>, <<384,1>>,
    <<386,1>>, <<0,13,4>>, <<388,1>>, <<390,1>>, <<392,1>>, <<3,12,4>>, <<394,1>>, <<1,12,4>>,
    <<12,0,4>>, <<396,1>>, <<14,2,3>>, <<14,2,3>>, <<2,14,4>>, <<1,14,4>>, <<13,3,4>>,
    <<2,13,4>>, <<13,2,4>>, <<13,1,4>>, <<3,11,4>>, <<398,1>>, <<1,13,3>>, <<1,13,3>>,
    <<12,4,4>>, <<6,11,4>>, <<12,3,4>>, <<10,7,4>>, <<2,12,3>>, <<2,12,3>>, <<12,2,4>>,
    <<11,5,4>>, <<12,1,4>>, <<0,12,4>>, <<4,11,4>>, <<11,4,4>>, <<6,10,4>>, <<10,6,4>>,
    <<11,3,3>>, <<11,3,3>>, <<5,10,4>>, <<10,5,4>>, <<2,11,3>>, <<2,11,3>>, <<11,2,3>>,
    <<11,2,3>>, <<1,11,3>>, <<1,11,3>>, <<11,1,3>>, <<11,1,3>>, <<0,11,4>>, <<11,0,4>>,
    <<6,9,4>>, <<9,6,4>>, <<4,10,4>>, <<10,4,4>>, <<7,8,4>>, <<8,7,4>>, <<10,3,3>>, <<10,3,3>>,
    <<3,10,4>>, <<5,9,4>>, <<2,10,3>>, <<2,10,3>>, <<9,5,4>>, <<6,8,4>>, <<10,1,3>>, <<10,1,3>>,
    <<8,6,4>>, <<7,7,4>>, <<9,4,3>>, <<9,4,3>>, <<4,9,4>>, <<5,7,4>>, <<6,7,3>>, <<6,7,3>>,
    <<10,2,2>>, <<10,2,2>>, <<10,2,2>>, <<10,2,2>>, <<1,10,2>>, <<1,10,2>>, <<0,10,3>>,
    <<10,0,3>>, <<3,9,3>>, <<9,3,3>>, <<5,8,3>>, <<8,5,3>>, <<2,9,2>>, <<2,9,2>>, <<9,2,2>>,
    <<9,2,2>>, <<7,6,3>>, <<0,9,3>>, <<1,9,2>>, <<1,9,2>>, <<9,1,2>>, <<9,1,2>>, <<9,0,3>>,
    <<4,8,3>>, <<8,4,3>>, <<7,5,3>>, <<3,8,3>>, <<8,3,3>>, <<6,6,3>>, <<2,8,3>>, <<8,2,2>>,
    <<8,2,2>>, <<4,7,3>>, <<7,4,3>>, <<1,8,2>>, <<1,8,2>>, <<8,1,2>>, <<8,1,2>>, <<8,0,2>>,
    <<8,0,2>>, <<0,8,3>>, <<5,6,3>>, <<3,7,2>>, <<3,7,2>>, <<7,3,2>>, <<7,3,2>>, <<6,5,3>>,
    <<4,6,3>>, <<2,7,2>>, <<2,7,2>>, <<7,2,2>>, <<7,2,2>>, <<6,4,3>>, <<5,5,3>>, <<0,7,2>>,
    <<0,7,2>>, <<1,7,1>>, <<1,7,1>>, <<1,7,1>>, <<1,7,1>>, <<7,1,1>>, <<7,1,1>>, <<7,0,2>>,
    <<3,6,2>>, <<6,3,2>>, <<4,5,2>>, <<5,4,2>>, <<2,6,2>>, <<6,2,1>>, <<1,6,1>>, <<6,1,1>>,
    <<6,1,1>>, <<0,6,2>>, <<6,0,2>>, <<5,3,1>>, <<5,3,1>>, <<3,5,2>>, <<4,4,2>>, <<2,5,1>>,
    <<5,2,1>>, <<1,5,1>>, <<0,5,1>>, <<3,4,1>>, <<4,3,1>>, <<5,0,1>>, <<2,4,1>>, <<4,2,1>>,
    <<3,3,1>>, <<0,4,1>>, <<4,0,1>>, <<12,14,4>>, <<400,1>>, <<13,14,3>>, <<13,14,3>>,
    <<14,9,3>>, <<14,9,3>>, <<14,10,4>>, <<13,9,4>>, <<14,14,2>>, <<14,14,2>>, <<14,14,2>>,
    <<14,14,2>>, <<14,13,3>>, <<14,13,3>>, <<14,11,3>>, <<14,11,3>>, <<11,14,2>>, <<11,14,2>>,
    <<12,13,2>>, <<12,13,2>>, <<13,12,3>>, <<13,11,3>>, <<10,14,2>>, <<10,14,2>>, <<12,12,2>>,
    <<12,12,2>>, <<10,13,3>>, <<13,10,3>>, <<7,14,3>>, <<10,12,3>>, <<12,10,2>>, <<12,10,2>>,
    <<12,9,3>>, <<7,13,3>>, <<5,14,2>>, <<5,14,2>>, <<11,13,1>>, <<11,13,1>>, <<11,13,1>>,
    <<11,13,1>>, <<9,14,1>>, <<9,14,1>>, <<11,12,2>>, <<12,11,2>>, <<8,14,2>>, <<14,8,2>>,
    <<9,13,2>>, <<14,7,2>>, <<11,11,2>>, <<8,13,2>>, <<13,8,2>>, <<6,14,2>>, <<14,6,1>>,
    <<9,12,1>>, <<10,11,2>>, <<11,10,2>>, <<14,5,2>>, <<13,7,2>>, <<4,14,1>>, <<4,14,1>>,
    <<14,4,2>>, <<8,12,2>>, <<12,8,1>>, <<3,14,1>>, <<6,13,1>>, <<6,13,1>>, <<13,6,2>>,
    <<9,11,2>>, <<11,9,2>>, <<10,10,2>>, <<14,1,1>>, <<14,1,1>>, <<13,4,1>>, <<13,4,1>>,
    <<11,8,2>>, <<10,9,2>>, <<7,11,1>>, <<7,11,1>>, <<11,7,2>>, <<13,0,2>>, <<0,14,1>>,
    <<14,0,1>>, <<5,13,1>>, <<13,5,1>>, <<7,12,1>>, <<12,7,1>>, <<4,13,1>>, <<8,11,1>>,
    <<9,10,1>>, <<6,12,1>>, <<12,6,1>>, <<3,13,1>>, <<5,12,1>>, <<12,5,1>>, <<8,10,1>>,
    <<10,8,1>>, <<9,9,1>>, <<4,12,1>>, <<11,6,1>>, <<7,10,1>>, <<5,11,1>>, <<8,9,1>>, <<9,8,1>>,
    <<7,9,1>>, <<9,7,1>>, <<8,8,1>>, <<14,12,1>>, <<13,13,1>>>>

hufftab24 == <<
    <<16,4>>, <<32,4>>, <<48,4>>, <<15,15,4>>, <<64,4>>, <<80,4>>, <<96,4>>, <<112,4>>,
    <<128,4>>, <<144,4>>, <<160,3>>, <<168,2>>, <<1,1,4>>, <<0,1,4>>, <<1,0,4>>, <<0,0,4>>,
    <<14,15,4>>, <<15,14,4>>, <<13,15,4>>, <<15,13,4>>, <<12,15,4>>, <<15,12,4>>, <<11,15,4>>,
    <<15,11,4>>, <<15,10,3>>, <<15,10,3>>, <<10,15,4>>, <<9,15,4>>, <<15,9,3>>, <<15,9,3>>,
    <<15,8,3>>, <<15,8,3>>, <<8,15,4>>, <<7,15,4>>, <<15,7,3>>, <<15,7,3>>, <<6,15,3>>,
    <<6,15,3>>, <<15,6,3>>, <<15,6,3>>, <<5,15,3>>, <<5,15,3>>, <<15,5,3>>, <<15,5,3>>,
    <<4,15,3>>, <<4,15,3>>, <<15,4,3>>, <<15,4,3>>, <<3,15,3>>, <<3,15,3>>, <<15,3,3>>,
    <<15,3,3>>, <<2,15,3>>, <<2,15,3>>, <<15,2,3>>, <<15,2,3>>, <<15,1,3>>, <<15,1,3>>,
    <<1,15,4>>, <<15,0,4>>, <<172,3>>, <<180,3>>, <<188,3>>, <<196,3>>, <<204,4>>, <<220,3>>,
    <<228,3>>, <<236,3>>, <<244,2>>, <<248,2>>, <<252,2>>, <<256,2>>, <<260,2>>, <<264,2>>,
    <<268,2>>, <<272,2>>, <<276,2>>, <<280,3>>, <<288,2>>, <<292,2>>, <<296,2>>, <<300,3>>,
    <<308,2>>, <<312,3>>, <<320,1>>, <<322,2>>, <<326,2>>, <<330,1>>, <<332,2>>, <<336,1>>,
    <<338,1>>, <<340,1>>, <<342,1>>, <<344,1>>, <<346,1>>, <<348,1>>, <<350,1>>, <<352,1>>,
    <<354,1>>, <<356,1>>, <<358,1>>, <<360,1>>, <<362,1>>, <<364,1>>, <<366,1>>, <<368,1>>,
    <<370,2>>, <<374,1>>, <<376,2>>, <<7,3,4>>, <<380,1>>, <<7,2,4>>, <<4,6,4>>, <<6,4,4>>,
    <<5,5,4>>, <<7,1,4>>, <<3,6,4>>, <<6,3,4>>, <<4,5,4>>, <<5,4,4>>, <<2,6,4>>, <<6,2,4>>,
    <<1,6,4>>, <<6,1,4>>, <<382,1>>, <<3,5,4>>, <<5,3,4>>, <<4,4,4>>, <<2,5,4>>, <<5,2,4>>,
    <<1,5,4>>, <<384,1>>, <<5,1,3>>, <<5,1,3>>, <<3,4,4>>, <<4,3,4>>, <<2,4,3>>, <<2,4,3>>,
    <<4,2,3>>, <<4,2,3>>, <<3,3,3>>, <<3,3,3>>, <<1,4,3>>, <<1,4,3>>, <<4,1,3>>, <<4,1,3>>,
    <<0,4,4>>, <<4,0,4>>, <<2,3,3>>, <<2,3,3>>, <<3,2,3>>, <<3,2,3>>, <<1,3,2>>, <<1,3,2>>,
    <<1,3,2>>, <<1,3,2>>, <<3,1,2>>, <<3,1,2>>, <<3,1,2>>, <<3,1,2>>, <<0,3,3>>, <<3,0,3>>,
    <<2,2,2>>, <<2,2,2>>, <<1,2,1>>, <<1,2,1>>, <<1,2,1>>, <<1,2,1>>, <<2,1,1>>, <<2,1,1>>,
    <<0,2,2>>, <<2,0,2>>, <<0,15,1>>, <<0,15,1>>, <<0,15,1>>, <<0,15,1>>, <<14,14,3>>,
    <<13,14,3>>, <<14,13,3>>, <<12,14,3>>, <<14,12,3>>, <<13,13,3>>, <<11,14,3>>, <<14,11,3>>,
    <<12,13,3>>, <<13,12,3>>, <<10,14,3>>, <<14,10,3>>, <<11,13,3>>, <<13,11,3>>, <<12,12,3>>,
    <<9,14,3>>, <<14,9,3>>, <<10,13,3>>, <<13,10,3>>, <<11,12,3>>, <<12,11,3>>, <<8,14,3>>,
    <<14,8,3>>, <<9,13,3>>, <<13,9,3>>, <<7,14,3>>, <<14,7,3>>, <<10,12,3>>, <<12,10,3>>,
    <<12,10,3>>, <<11,11,3>>, <<11,11,3>>, <<8,13,3>>, <<8,13,3>>, <<13,8,3>>, <<13,8,3>>,
    <<0,14,4>>, <<14,0,4>>, <<0,13,3>>, <<0,13,3>>, <<14,6,2>>, <<14,6,2>>, <<14,6,2>>,
    <<14,6,2>>, <<6,14,3>>, <<9,12,3>>, <<12,9,2>>, <<12,9,2>>, <<5,14,2>>, <<5,14,2>>,
    <<11,10,2>>, <<11,10,2>>, <<14,5,2>>, <<14,5,2>>, <<10,11,3>>, <<7,13,3>>, <<13,7,2>>,
    <<13,7,2>>, <<14,4,2>>, <<14,4,2>>, <<8,12,2>>, <<8,12,2>>, <<12,8,2>>, <<12,8,2>>,
    <<4,14,3>>, <<2,14,3>>, <<3,14,2>>, <<3,14,2>>, <<6,13,2>>, <<13,6,2>>, <<14,3,2>>,
    <<9,11,2>>, <<11,9,2>>, <<10,10,2>>, <<14,2,2>>, <<1,14,2>>, <<14,1,2>>, <<5,13,2>>,
    <<13,5,2>>, <<7,12,2>>, <<12,7,2>>, <<4,13,2>>, <<8,11,2>>, <<11,8,2>>, <<13,4,2>>,
    <<9,10,2>>, <<10,9,2>>, <<6,12,2>>, <<12,6,2>>, <<3,13,2>>, <<13,3,2>>, <<2,13,2>>,
    <<13,2,2>>, <<1,13,2>>, <<7,11,2>>, <<11,7,2>>, <<13,1,2>>, <<5,12,2>>, <<12,5,2>>,
    <<8,10,2>>, <<10,8,2>>, <<9,9,2>>, <<4,12,2>>, <<12,4,2>>, <<6,11,2>>, <<6,11,2>>,
    <<11,6,2>>, <<11,6,2>>, <<13,0,3>>, <<0,12,3>>, <<3,12,2>>, <<3,12,2>>, <<12,3,2>>,
    <<7,10,2>>, <<10,7,2>>, <<2,12,2>>, <<12,2,2>>, <<5,11,2>>, <<11,5,2>>, <<1,12,2>>,
    <<8,9,2>>, <<9,8,2>>, <<12,1,2>>, <<4,11,2>>, <<12,0,3>>, <<0,11,3>>, <<3,11,2>>, <<3,11,2>>,
    <<11,0,3>>, <<0,10,3>>, <<1,10,2>>, <<1,10,2>>, <<11,4,1>>, <<11,4,1>>, <<6,10,2>>,
    <<10,6,2>>, <<7,9,2>>, <<7,9,2>>, <<9,7,2>>, <<9,7,2>>, <<10,0,3>>, <<0,9,3>>, <<9,0,2>>,
    <<9,0,2>>, <<11,3,1>>, <<8,8,1>>, <<2,11,2>>, <<5,10,2>>, <<11,2,1>>, <<11,2,1>>, <<10,5,2>>,
    <<1,11,2>>, <<11,1,2>>, <<6,9,2>>, <<9,6,1>>, <<10,4,1>>, <<4,10,2>>, <<7,8,2>>, <<8,7,1>>,
    <<8,7,1>>, <<3,10,1>>, <<10,3,1>>, <<5,9,1>>, <<9,5,1>>, <<2,10,1>>, <<10,2,1>>, <<10,1,1>>,
    <<6,8,1>>, <<8,6,1>>, <<7,7,1>>, <<4,9,1>>, <<9,4,1>>, <<3,9,1>>, <<9,3,1>>, <<5,8,1>>,
    <<8,5,1>>, <<2,9,1>>, <<6,7,1>>, <<7,6,1>>, <<9,2,1>>, <<1,9,1>>, <<9,1,1>>, <<4,8,1>>,
    <<8,4,1>>, <<5,7,1>>, <<7,5,1>>, <<3,8,1>>, <<8,3,1>>, <<6,6,1>>, <<2,8,1>>, <<8,2,1>>,
    <<1,8,1>>, <<4,7,1>>, <<7,4,1>>, <<8,1,1>>, <<8,1,1>>, <<0,8,2>>, <<8,0,2>>, <<5,6,1>>,
    <<6,5,1>>, <<1,7,1>>, <<1,7,1>>, <<0,7,2>>, <<7,0,2>>, <<3,7,1>>, <<2,7,1>>, <<0,6,1>>,
    <<6,0,1>>, <<0,5,1>>, <<5,0,1>>>>

-----------------------------------------------------------------------------
mad_huff_quad_table == <<hufftabA, hufftabB>>

(* table, linbits, startbits; tables 4 and 14 are not used. *)
NotUsed == <<>>

mad_huff_pair_table == <<
    <<hufftab0, 0, 0>>, <<hufftab1, 0, 3>>, <<hufftab2, 0, 3>>, <<hufftab3, 0, 3>>,
    <<NotUsed, 0, 0>>, <<hufftab5, 0, 3>>, <<hufftab6, 0, 4>>, <<hufftab7, 0, 4>>,
    <<hufftab8, 0, 4>>, <<hufftab9, 0, 4>>, <<hufftab10, 0, 4>>, <<hufftab11, 0, 4>>,
    <<hufftab12, 0, 4>>, <<hufftab13, 0, 4>>, <<NotUsed, 0, 0>>, <<hufftab15, 0, 4>>,
    <<hufftab16, 1, 4>>, <<hufftab16, 2, 4>>, <<hufftab16, 3, 4>>, <<hufftab16, 4, 4>>,
    <<hufftab16, 6, 4>>, <<hufftab16, 8, 4>>, <<hufftab16, 10, 4>>, <<hufftab16, 13, 4>>,
    <<hufftab24, 4, 4>>, <<hufftab24, 5, 4>>, <<hufftab24, 6, 4>>, <<hufftab24, 7, 4>>,
    <<hufftab24, 8, 4>>, <<hufftab24, 9, 4>>, <<hufftab24, 11, 4>>, <<hufftab24, 13, 4>>>>

-----------------------------------------------------------------------------
(* The lookup *)

IsFinal(entry) == Len(entry) # 2
Hlen(entry) == entry[Len(entry)]

(* Mutant: the whole last clump is taken from the cache. *)
Word_Clump(entry, i, bits, word, len) ==
    <<SubSeq(entry, 1, Len(entry) - 1), len + bits, word * 2^bits + i>>

(* The word that ends in clump i: its value, its length, its bits. *)
Word(entry, i, bits, word, len) ==
    <<SubSeq(entry, 1, Len(entry) - 1), len + Hlen(entry),
      word * 2^Hlen(entry) + (i \div 2^(bits - Hlen(entry)))>>

Outside == <<<<>>, 0, 0>>       \* an entry behind the end of the table

(* Everything the loop of III_huffdecode can read: a clump of start bits   *)
(* of the table first; then, when it has read len bits, word, a clump of   *)
(* bits at offset.                                                         *)
Words(table, start) ==
    LET read[offset, bits, word, len \in Nat] ==
            UNION {LET entry == table[offset + i + 1] IN
                   IF offset + i >= Len(table) THEN {Outside}
                   ELSE IF IsFinal(entry) THEN {Word(entry, i, bits, word, len)}
                   ELSE read[entry[1], entry[2], word * 2^bits + i, len + bits]
                   : i \in 0 .. 2^bits - 1}
    IN  read[0, start, 0, 0]

(* The code words of the tables of pairs that are used, and of quadruples. *)
PairCode ==
    [select \in {n \in 0 .. 31 : mad_huff_pair_table[n + 1][1] # NotUsed} |->
        LET entry == mad_huff_pair_table[select + 1] IN Words(entry[1], entry[3])]
QuadCode == [select \in 0 .. 1 |-> Words(mad_huff_quad_table[select + 1], 4)]

-----------------------------------------------------------------------------
(* Correctness *)

PairLinbits(select) == mad_huff_pair_table[select + 1][2]

(* The first bits of the one word are the other word. *)
Begins(w, other) ==
    w[2] <= other[2] /\ other[3] \div 2^(other[2] - w[2]) = w[3]

(* The values of a table of pairs: 0 .. n for each, and n is 15 where      *)
(* linbits may follow it.                                                  *)
ValuesOf(words) == {w[1] : w \in words}
AreAllPairs(values, escaped) ==
    \E n \in 0 .. 15 :
        /\ values = {<<a, b>> : a, b \in 0 .. n}
        /\ escaped => n = 15
AreAllQuads(values) == values = {<<a, b, c, d>> : a, b, c, d \in 0 .. 1}

(* Whatever bits come, they begin with one code word, and each value of    *)
(* the table has one: no word begins another, and there are as many as     *)
(* values.                                                                 *)
IsCode(words) ==
    /\ Outside \notin words
    /\ Cardinality(words) = Cardinality(ValuesOf(words))
    /\ \A w, other \in words : Begins(w, other) => w = other
=============================================================================

------------------------------ MODULE MCFlash ------------------------------
(***************************************************************************)
(* Bytes of two bits: bitstreams whose order shows, up to three bytes, and *)
(* a MAGIC_1C payload whose last byte is sent in part.                     *)
(***************************************************************************)
EXTENDS Flash, TLC

MCBitstreams == {<< <<1, 0>> >>, << <<0, 1>>, <<0, 0>> >>,
                 << <<1, 0>>, <<1, 1>>, <<0, 1>> >>}
MCMagic      == << <<1, 0>>, <<1, 1>> >>
Symmetry     == Permutations(Boards)
=============================================================================

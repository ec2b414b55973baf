------------------------------ MODULE MCCliEncode ---------------------------
(***************************************************************************)
(* Buffers of a few bytes and an IOV_MAX of a few vectors, so that lines   *)
(* straddle buffers and the vector array fills up at a line's characters   *)
(* as well as at its newline.                                              *)
(***************************************************************************)
EXTENDS CliEncode

MCFileSizes == {0, 1, 3, 7, 9, 12}
MCWrapWidths == {0, 1, 2, 3, 5, 8, 76}
=============================================================================

------------------------------ MODULE MCCliDecode ---------------------------
(***************************************************************************)
(* Every short input over a value, '=', a newline, a quote and another     *)
(* invalid character, and longer ones in lines, read four characters at a  *)
(* time.                                                                   *)
(***************************************************************************)
EXTENDS CliDecode

Short == UNION {[1..n -> {45, Pad, LF, Quote, Bad}] : n \in 0..4}

Lines == {
  <<1, 2, 3, 4, LF, 5, 6, 7, 8, LF>>,
  <<1, 2, LF, 3, 4, 5, LF, LF, 6, 7, Pad, LF>>,
  <<1, 2, 3, 4, 5, 6, Pad, LF, Pad, LF, LF>>,
  <<1, 2, 3, 4, 5, 6, Pad, Pad, LF, LF, LF, LF, LF>>,
  <<1, 2, 3, 4, 5, 6, Pad, Pad, LF, 9>>,
  <<1, Bad, 2, 3, LF, 4, Bad, Bad, 5, 6, 7, 8, 9>> }

MCInputs == Short \cup Lines
=============================================================================

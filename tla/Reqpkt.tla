------------------------------- MODULE Reqpkt -------------------------------
(***************************************************************************)
(* The status word of an OS/2 request packet (reqpkt32.h).                 *)
(*                                                                         *)
(* The drivers build a status with |=, so a word is modelled as the set of *)
(* its bits that are 1: "status |= STERR + code" is a union, and two error *)
(* codes that are or-ed together give the bits of both, as in the code.    *)
(***************************************************************************)
EXTENDS Naturals

STERR == {15}
STDON == {8}
STECODE == 0..7

(* Bits of the ERROR_I24_* codes of the toolkit's bseerr.h: 0x03, 0x0C,    *)
(* 0x13 and 0x15.                                                          *)
ERROR_I24_BAD_COMMAND == {0, 1}
ERROR_I24_GEN_FAILURE == {2, 3}
ERROR_I24_INVALID_PARAMETER == {0, 1, 4}
ERROR_I24_QUIET_INIT_FAIL == {0, 2, 4}

StatusWord == SUBSET (0..15)

Failed(word) == STERR \subseteq word
ErrorCode(word) == word \cap STECODE
=============================================================================

---------------------------- MODULE SaveMessage ----------------------------
(***************************************************************************)
(* DevHlp32_SaveMessage: the one service that needs four DevHelp calls and *)
(* a table in the 16 bits data segment.  It allocates a selector into the  *)
(* table, makes it address the message, has the kernel save the message    *)
(* with DS:SI at the table, and frees the selector.                        *)
(*                                                                         *)
(* Each call jumps through the pointer DevHelp2, which lies in the flat    *)
(* segment, and the table (msg_seg) lies in DATA16: what the routine does  *)
(* depends on what DS and ES hold at each step.  A read of msg_seg through *)
(* the flat segment gives some other word of memory, and a jump through    *)
(* DevHelp2 by way of DATA16 goes anywhere: pc = "wild".                   *)
(*                                                                         *)
(* The message is logged at initialisation, by one thread.  A DevHelp      *)
(* service that succeeds returns AX = 0, as the routine expects.           *)
(*                                                                         *)
(* As in Mwdd32, a definition with a suffix is a faulty variant.           *)
(***************************************************************************)
EXTENDS Naturals

CONSTANTS
  Selectors,    \* the selectors of the GDT that drivers may allocate
  Other         \* what is read from a wrong place

VARIABLES
  pc,
  ds, es,       \* the segments DS and ES address
  msg_seg,      \* the selector in the message table
  ax,           \* the selector passed to DevHlp_FreeGDTSelector
  held,         \* selectors the kernel has given and not taken back
  refused,      \* those it was asked to take back and did not
  mapped,       \* those of held that address the message of the call
  rc,           \* the variable rc of the routine
  result        \* what the last call returned

vars == <<pc, ds, es, msg_seg, ax, held, refused, mapped, rc, result>>
registers == <<ds, es>>

Segments == {"FLAT", "DATA16"}
Codes == {"no_error", "error"}

Init ==
  /\ pc = "idle"
  /\ ds = "FLAT" /\ es = "FLAT"
  /\ msg_seg = Other      \* msg_seg dw ?
  /\ ax = Other
  /\ held = {} /\ refused = {} /\ mapped = {}
  /\ rc = "no_error" /\ result = "no_error"

Goto(step) == pc' = step

(* @@error: the registers of the caller are popped.                        *)
Leave(code) ==
  /\ Goto("idle")
  /\ ds' = "FLAT" /\ es' = "FLAT"
  /\ result' = code
-----------------------------------------------------------------------------
call_SaveMessage ==
  /\ pc = "idle"
  /\ Goto("alloc")
  /\ es' = "DATA16"
  /\ rc' = "no_error"
  /\ mapped' = {}
  /\ UNCHANGED <<ds, msg_seg, ax, held, refused, result>>

(* DevHlp_AllocGDTSelector stores the selector at ES:DI.                   *)
alloc ==
  /\ pc = "alloc"
  /\ ds = "FLAT"
  /\ \/ \E s \in Selectors \ held :
          /\ held' = held \cup {s}
          /\ msg_seg' = s
          /\ Goto("map")
          /\ UNCHANGED <<registers, result>>
     \/ Leave("error") /\ UNCHANGED <<held, msg_seg>>
  /\ UNCHANGED <<ax, refused, mapped, rc>>

map_NotExchanged ==
  /\ pc = "map"
  /\ ds = "FLAT"
  /\ mapped' = {msg_seg}
  /\ Goto("save")
  /\ UNCHANGED <<registers, rc, msg_seg, ax, held, refused, result>>

(* DevHlp_LinToGDTSelector; when it fails, DS and ES are not exchanged.    *)
map ==
  /\ pc = "map"
  /\ ds = "FLAT"
  /\ \/ /\ mapped' = {msg_seg}
        /\ rc' = "no_error"
        /\ ds' = es /\ es' = ds
        /\ Goto("save")
     \/ /\ rc' = "error"
        /\ Goto("error_2")
        /\ UNCHANGED <<registers, mapped>>
  /\ UNCHANGED <<msg_seg, ax, held, refused, result>>

save_SkipsFree ==
  /\ pc = "save"
  /\ es = "FLAT"
  /\ \/ Goto("error_2") /\ UNCHANGED <<registers, result>>
     \/ Leave("error")
  /\ UNCHANGED <<msg_seg, ax, held, refused, mapped, rc>>

(* DevHlp_Save_Message, called through ES; when it fails, rc keeps the     *)
(* code of the call before.                                                *)
save ==
  /\ pc = "save"
  /\ es = "FLAT"
  /\ rc' \in {"no_error", rc}
  /\ Goto("error_2")
  /\ UNCHANGED <<registers, msg_seg, ax, held, refused, mapped, result>>

(* @@error_2: msg_seg is read through DS, then DS becomes ES.              *)
error_2 ==
  /\ pc = "error_2"
  /\ ax' = IF ds = "DATA16" THEN msg_seg ELSE Other
  /\ ds' = es
  /\ Goto("free")
  /\ UNCHANGED <<es, msg_seg, held, refused, mapped, rc, result>>

(* DevHlp_FreeGDTSelector; its error takes the place of rc.                *)
free ==
  /\ pc = "free"
  /\ ds = "FLAT"
  /\ \/ held' = held \ {ax} /\ Leave(rc) /\ UNCHANGED refused
     \/ refused' = refused \cup {ax} /\ Leave("error") /\ UNCHANGED held
  /\ UNCHANGED <<msg_seg, ax, mapped, rc>>

(* A call through DevHelp2 by way of the wrong segment.                    *)
jump_wild ==
  /\ \/ pc \in {"alloc", "map", "free"} /\ ds # "FLAT"
     \/ pc = "save" /\ es # "FLAT"
  /\ Goto("wild")
  /\ UNCHANGED <<registers, msg_seg, ax, held, refused, mapped, rc, result>>
-----------------------------------------------------------------------------
Next == call_SaveMessage \/ alloc \/ map \/ save \/ error_2 \/ free \/ jump_wild

Spec == Init /\ [][Next]_vars
-----------------------------------------------------------------------------
TypeOK ==
  /\ pc \in {"idle", "alloc", "map", "save", "error_2", "free", "wild"}
  /\ ds \in Segments /\ es \in Segments
  /\ msg_seg \in Selectors \cup {Other} /\ ax \in Selectors \cup {Other}
  /\ held \subseteq Selectors /\ refused \subseteq held /\ mapped \subseteq Selectors
  /\ rc \in Codes /\ result \in Codes

(* When the kernel is asked to save a message, it is reached through the   *)
(* flat segment and finds at DS:SI the table of the driver, with a selector*)
(* of this call that addresses this message.                               *)
TableNamesMessage ==
  pc = "save" =>
    /\ ds = "DATA16" /\ es = "FLAT"
    /\ msg_seg \in mapped /\ msg_seg \in held \ refused

(* No call loses a selector: as long as the kernel can be reached, each    *)
(* gives back the one that it allocated itself, and none that it gave back *)
(* before; and once a call has returned, with or without an error, nothing *)
(* is allocated but what the kernel refused to take back.                  *)
NothingLeftAllocated ==
  /\ pc = "free" /\ ds = "FLAT" => ax = msg_seg /\ ax \in held \ refused
  /\ pc = "idle" => held = refused

(* DevHlp32_SaveMessage.asm:142-143: "pop ds ; FLAT", ASSUME DS:FLAT.  The *)
(* data segment is the flat one again when the selector is freed, whatever *)
(* call failed before.                                                     *)
DsIsFlatAgain == pc = "free" => ds = "FLAT"
=============================================================================

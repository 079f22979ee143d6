-------------------------- MODULE DevHelpInterface --------------------------
(***************************************************************************)
(* include/os2/devhlp32.h and fsh32.h: what a 32-bit driver may call.  The *)
(* services of mwdd32.sys are reached through a table of entry points that *)
(* mwdd32.sys initializes and hands out, in the layout of the version that *)
(* introduced the service; the routines of fsh32.lib are linked.           *)
(***************************************************************************)
EXTENDS Naturals, Sequences

(* Parameters: the bytes of their values, or Answer for a pointer through  *)
(* which the routine itself stores what the kernel answers.                *)
Long == 4      \* long, int, a pointer, and a PTR16
Short == 2     \* short, and an int of which the low half matters
Answer == 0

System(version, args) == [optlink |-> FALSE, version |-> version, args |-> args]
Optlink(version, args) == [optlink |-> TRUE, version |-> version, args |-> args]
Linked == 0    \* no version: the routine is linked to the driver

-----------------------------------------------------------------------------
(* struct DevHelp32: what each version of the table adds to the one before. *)

DEVHELP32_VERSION == 7

version_1 == <<"SaveMessage", "InternalError", "VMAlloc", "VMFree", "VMLock", "VMUnlock",
  "VirtToLin", "ProcBlock", "ProcRun", "LinToPageList", "Security", "Yield">>
version_2 == version_1 \o
  <<"GetInfoSegs", "vsprintf", "strtoul", "atol", "strupr", "strpbrk", "fnmatch">>
version_3 == version_2 \o <<"strtol">>
version_4 == version_3 \o <<"sec32_attach_ses">>
\* A mutant: what the header lists in another order than the initializer.
version_5_Reordered == version_4 \o <<"setIRQ", "UnSetIRQ", "EOI">>
version_5 == version_4 \o <<"setIRQ", "EOI", "UnSetIRQ">>
version_6 == version_5 \o
  <<"PageListToLin", "AllocGDTSelector", "FreeGDTSelector", "AttachDD", "GetDosVar">>
version_7 == version_6 \o
  <<"VerifyAccess", "CloseEventSem", "OpenEventSem", "PostEventSem", "ResetEventSem">>

Layouts == <<version_1, version_2, version_3, version_4, version_5, version_6, version_7>>

(* The entry points of mwdd32.sys, in the order in which they initialize   *)
(* the table.                                                              *)
DevHlp32 == <<
  "SaveMessage", "InternalError", "VMAlloc", "VMFree", "VMLock", "VMUnlock", "VirtToLin",
  "ProcBlock", "ProcRun", "LinToPageList", "Security", "Yield", "GetInfoSegs", "vsprintf",
  "strtoul", "atol", "strupr", "strpbrk", "fnmatch", "strtol", "sec32_attach_ses", "setIRQ",
  "EOI", "UnSetIRQ", "PageListToLin", "AllocGDTSelector", "FreeGDTSelector", "AttachDD",
  "GetDosVar", "VerifyAccess", "CloseEventSem", "OpenEventSem", "PostEventSem",
  "ResetEventSem">>

-----------------------------------------------------------------------------
(* The prototypes of the services, with the version of the table in whose  *)
(* layout the inline function of the header looks for the entry point.     *)

VerifyAccess == System(7, <<Long, Short, Short>>)
OpenEventSem == System(7, <<Long>>)
CloseEventSem == System(7, <<Long>>)
PostEventSem == System(7, <<Long>>)
ResetEventSem == System(7, <<Long, Long>>)
VMLock == System(1, <<Long, Long, Long, Long, Long, Answer>>)
setIRQ == System(5, <<Short, Short, Short, Short>>)
EOI == Optlink(5, <<Short>>)
AllocGDTSelector == System(6, <<Long, Long>>)
FreeGDTSelector == Optlink(6, <<Short>>)
UnSetIRQ == System(5, <<Short, Short>>)
VMUnlock == System(1, <<Long>>)
VMAlloc == System(1, <<Long, Long, Long, Answer>>)
VMFree == Optlink(1, <<Long>>)
VirtToLin == System(1, <<Long, Answer>>)
GetDosVar == System(6, <<Long, Answer, Long>>)
Security == System(1, <<Long, Long>>)
AttachDD == System(6, <<Long, Long>>)
ProcBlock == System(1, <<Long, Long, Short>>)
ProcRun == System(1, <<Long>>)
PageListToLin == System(6, <<Long, Long, Answer>>)
LinToPageList == System(1, <<Long, Long, Long, Answer>>)
GetInfoSegs == System(2, <<Answer, Answer>>)
SaveMessage == System(1, <<Long, Long>>)
InternalError == System(1, <<Long, Long>>)
Yield == System(1, <<>>)
sec32_attach_ses == System(4, <<Long>>)
vsprintf == System(2, <<Long, Long, Long>>)
strtoul == System(2, <<Long, Long, Long>>)
strtol == System(3, <<Long, Long, Long>>)
atol == System(2, <<Long>>)
strupr == System(2, <<Long>>)
strpbrk == System(2, <<Long, Long>>)
fnmatch == System(2, <<Long, Long, Long>>)

(* Routines of mwdd32.sys that the services of these names are built on.   *)
AllocOneGDTSelector == System(Linked, <<Answer>>)
AttachToDD == Optlink(Linked, <<Long, Long>>)

segalloc == System(Linked, <<Short, Long, Answer>>)
qsysinfo == System(Linked, <<Short, Answer>>)
getvolparm == System(Linked, <<Short, Answer, Answer>>)
devioctl == System(Linked, <<Short, Long, Short, Short, Short, Long, Short, Long, Short>>)
findduphvpb == System(Linked, <<Short, Answer>>)
forcenoswap == Optlink(Linked, <<Short>>)
addshare == System(Linked, <<Long, Short, Short, Answer>>)
removeshare == Optlink(Linked, <<Long>>)
setvolume == Optlink(Linked, <<Short, Long>>)
ioboost == System(Linked, <<>>)

Declared ==
  [ VerifyAccess |-> VerifyAccess, OpenEventSem |-> OpenEventSem,
    CloseEventSem |-> CloseEventSem, PostEventSem |-> PostEventSem,
    ResetEventSem |-> ResetEventSem, VMLock |-> VMLock, setIRQ |-> setIRQ, EOI |-> EOI,
    AllocGDTSelector |-> AllocGDTSelector, FreeGDTSelector |-> FreeGDTSelector,
    UnSetIRQ |-> UnSetIRQ, VMUnlock |-> VMUnlock, VMAlloc |-> VMAlloc, VMFree |-> VMFree,
    VirtToLin |-> VirtToLin, GetDosVar |-> GetDosVar, Security |-> Security,
    AttachDD |-> AttachDD, ProcBlock |-> ProcBlock, ProcRun |-> ProcRun,
    PageListToLin |-> PageListToLin, LinToPageList |-> LinToPageList,
    GetInfoSegs |-> GetInfoSegs, SaveMessage |-> SaveMessage,
    InternalError |-> InternalError, Yield |-> Yield,
    sec32_attach_ses |-> sec32_attach_ses, vsprintf |-> vsprintf, strtoul |-> strtoul,
    strtol |-> strtol, atol |-> atol, strupr |-> strupr, strpbrk |-> strpbrk,
    fnmatch |-> fnmatch, AllocOneGDTSelector |-> AllocOneGDTSelector,
    AttachToDD |-> AttachToDD, segalloc |-> segalloc, qsysinfo |-> qsysinfo,
    getvolparm |-> getvolparm, devioctl |-> devioctl, findduphvpb |-> findduphvpb,
    forcenoswap |-> forcenoswap, addshare |-> addshare, removeshare |-> removeshare,
    setvolume |-> setvolume, ioboost |-> ioboost ]

(* The prototypes of these declare void, a number or a text; all the other *)
(* ones an int that is NO_ERROR or the code of an error.                   *)
NoCode == {"InternalError", "Yield", "ProcRun", "removeshare", "ioboost", "vsprintf",
           "strtoul", "strtol", "atol", "strupr", "strpbrk"}
ReturnsCode == DOMAIN Declared \ NoCode

(* The table that a driver has been handed, and where a call of it leads.  *)
Table == SubSeq(DevHlp32, 1, Len(Layouts[DEVHELP32_VERSION]))
Slot(r) ==
  LET layout == Layouts[Declared[r].version]
  IN CHOOSE i \in DOMAIN layout : layout[i] = r
Reached(r) == IF Declared[r].version = Linked THEN r ELSE Table[Slot(r)]
=============================================================================

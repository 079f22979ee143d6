------------------------- MODULE SecurityCallbacks -------------------------
(***************************************************************************)
(* skeleton/ses: what the security driver does for the kernel once its     *)
(* entry points are registered.  A path is a sequence of characters.       *)
(***************************************************************************)
EXTENDS Fnmatch

NO_ERROR == "NO_ERROR"
ERROR_ACCESS_DENIED == "ERROR_ACCESS_DENIED"
ERROR_INVALID_PARAMETER == "ERROR_INVALID_PARAMETER"

Separators == {"\\", "/"}

(* The offset where the loop from the terminating null character stops.    *)
LastSeparator(path) ==
  LET found == {i \in DOMAIN path : i > 1 /\ path[i] \in Separators}
  IN IF found = {} THEN 0 ELSE (CHOOSE i \in found : \A j \in found : j <= i) - 1

ConfigMask == <<"C", "O", "N", "F", "I", "G", ".", "*">>

(* The letters of the name count as they are written.                      *)
OPEN_PRE_CaseCounts(path) ==
  LET i == LastSeparator(path)
  IN IF i = 0 THEN ERROR_INVALID_PARAMETER
     ELSE IF fnmatch(ConfigMask, Drop(path, i + 1), "OS2", {}) = "MATCH"
       THEN ERROR_ACCESS_DENIED ELSE NO_ERROR

OPEN_PRE(path) ==
  LET i == LastSeparator(path)
  IN IF i = 0 THEN ERROR_INVALID_PARAMETER
     ELSE IF fnmatch(ConfigMask, Drop(path, i + 1), "OS2", {"IGNORECASE"}) = "MATCH"
       THEN ERROR_ACCESS_DENIED ELSE NO_ERROR

OPEN_POST(path, RC) == NO_ERROR

(* The entry points in the order of the structure, null where there is none. *)
SecurityImports == <<
  "OPEN_PRE", "OPEN_POST",
  "null", "null", "null", "null",        \* READ_PRE, _POST, WRITE_PRE, _POST
  "null", "null",                        \* CLOSE, CHGFILEPTR
  "null", "null", "null", "null",        \* DELETE_PRE, _POST, MOVE_PRE, _POST
  "null", "null", "null", "null",        \* LOADEROPEN, GETMODULE, EXECPGM, FINDFIRST
  "null", "null", "null", "null",        \* CALLGATE16, CALLGATE32, SETFILESIZE, QUERYFILEINFO
  "null", "null", "null", "null",        \* MAKEDIR, CHANGEDIR, REMOVEDIR, FINDNEXT
  "null", "null", "null", "null",        \* FINDFIRST3X, FINDCLOSE, FINDFIRSTNEXT3X, FINDCLOSE3X
  "null", "null", "null",                \* EXECPGMPOST, CREATEVDM, CREATEVDMPOST
  "null", "null", "null", "null",        \* SETDATETIME, SETFILEINFO, SETFILEMODE, SETPATHINFO
  "null", "null",                        \* DEVIOCTL, TRUSTEDPATHCONTROL
  "null", "null", "null", "null",        \* STARTEVENT, WAITEVENT, RETURNEVENTSTATUS, REGISTERDAEMON
  "null", "null", "null",                \* RETURNWAITEVENT, CREATE- and DELETESUBJECTHANDLE
  "null", "null", "null", "null",        \* SETSUBJECTHANDLE, QUERYSUBJECTHANDLE, -INFO, -HANDLEINFO
  "null", "null", "null", "null",        \* SET- and QUERYCONTEXTSTATUS, SET- and QUERYSECURITYCONTEXT
  "null", "null", "null", "null",        \* QUERYAUTHORITYID, CREATEINSTANCE-, RESERVE-, RELEASESUBJECTHANDLE
  "null", "null", "null", "null",        \* QUERYPROCESSINFO, KILLPROCESS, INACTIVITYNOTIFY, CONTROLPROCESSCREATION
  "null", "null", "null", "null">>       \* RESETTHREADCONTEXT, CREATE-, DELETEHANDLENOTIFY, CONTROLKBDMONITORS

(* The places of the structure that an open goes through.                  *)
PreOpenSlot == 1
PostOpenSlot == 2

Callback(slot, path, RC) ==
  CASE SecurityImports[slot] = "OPEN_PRE" -> OPEN_PRE(path)
    [] SecurityImports[slot] = "OPEN_POST" -> OPEN_POST(path, RC)
    [] OTHER -> NO_ERROR

(* The kernel opens a file of that path: the first callback may refuse, the *)
(* second one is told how it went.                                         *)
AfterPre(path, pre) == IF pre # NO_ERROR THEN pre ELSE Callback(PostOpenSlot, path, pre)
KernelOpen(path) == AfterPre(path, Callback(PreOpenSlot, path, NO_ERROR))
=============================================================================

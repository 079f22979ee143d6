----------------------------- MODULE PathCalls -----------------------------
(***************************************************************************)
(* Calls of fnmatch and opens of files under the security driver that uses *)
(* it, for many masks, names and paths.                                    *)
(***************************************************************************)
EXTENDS FnmatchCalls, SecurityCallbacks

CONSTANT OpenedPaths   \* of the files that are opened

ASSUME PathsAssumption ==
  \A path \in OpenedPaths : path \in Seq(STRING) /\ \A i \in DOMAIN path : path[i] # NoChar

PathInit ==
  /\ \/ call \in [fn : {"open"}, path : OpenedPaths]
     \/ FnmatchInit
  /\ answer = <<>>

call_open ==
  /\ call.fn = "open" /\ answer = <<>>
  /\ answer' = <<KernelOpen(call.path)>>
  /\ UNCHANGED call

PathNext == call_fnmatch \/ call_open

PathSpec == PathInit /\ [][PathNext]_callVars
-----------------------------------------------------------------------------
RaisedLetter(c) ==
  IF \E i \in DOMAIN LowerLetters : LowerLetters[i] = c
    THEN UpperLetters[CHOOSE i \in DOMAIN LowerLetters : LowerLetters[i] = c] ELSE c
InUpperCase(s) == [i \in DOMAIN s |-> RaisedLetter(s[i])]
StartOfName(path) ==
  {k \in 2..Len(path) : path[k] \in Separators
                        /\ \A j \in (k + 1)..Len(path) : path[j] \notin Separators}

Config == SubSeq(ConfigMask, 1, 6)
ConfigSys == Config \o <<".", "S", "Y", "S">>

(* The security driver refuses every file with the name CONFIG and any     *)
(* extension in every directory, whatever the case, lets all others pass,  *)
(* also those with a colon, which no file system has, and does not know    *)
(* what to do without a directory (sec32_OPEN_PRE.c:39-63: "prevents ANY   *)
(* access to files named CONFIG.SYS").                                     *)
OpensAreFiltered ==
  Answered("open") =>
    /\ \A k \in StartOfName(call.path) :
         LET file == InUpperCase(Drop(call.path, k))
         IN answer[1] = IF /\ file = Config \/ IsPrefix(Append(Config, "."), file)
                           /\ ~Colon(file, 0)
                          THEN ERROR_ACCESS_DENIED ELSE NO_ERROR
    /\ StartOfName(call.path) = {} => answer[1] = ERROR_INVALID_PARAMETER
    /\ answer[1] = NO_ERROR =>
         \A k \in 0..Len(call.path) :
           k = 0 \/ call.path[k] \in Separators => InUpperCase(Drop(call.path, k)) # ConfigSys
=============================================================================

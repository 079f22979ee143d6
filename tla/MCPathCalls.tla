---------------------------- MODULE MCPathCalls ----------------------------
(* The arguments for model-checking PathCalls.                             *)
EXTENDS PathCalls

(* OS/2 and DOS: components, dots, wildcards; and letters of both cases.   *)
Paths ==
  [items |-> {Lit("a"), Lit("."), Lit("/"), AnyChar, Star}, mask_length |-> 4,
   chars |-> {"a", ".", "/"}, name_length |-> 3,
   styles |-> {"OS2", "DOS"}, options |-> {{}, {"PATHPREFIX"}}]

Cases ==
  [items |-> {Lit("a"), Lit("A"), Lit("."), Star}, mask_length |-> 3,
   chars |-> {"a", "A", "."}, name_length |-> 3,
   styles |-> {"OS2", "DOS"}, options |-> {{}, {"IGNORECASE"}}]

(* Every kind of item, with the options that change what an item means.    *)
Wildcards ==
  [items |-> {Lit("a"), Lit("."), Lit("/"), Lit("*"), AnyChar, Star,
              Set(<< <<"]", "]">>, <<"a", "b">> >>), NegatedSet(<< <<"a", "a">> >>)},
   mask_length |-> 3,
   chars |-> {"a", ".", "/", "*"}, name_length |-> 3,
   styles |-> {"POSIX"},
   options |-> {{}, {"PATHNAME", "PERIOD"}, {"PATHNAME", "PERIOD", "PATHPREFIX"}}]

(* Brackets that are never closed, and backslashes with FNM_NOESCAPE.      *)
Literals ==
  [items |-> {Lit("["), Lit("!"), Lit("-"), Lit("\\"), Lit("a"), AnyChar, Star},
   mask_length |-> 3,
   chars |-> {"a", "[", "!", "-", "\\"}, name_length |-> 3,
   styles |-> {"POSIX"}, options |-> {{"NOESCAPE"}}]

(* Backslashes that escape nothing, at the end of a mask, behind a trailing *)
(* separator and in a bracket that is never closed.                        *)
Backslashes ==
  [items |-> {Lit("["), Lit("/"), Lit("a"), Star, Backslash},
   mask_length |-> 3,
   chars |-> {"a", "[", "/"}, name_length |-> 3,
   styles |-> {"POSIX"}, options |-> {{}, {"PATHNAME", "PATHPREFIX"}}]

TwoMemberSets ==
  [items |-> {NegatedSet(<< <<"a", "a">>, <<"b", "b">> >>)}, mask_length |-> 1,
   chars |-> {"a", "b", "c"}, name_length |-> 1,
   styles |-> {"POSIX"}, options |-> {{}}]

MCSuites == {Paths, Cases, Wildcards, Literals, Backslashes}
NegatedSuites == {TwoMemberSets}

(* A path is made of these.                                                *)
PathPieces ==
  {<<"\\">>, <<"/">>, <<".">>, <<":">>, <<"a">>, <<"S", "Y", "S">>,
   <<"C", "O", "N", "F", "I", "G">>, <<"c", "o", "n", "f", "i", "g">>}

MCOpenedPaths ==
  {drive \o FlattenSeq(pieces) : drive \in {<<>>, <<"C", ":">>}, pieces \in Strings(PathPieces, 5)}

None == {}
=============================================================================

---------------------------- MODULE MCUtilCalls ----------------------------
(* The arguments for model-checking UtilCalls: those for its three parts.  *)
EXTENDS UtilCalls, MCStringCalls, MCPathCalls

FormatArguments == INSTANCE MCVsprintfCalls WITH Fields <- {}, Pieces <- {}

MCFields == FormatArguments!MCFields
MCPieces == FormatArguments!MCPieces
=============================================================================

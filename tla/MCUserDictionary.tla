--------------------------- MODULE MCUserDictionary ---------------------------
(* One dictionary tool, the sync process and the converter.  *)
EXTENDS UserDictionary
=============================================================================

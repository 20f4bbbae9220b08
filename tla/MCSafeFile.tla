----------------------------- MODULE MCSafeFile -----------------------------
(* oldval holds two bytes; values are shorter, just as long or longer.      *)
EXTENDS SafeFile

MCInitial == <<1>>
AnyLength == {<<>>, <<1>>, <<2, 1>>, <<2, 1, 1>>}
=============================================================================

----------------------------- MODULE MCHatchApp -----------------------------
(* A client "ann" that knows one other user, "bob", and a server that both *)
(* log in to.                                                              *)
EXTENDS HatchApp

ClientIncoming ==
  { Msg("Login", "S", "server", NoAddr), Msg("Login", "S", "error", NoAddr),
    Msg("Update", "S", "ann", "A"), Msg("Update", "S", "bob", "B"),
    Msg("Text", "B", "bob", NoAddr), Msg("BackSyn", "B", "bob", "B"),
    Msg("Logout", "S", "ann", NoAddr), Msg("Logout", "S", "bob", NoAddr) }

ServerIncoming ==
  { Msg("Login", "A", "ann", NoAddr), Msg("Login", "B", "bob", NoAddr),
    Msg("Login", "B", "ann", NoAddr), Msg("Logout", "A", "ann", NoAddr),
    Msg("Update", "B", "bob", "B"), Msg("garbled", "B", "bob", "B") }
=============================================================================

------------------------- MODULE MCWebsocketSession -------------------------
(* Two repositories that can be read and one that cannot; messages for the   *)
(* repositories, for all of them, for another user and for another group.    *)
EXTENDS WebsocketSession

MCRepos == {"r1", "r2", "dropbox"}
MCReadable == {"r1", "r2"}
Message(r, u, g) == [repo |-> r, user |-> u, group |-> g]
MCMessages ==
  {Message("r1", "", ""), Message("dropbox", "mine", ""), Message("*", "", "other"),
   Message("*", "other", "")}
=============================================================================

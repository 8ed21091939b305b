----------------------------- MODULE MCEncoders -----------------------------
(* A directory with a parent of its own type, a value that may be of any   *)
(* type, here a file, which has a channel that cannot be encoded. The      *)
(* first goroutine meets the channel, the second one does not.             *)
EXTENDS Encoders

MCTypes == {"dir", "ptr", "any", "file", "chan"}
MCElements ==
  [dir |-> <<"ptr", "any">>, ptr |-> <<"dir">>, any |-> <<"file">>,
   file |-> <<"ptr", "chan">>, chan |-> <<>>]
MCNilable == {"ptr", "any"}
MCDynamic == {"any"}
MCUnsupported == {"chan"}
MCGoroutines == {1, 2}
MCMarshalled == <<"dir", "ptr">>
=============================================================================

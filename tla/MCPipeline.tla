----------------------------- MODULE MCPipeline -----------------------------
(* Two requests of the two kinds of chain in the repository's configurations. *)
(* The upload has a rule for the node of its path, then one for a token, and  *)
(* the upload handler reads both. The proxy has the auth of its query, the    *)
(* same rule for the token, and a rule that answers with the body of a        *)
(* response. The rule for the token sends no cookie, so that it reads the     *)
(* auth and may wait for the token that it provides itself; it has three      *)
(* static headers in an array of four. Two headers of the upload match, one   *)
(* of the proxy. One worker, for which all their jobs compete.                *)
EXTENDS Pipeline

ARule(type, out, cookies, array) ==
  [type |-> type, out |-> out, cookies |-> cookies, array |-> array]

NodeRule == ARule("node", "node", FALSE, NoArray)
AuthRule == ARule("auth", "auth", FALSE, NoArray)
TokenRule == ARule("request", "token", FALSE, "four")
BodyRule == ARule("request", "body", TRUE, NoArray)

MCRequests == {"upload", "proxy"}
MCRules == [upload |-> <<NodeRule, TokenRule>>, proxy |-> <<AuthRule, TokenRule, BodyRule>>]
MCNextReads == <<"node", "token">>
MCMatching == [upload |-> {"x", "y"}, proxy |-> {"p"}]
MCWorkers == {1}

\* Two requests of one rule, each with a header of its own: with two matching
\* headers the last one would do, whoever has appended it.
MCHeaderRules == [q \in MCRequests |-> <<ARule("request", "options", FALSE, "four")>>]
MCHeaderNextReads == <<"options">>
MCHeaderMatching == [upload |-> {"x"}, proxy |-> {"p"}]
=============================================================================

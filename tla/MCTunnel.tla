------------------------------ MODULE MCTunnel ------------------------------
(* What a client may start over MCP, asked of one run: two tunnel commands   *)
(* on one target, with two process ids to reuse (Tunnel), and the session of *)
(* the client (McpSession).  They share no state here: a behaviour is about  *)
(* one of them.                                                              *)
EXTENDS Tunnel, McpSession

CONSTANTS c1, c2, p1, p2

VARIABLE subject

Good == [wellFormed |-> TRUE, confirm |-> "absent", dry |-> "absent", profile |-> "known"]
Confirmed == [Good EXCEPT !.confirm = "true"]

MCMessage ==
    {[method |-> w] : w \in PlainMethods \cup {"none", "no object", "bad call"}}
    \cup {Call("docs.list", [Good EXCEPT !.profile = "unknown"]), Call("unknown", Good), Call("models.list", Good),
          Call("models.list", Confirmed), Call("tunnel.status", Good),
          Call("models.use", Good), Call("models.use", Confirmed),
          Call("models.use", [Confirmed EXCEPT !.profile = "unknown"]),
          Call("models.use", [Confirmed EXCEPT !.confirm = "text"]),
          Call("models.refresh", Confirmed),
          Call("models.refresh", [Good EXCEPT !.dry = "true"]),
          Call("models.refresh", [Confirmed EXCEPT !.dry = "false"])}

MCInit == subject \in {"tunnel", "session"} /\ Init /\ McpInit

MCNext ==
    /\ UNCHANGED subject
    /\ \/ subject = "tunnel" /\ Next /\ UNCHANGED mcpVars
       \/ subject = "session" /\ McpNext /\ UNCHANGED vars

MCSpec == MCInit /\ [][MCNext]_<<subject, vars, mcpVars>>
=============================================================================

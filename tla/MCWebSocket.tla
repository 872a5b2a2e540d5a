----------------------------- MODULE MCWebSocket -----------------------------
(* WebSocket on small bounds: on both sides, plain, through TLS or a proxy. *)
EXTENDS WebSocket
MCStacks == {{}, {"tls"}, {"proxy"}}
MCHeard(k) == IF k = {} THEN Units ELSE {"good", "noupgrade", "close", "notify"}
=============================================================================

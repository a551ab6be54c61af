--------------------------- MODULE MCProxyControl ---------------------------
(* Two terminals run two commands in all, of which each may be killed, on a *)
(* machine where Keydris never ran or already runs.                         *)
EXTENDS ProxyControl
=============================================================================

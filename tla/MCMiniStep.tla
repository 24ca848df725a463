----------------------------- MODULE MCMiniStep -----------------------------
(* MiniStep for TLC: a function that touches the watched address and prints *)
(* a byte with uart_put8, and one that only returns.                        *)
EXTENDS MiniStep

MCProg == <<"op", "touch", "poll", "br", "put", "bx", "bx">>
MCEntries == {1, 7}
=============================================================================

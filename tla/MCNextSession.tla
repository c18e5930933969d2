--------------------------- MODULE MCNextSession ----------------------------
(* Two tabs, two users, and a flow for each tab and for the cookie.        *)
EXTENDS NextSession

CONSTANTS tab1, tab2, ada, root, f1, f2, f3
=============================================================================

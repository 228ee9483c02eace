--------------------------- MODULE MCControlPanel ---------------------------
(* Two pages with forms: f and g post to the address, h, on the page of f,   *)
(* to a url of its own. Saving g keeps its page.                             *)
EXTENDS ControlPanel

CONSTANTS home, p, q, f, g, h

MCPageOf == [x \in Forms |-> IF x = g THEN q ELSE p]
=============================================================================

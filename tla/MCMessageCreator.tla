-------------------------- MODULE MCMessageCreator --------------------------
(* Two messages of the bot, one of each type, and one of somebody else.      *)
EXTENDS MessageCreator

CONSTANTS m1, m2, m3

\* A name is not a number: here it is not a natural one. The second is the
\* first with white space around it.
MCNames == {-2, -3}
MCTrim == [s \in MCNames |-> -2]
OnlyPrefix == WireId(TRUE, Blank)

MCExisting ==
  [m \in Messages |->
     CASE m = m1 -> [mode |-> "normal", content |-> {"text", "other"},
                     comps |-> <<Row(<<OnlyPrefix, WireId(TRUE, 0)>>)>>]
       [] m = m2 -> [mode |-> "componentsv2", content |-> {},
                     comps |-> <<Box(<<Row(<<WireId(FALSE, -2)>>)>>), Text>>]
       [] OTHER  -> [mode |-> "normal", content |-> {"embed", "time"},
                     comps |-> <<Row(<<WireId(TRUE, -3)>>)>>]]
=============================================================================

---------------------------- MODULE MCBiliPacket ----------------------------
(* A small instance of BiliPacket for TLC.                                 *)
EXTENDS BiliPacket

P(k, b)     == [kind |-> k, body |-> b, inside |-> <<>>]
Packed(row) == [kind |-> "zip", body |-> 0, inside |-> row]

\* Two packets behind a compressed one, one that ends the row inside, one
\* that ends everything inside, and popularity behind JSON of either kind.
SomeMessages ==
  {<<Packed(<<P("chat", 1), P("online", 2)>>), P("chat", 3)>>,
   <<Packed(<<P("chat", 4), P("cut", 0), P("chat", 5)>>), P("broken", 6), P("online", 7)>>,
   <<P("other", 0), P("foreign", 10), Packed(<<P("chat", 8), P("bad", 0)>>), P("chat", 9)>>}
=============================================================================

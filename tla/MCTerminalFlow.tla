--------------------------- MODULE MCTerminalFlow ---------------------------
(* TerminalFlow with small windows; MaxChunks and MaxOthers bound its length. *)
EXTENDS TerminalFlow

App(window, does) == [window |-> window, does |-> does]

\* Everything may happen, in a window that outgrows the queues; everything with a
\* cautious client; neither end does anything but send and return credit, on a
\* connection that carries other notifications too.
Cases == {App(3, {"eager", "truncate", "end", "detach"}),
          App(2, {"truncate", "end", "detach"}), App(2, {"share"})}
EagerOnly == {App(3, {"eager"})}
=============================================================================

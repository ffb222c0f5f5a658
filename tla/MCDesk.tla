------------------------------- MODULE MCDesk -------------------------------
(***************************************************************************)
(* Instances of Desk: two pages race for one session that may be killed    *)
(* and slow, and a session takes the port of one whose cards are around.   *)
(***************************************************************************)
EXTENDS Desk

Bounds(sessions, pages, posts, kills, timeouts) ==
    [sessions |-> sessions, pages |-> pages, posts |-> posts, kills |-> kills, timeouts |-> timeouts]
DeskScenes == {Bounds({1}, {"a", "b"}, 2, 1, 1), Bounds({1, 2}, {"a"}, 1, 1, 0)}
=============================================================================

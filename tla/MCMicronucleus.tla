--------------------------- MODULE MCMicronucleus ---------------------------
(***************************************************************************)
(* Programs of every interesting length for three pages of six words: none,*)
(* a part of the first page (without --run), two pages, one word of the    *)
(* last, up to the tiny table, too long.  No two have a word in common.    *)
(* One is sent with a timeout; by default there is none.                   *)
(***************************************************************************)
EXTENDS Micronucleus

Program(end) ==
    [end |-> end, run |-> end # 4, timeout |-> end = 13,
     image |-> [w \in AppWords |->
        CASE w >= end      -> Blank
          [] w = 0         -> [op |-> "rjmp", arg |-> (3 * end) % 14]
          [] w = UsbVector -> [op |-> "rjmp", arg |-> end]
          [] OTHER         -> [op |-> "app", arg |-> (w + end) % FlashWords]]]

MCPrograms ==
    {Program(0), Program(4), Program(12), Program(13), Program(15), Program(16)}
MCImages   == {p.image : p \in MCPrograms}
=============================================================================

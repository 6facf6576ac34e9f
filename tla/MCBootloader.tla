---------------------------- MODULE MCBootloader ----------------------------
(***************************************************************************)
(* Small instances of Bootloader: two pages of three or four words.         *)
(***************************************************************************)
EXTENDS Bootloader

App(n) == [op |-> "app", arg |-> n]
Jump(n) == [op |-> "rjmp", arg |-> n]

\* Two applications with different vectors; the second leaves its last words
\* unprogrammed.
MCImages ==
    {[w \in AppWords |-> CASE w = 0         -> Jump(4)
                           [] w = UsbVector -> Jump(3)
                           [] OTHER         -> App(1)],
     [w \in AppWords |-> CASE w = 0         -> Jump(6)
                           [] w = UsbVector -> Jump(1)
                           [] w >= Entry - 2 -> Blank
                           [] OTHER         -> App(2)]}

OneImage ==
    {[w \in AppWords |-> CASE w = 0         -> Jump(4)
                           [] w = UsbVector -> Jump(3)
                           [] OTHER         -> App(1)]}

\* With packets of a page: inside the first page, from where packets run over its
\* end and then straddle the bootloader's entry; that entry itself; and the end
\* of the first page behind it.
MCStrayStarts == {2, 6, 9}
=============================================================================

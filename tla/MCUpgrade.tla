------------------------------ MODULE MCUpgrade ------------------------------
(***************************************************************************)
(* Pages of four words: two of vectors and padding, four of program, the   *)
(* page of the tiny table, the bootloader.  One new bootloader is shorter  *)
(* than the old one, ends inside a page and comes without vectors; one is  *)
(* longer, ends with its page, and its vectors need a second page.         *)
(***************************************************************************)
EXTENDS Upgrade

NewCode == [op |-> "boot", arg |-> 1]

Boot(n) ==
    [k \in 0 .. n - 1 |->
        CASE k \in {0, 1} -> addr2rjmp(Entry, AppReset + k)
          [] k = 2        -> Osccal
          [] OTHER        -> NewCode]

Trampolines(n) ==
    [v \in 0 .. n - 1 |-> IF v = 0 THEN ToEntry ELSE addr2rjmp(Isr, v)]

Build(n, v) ==
    [bootWords |-> n, boot |-> Boot(n),
     vectorWords |-> v, vectors |-> Trampolines(v)]

MCBuilds == {Build(5, 0), Build(11, 5)}
=============================================================================

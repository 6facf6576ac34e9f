----------------------------- MODULE MCVectors ------------------------------
(***************************************************************************)
(* PCINT1 is vector 4, as on the ATtiny167; the rest is scaled down.  Both *)
(* vectors in either form, the USB vector's rjmp forwards or backwards.    *)
(***************************************************************************)
EXTENDS Vectors

Form(jmp, from, to) ==
    IF jmp THEN <<JmpOpcode, Target(to)>> ELSE <<addr2rjmp(to, from), Nop>>

Application(jmpReset, jmpUsb, isr) ==
    LET reset == Form(jmpReset, 0, 6)
        usb   == Form(jmpUsb, UsbVector, isr)
    IN  [a \in AppWords |->
            CASE a \in {0, 1}                     -> reset[a + 1]
              [] a \in {UsbVector, UsbVector + 1} -> usb[a - UsbVector + 1]
              [] OTHER                            -> [op |-> "app", arg |-> 0]]

MCImages ==
    {Application(r, u, isr) : r \in BOOLEAN, u \in BOOLEAN, isr \in {3, 14}}
=============================================================================

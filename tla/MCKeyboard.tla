----------------------------- MODULE MCKeyboard -----------------------------
(***************************************************************************)
(* Instances of the keyboard driver for TLC: a ring of four slots holds up *)
(* to three keys, so that both indices wrap and the buffer fills.          *)
(* MCKeyboard.cfg: one reader, the way the shell reads, under the UART.    *)
(* MCKeyboardTwo.cfg: two processes that read keys at the same time.       *)
(* MCUart.cfg: characters at any time, one of them inside the handler.     *)
(***************************************************************************)
EXTENDS Uart
=============================================================================

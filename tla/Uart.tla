-------------------------------- MODULE Uart --------------------------------
(***************************************************************************)
(* The receiving half of the UART under the keyboard driver: uart.c, and   *)
(* the PL011 as init_uart() sets it up.  LCRH is written without the FIFO  *)
(* bit, so the device holds one character.  Its receive interrupt is       *)
(* raised when a character fills that register, and lowered by reading the *)
(* register or by writing ICR.                                             *)
(*                                                                         *)
(* The device does not wait for the core: a character may arrive between   *)
(* the handler's two register accesses.                                    *)
(***************************************************************************)
EXTENDS Keyboard

VARIABLES
  dr,        \* the receive holding register: a character, or Nul if empty
  ris,       \* the receive bit of UARTRIS, and of UARTMIS as it is not masked
  handler    \* uart_interrupt_handler(): "out", or "clear" before it writes ICR

uartVars == <<keyVars, dr, ris, handler>>

UartInit == Init /\ dr = Nul /\ ris = FALSE /\ handler = "out"

\* The device: a character that arrives while one is held is lost (overrun).
Receive(ch) ==
  /\ dr' = IF dr = Nul THEN ch ELSE dr
  /\ ris' = (ris \/ dr = Nul)
  /\ UNCHANGED <<keyVars, handler>>

\* uart_interrupt_handler() up to the return of keyboard_handler(), which
\* read_char() makes wait for a character to be there.
ReceiveIrq ==
  /\ handler = "out" /\ ris /\ dr # Nul
  /\ keyboard_handler(dr)
  /\ dr' = Nul /\ ris' = FALSE
  /\ handler' = "clear"

\* ... and the write to ICR after it.
ClearIrq ==
  /\ handler = "clear"
  /\ ris' = FALSE
  /\ handler' = "out"
  /\ UNCHANGED <<keyVars, dr>>

\* Processes run when the handler does not.
Reads(r) ==
  /\ handler = "out"
  /\ ReadKey(r) \/ ReadKeyWoken(r)
  /\ UNCHANGED <<dr, ris, handler>>

UartNext ==
  \/ \E ch \in Char : Receive(ch)
  \/ ReceiveIrq
  \/ ClearIrq
  \/ \E r \in Reader : Reads(r)

UartSpec == UartInit /\ [][UartNext]_uartVars

-----------------------------------------------------------------------------
\* uart.c:41: "all are level triggered interrupt".  Outside the handler, a
\* character in the register has its interrupt raised, and so will be read.
LevelTriggered == handler = "out" /\ dr # Nul => ris
=============================================================================

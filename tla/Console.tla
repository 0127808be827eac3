------------------------------ MODULE Console ------------------------------
(***************************************************************************)
(* A caller that reads a line (ReadLine) from the UART that boot found     *)
(* (Probe): which interrupt read_byte enables, and whether the timer runs, *)
(* is what boot made of the device tree.                                   *)
(***************************************************************************)
EXTENDS Probe, ReadLine

CONSTANT UartIrq     \* the interrupt the UART is wired to, uart::IRQ

vars == <<probeVars, lineVars>>

Wired == uart[1].irq = UartIrq
Ticking == timer # None

\* kernel_main has come to its end and UART is Some.
call_read_line == pc = "done" /\ uart # None /\ read_line

Reading == (call_read_line \/ Reader(Wired, Ticking)) /\ UNCHANGED probeVars
Typing == type_key /\ UNCHANGED probeVars
Boot == Probing /\ UNCHANGED lineVars

Init == ProbeInit /\ NothingRead
Next == Boot \/ Reading \/ Typing
Spec == Init /\ [][Next]_vars /\ WF_vars(Reading)

-----------------------------------------------------------------------------
\* A key that arrives while read_byte looks for one or sleeps is read, if the device
\* tree gave the UART its interrupt or the timer runs: unwrap_or(0) hands a UART
\* without an interrupt to the controller under the number 0.
KeysRead == (rd \in {"check", "wfi"} /\ fifo # <<>> /\ (Wired \/ Ticking)) ~> (rd \notin {"check", "wfi"})
=============================================================================

------------------------------ MODULE ReadLine ------------------------------
(***************************************************************************)
(* UART::read_line (uart.rs) and the receiver of the UART.  The receiver   *)
(* raises its interrupt as long as a key is waiting and the interrupt is   *)
(* not masked in the UART; wfi ends when an interrupt that is enabled at   *)
(* the controller is raised.  The caller has masked interrupts at the      *)
(* processor.  Which interrupts there are is left to Console.              *)
(***************************************************************************)
EXTENDS Naturals, Sequences

CONSTANTS
    Char,       \* the keys that print
    BufLen,     \* buf.len()
    FifoDepth,  \* the keys the receiver holds
    MaxKeys     \* bound: the keys that are typed

ASSUME LineAssumption ==
    /\ BufLen \in Nat \ {0} /\ FifoDepth \in Nat \ {0} /\ MaxKeys \in Nat
    /\ "del" \notin Char /\ "enter" \notin Char

Key == Char \cup {"del", "enter"}

VARIABLES
    rd,         \* where read_line is
    echo, count, max_len, buf,
    rxim,       \* the receive interrupt is not masked in the UART
    enabled,    \* the interrupt is enabled at the controller
    fifo,       \* the keys received and not read
    screen,     \* what is to be seen of the line after the prompt
    taken       \* history: the keys read_line has read
lineVars == <<rd, echo, count, max_len, buf, rxim, enabled, fifo, screen, taken>>

NothingRead ==
    /\ rd = "idle" /\ echo = FALSE /\ count = 0 /\ max_len = 0
    /\ buf = [i \in 1 .. BufLen |-> "zero"]
    /\ rxim = FALSE /\ enabled = FALSE /\ fifo = <<>>
    /\ screen = <<"prompt">> /\ taken = <<>>

-----------------------------------------------------------------------------
read_line ==
    /\ rd = "idle"
    /\ rd' = "byte"
    /\ echo' \in BOOLEAN
    /\ count' = 0 /\ max_len' = BufLen
    /\ UNCHANGED <<buf, rxim, enabled, fifo, screen, taken>>

\* Mutant: the receive interrupt stays masked.
read_byte_masked ==
    /\ rd = "byte"
    /\ rd' = "check"
    /\ enabled' = TRUE
    /\ UNCHANGED <<echo, count, max_len, buf, rxim, fifo, screen, taken>>

read_byte ==
    /\ rd = "byte"
    /\ rd' = "check"
    /\ rxim' = TRUE
    /\ enabled' = TRUE
    /\ UNCHANGED <<echo, count, max_len, buf, fifo, screen, taken>>

check ==
    /\ rd = "check"
    /\ rd' = IF fifo = <<>> THEN "wfi" ELSE "take"
    /\ UNCHANGED <<echo, count, max_len, buf, rxim, enabled, fifo, screen, taken>>

\* wired: the interrupt that is enabled is that of the UART; ticking: the timer
\* runs, whose interrupt ends wfi too.
Raised(wired, ticking) == (wired /\ enabled /\ rxim /\ fifo # <<>>) \/ ticking

\* The clear that follows drops the pending bit at the controller and nothing
\* else: the loop looks at the receiver next, and a key that waits there raises
\* the interrupt again.
wfi(wired, ticking) ==
    /\ rd = "wfi" /\ Raised(wired, ticking)
    /\ rd' = "check"
    /\ UNCHANGED <<echo, count, max_len, buf, rxim, enabled, fifo, screen, taken>>

\* Mutant: the echo of a deletion does not look at count.
delete_always ==
    /\ Head(fifo) = "del"
    /\ screen' = IF echo THEN SubSeq(screen, 1, Len(screen) - 1) ELSE screen
    /\ count' = IF count > 0 THEN count - 1 ELSE 0
    /\ max_len' = max_len + 1
    /\ UNCHANGED buf

delete_key ==
    /\ Head(fifo) = "del"
    /\ screen' = IF echo /\ count > 0 THEN SubSeq(screen, 1, Len(screen) - 1) ELSE screen
    /\ count' = IF count > 0 THEN count - 1 ELSE 0
    /\ max_len' = max_len + 1
    /\ UNCHANGED buf

print_key ==
    /\ Head(fifo) \in Char /\ count < BufLen
    /\ screen' = IF echo THEN Append(screen, Head(fifo)) ELSE screen
    /\ buf' = [buf EXCEPT ![count + 1] = Head(fifo)]
    /\ count' = count + 1
    /\ max_len' = max_len - 1

\* The interrupt is disabled and masked again and the key is read ...
Take ==
    /\ rd = "take"
    /\ rxim' = FALSE /\ enabled' = FALSE
    /\ fifo' = Tail(fifo)
    /\ taken' = Append(taken, Head(fifo))

\* ... and put into the line, which may be full then,
take_key ==
    /\ Take
    /\ delete_key \/ print_key
    /\ rd' = IF max_len' > 0 THEN "byte" ELSE "return"
    /\ UNCHANGED echo

\* or it is one too many for buf, which panics, already shown,
take_outside ==
    /\ Take
    /\ Head(fifo) \in Char /\ count = BufLen
    /\ screen' = IF echo THEN Append(screen, Head(fifo)) ELSE screen
    /\ rd' = "panic"
    /\ UNCHANGED <<echo, count, max_len, buf>>

\* or it ends the line.
take_enter ==
    /\ Take
    /\ Head(fifo) = "enter"
    /\ rd' = "return"
    /\ UNCHANGED <<echo, count, max_len, buf, screen>>

return_line ==
    /\ rd = "return"
    /\ rd' = "returned"
    /\ screen' = IF echo THEN Append(screen, "newline") ELSE screen
    /\ UNCHANGED <<echo, count, max_len, buf, rxim, enabled, fifo, taken>>

\* read_line once it is called
Reader(wired, ticking) ==
    \/ read_byte \/ check \/ wfi(wired, ticking)
    \/ take_key \/ take_outside \/ take_enter \/ return_line

\* Someone types.
type_key ==
    /\ rd \in {"byte", "check", "wfi", "take"}
    /\ Len(fifo) < FifoDepth /\ Len(taken) + Len(fifo) < MaxKeys
    /\ \E k \in Key : fifo' = Append(fifo, k)
    /\ UNCHANGED <<rd, echo, count, max_len, buf, rxim, enabled, screen, taken>>

LineNext ==
    \/ read_line \/ type_key
    \/ \E wired, ticking \in BOOLEAN : Reader(wired, ticking)

LineSpec == NothingRead /\ [][LineNext]_lineVars

-----------------------------------------------------------------------------
\* What a key does to the text, and to the count of the keys that deleted nothing
edit(e, key) ==
    CASE key \in Char -> [text |-> Append(e.text, key), idle |-> e.idle]
      [] key = "del" /\ e.text = <<>> -> [text |-> <<>>, idle |-> e.idle + 1]
      [] key = "del" /\ e.text # <<>> ->
            [text |-> SubSeq(e.text, 1, Len(e.text) - 1), idle |-> e.idle]
      [] OTHER -> e

\* What the keys say: the text, and how often a key deleted nothing
Edit(keys) ==
    LET after[i \in 0 .. Len(keys)] ==
            IF i = 0 THEN [text |-> <<>>, idle |-> 0] ELSE edit(after[i - 1], keys[i])
    IN  after[Len(keys)]

\* After every key the buffer holds the text as edited, the screen shows it after
\* the prompt, and the room left is exact but for the deletions of an empty line,
\* each of which adds one to max_len (uart.rs:71); only after such a deletion is a
\* key one too many for the buffer.
LineRight ==
    LET e == Edit(taken) IN
    /\ rd \in {"byte", "check", "wfi", "take"} =>
          /\ SubSeq(buf, 1, count) = e.text
          /\ count + max_len = BufLen + e.idle
          /\ screen = <<"prompt">> \o (IF echo THEN e.text ELSE <<>>)
    /\ rd = "returned" => SubSeq(buf, 1, count) = e.text
    /\ rd = "panic" => e.idle > 0
=============================================================================

----------------------------- MODULE LineShell -----------------------------
(***************************************************************************)
(* The UART shell example (Arduino Nano): rx_task assembles a line in      *)
(* g_line_buf and posts MSG_LINE_READY; cmd_task reads the buffer when it  *)
(* is dispatched.  The line itself is not in the message.                  *)
(***************************************************************************)
EXTENDS HandlerTasks

CONSTANTS Letter,     \* characters of a line
          LineBufSize,\* LINE_BUF_SIZE: 64
          ShellBurst  \* characters one activation of rx_task may find, at most
ASSUME LineBufAssumption == LineBufSize \in Nat \ {0, 1}
ASSUME BurstAssumption == ShellBurst \in Nat

NUL == "nul"
EOL == "eol"   \* '\r' or '\n'

VARIABLES
  shOs,              \* the kernel
  g_line_buf, g_assembling_len,
  typed,             \* history: the line so far, as far as the buffer has room
  exact              \* history: what g_line_buf held for the one line waiting, or << >>
shVars == <<shOs, g_line_buf, g_assembling_len, typed, exact>>

ShInit ==
  /\ shOs = Booted(<<"cmd", "rx">>)
  /\ g_line_buf = [i \in 0..LineBufSize - 1 |-> NUL]
  /\ g_assembling_len = 0
  /\ typed = << >> /\ exact = << >>

\* One character: r is the shell's part of the state, k the kernel.  "lines" counts the
\* lines posted in this activation, and "over" says that the buffer was written since.
\* Mutant: the line is not terminated.
MutEndOfLine(r) ==
  IF r.len = 0 THEN r
  ELSE [r EXCEPT !.len = 0, !.typed = << >>, !.line = r.typed, !.lines = @ + 1,
                 !.over = FALSE, !.k = Posted(r.k, "cmd", <<"line", r.len>>, 4)]
EndOfLine(r) ==
  IF r.len = 0 THEN r
  ELSE [r EXCEPT !.buf[r.len] = NUL, !.len = 0, !.typed = << >>, !.line = r.typed,
                 !.lines = @ + 1, !.over = FALSE,
                 !.k = Posted(r.k, "cmd", <<"line", r.len>>, 4)]
StoreChar(r, c) ==
  IF r.len < LineBufSize - 1
    THEN [r EXCEPT !.buf[r.len] = c, !.len = @ + 1, !.typed = Append(@, c), !.over = TRUE]
    ELSE r

OneChar(r, c) == IF c = EOL THEN EndOfLine(r) ELSE StoreChar(r, c)

\* rx_task drains the USART: its loop over the characters that came in,
Drained(start, in) ==
  LET f[i \in 0..Len(in)] == IF i = 0 THEN start ELSE OneChar(f[i - 1], in[i])
  IN f[Len(in)]
\* and its turn.
RxDrain ==
  /\ HasTurn(shOs, "rx") /\ EventOf(shOs, "rx") # INIT
  /\ \E n \in 0..ShellBurst : \E in \in [1..n -> Letter \cup {EOL}] :
       LET r == Drained([k |-> Taken(shOs, "rx"), buf |-> g_line_buf, len |-> g_assembling_len,
                         typed |-> typed, line |-> << >>, lines |-> 0, over |-> FALSE], in)
       IN /\ shOs' = Returned(r.k, "rx", Later)
          /\ g_line_buf' = r.buf /\ g_assembling_len' = r.len /\ typed' = r.typed
          /\ exact' = IF exact = << >> /\ r.lines = 1 /\ ~r.over /\ shOs.mail["cmd"] = << >>
                        THEN r.line ELSE exact

RxInit ==
  /\ HasTurn(shOs, "rx") /\ EventOf(shOs, "rx") = INIT
  /\ shOs' = Returned(Taken(shOs, "rx"), "rx", Later)
  /\ g_assembling_len' = 0
  /\ UNCHANGED <<g_line_buf, typed, exact>>

\* cmd_task prints what the buffer holds, or on INIT its banner.
CmdTurn ==
  /\ HasTurn(shOs, "cmd")
  /\ shOs' = Returned(Taken(shOs, "cmd"), "cmd", Forever)
  /\ exact' = << >>
  /\ UNCHANGED <<g_line_buf, g_assembling_len, typed>>

ShExpire == /\ "rx" \in shOs.armed /\ shOs' = Expired(shOs, "rx")
            /\ UNCHANGED <<g_line_buf, g_assembling_len, typed, exact>>

ShPass == /\ CanPass(shOs) /\ shOs' = PassedBy(shOs)
          /\ UNCHANGED <<g_line_buf, g_assembling_len, typed, exact>>

ShNext == RxDrain \/ RxInit \/ CmdTurn \/ ShExpire \/ ShPass

\* A line that ended its burst, and had no other line before it in the queue, is read by
\* cmd_task as it was typed, cut to the buffer's size: rx_task cannot run again before,
\* although the line is only in the buffer it writes.  (In a longer burst the next
\* line's characters do overwrite a line that was posted and not read.)
LineReadIntact ==
  exact # << >> => \A i \in 1..Len(exact) + 1 : g_line_buf[i - 1] = Append(exact, NUL)[i]
=============================================================================

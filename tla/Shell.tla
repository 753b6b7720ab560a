------------------------------- MODULE Shell -------------------------------
(***************************************************************************)
(* The serial shell, src/src/task_shell.c, with the interpreter of Cli.    *)
(*                                                                         *)
(* The USART3 interrupt puts each character in a message buffer; the shell *)
(* task edits a line in g_input_buffer, and at the end of the line calls   *)
(* the interpreter again and again until it says that it is done.  The     *)
(* interpreter keeps its position in static variables between the calls.   *)
(*                                                                         *)
(* Characters are the glyphs of Cli and four controls: "CR" and "LF", "BS" *)
(* for backspace and delete, "control" for any other that is not printable.*)
(***************************************************************************)
EXTENDS Cli

CONSTANTS Glyphs,        \* printable glyphs that may be typed
          InputSize,     \* SHELL_INPUT_BUFFER_SIZE
          MsgbufSize,    \* RX_MSGBUF_SIZE
          PrefixBytes,   \* the length a message buffer stores with a message
          Beyond,        \* what memory may hold after g_input_buffer, up to
                         \* the first terminator there
          NUL            \* the terminator

ASSUME InputSizeAssumption == InputSize \in Nat \ {0}
ASSUME MsgbufAssumption == MsgbufSize \in Nat /\ PrefixBytes \in Nat
ASSUME BeyondAssumption == Beyond \subseteq Seq(STRING)
ASSUME NULAssumption == NUL \notin Glyphs
Controls == {"CR", "LF", "BS", "control"}

ASSUME GlyphsAssumption == Glyphs \intersect Controls = {}

VARIABLES
  rx_msgbuf,       \* g_rx_msgbuf, characters
  g_input_buffer,  \* the line
  input_idx,       \* the length of the line
  shell_pc,        \* "receive", or "process" in the loop over the interpreter
  pxCommand,       \* static of FreeRTOS_CLIProcessCommand
  help_pxCommand,  \* static of prvHelpCommand
  enabled,         \* the trace recorder is on
  shell_error,     \* the status flag
  answer           \* history: the strings written since the end of the line

edit_vars == <<g_input_buffer, input_idx>>
cli_vars == <<pxCommand, help_pxCommand, enabled>>
vars == <<rx_msgbuf, edit_vars, shell_pc, cli_vars, shell_error, answer>>

Characters == Glyphs \union Controls

Zeroed == [i \in 1..InputSize |-> NUL]

Init == /\ rx_msgbuf = <<>>
        /\ g_input_buffer = Zeroed
        /\ input_idx = 0
        /\ shell_pc = "receive"
        /\ pxCommand = NULL
        /\ help_pxCommand = NULL
        /\ enabled = TRUE
        /\ shell_error = FALSE
        /\ answer = <<>>

-----------------------------------------------------------------------------
(* USART3_IRQHandler                                                       *)

\* A message of one byte needs room for its length as well.
MsgbufHasRoomWithoutPrefix == Len(rx_msgbuf) + 1 <= MsgbufSize  \* mutation
MsgbufHasRoom == (Len(rx_msgbuf) + 1) * (1 + PrefixBytes) <= MsgbufSize

\* RXNE is set: a character that finds no room is dropped without a flag.
CharacterInterrupt(c) ==
  /\ rx_msgbuf' = IF MsgbufHasRoom THEN Append(rx_msgbuf, c) ELSE rx_msgbuf
  /\ UNCHANGED <<edit_vars, shell_pc, cli_vars, shell_error, answer>>

\* RXNE is not set: a receive error raised the interrupt.
ErrorInterrupt == /\ shell_error' = TRUE
                  /\ UNCHANGED <<rx_msgbuf, edit_vars, shell_pc, cli_vars,
                                 answer>>

-----------------------------------------------------------------------------
(* shell_task: one character                                               *)

Receive(c) == /\ shell_pc = "receive"
              /\ rx_msgbuf # <<>>
              /\ c = Head(rx_msgbuf)
              /\ rx_msgbuf' = Tail(rx_msgbuf)

EndOfLine == /\ Receive("LF") \/ Receive("CR")
             /\ shell_pc' = "process"
             /\ answer' = <<>>
             /\ UNCHANGED <<edit_vars, cli_vars, shell_error>>

\* Mutation: the erased character stays in the buffer.
BackspaceIndexOnly == /\ Receive("BS")
                      /\ input_idx' = IF input_idx > 0 THEN input_idx - 1 ELSE 0
                      /\ UNCHANGED <<g_input_buffer, shell_pc, cli_vars,
                                     shell_error, answer>>

Backspace == /\ Receive("BS")
             /\ IF input_idx > 0
                  THEN /\ input_idx' = input_idx - 1
                       /\ g_input_buffer' = [g_input_buffer EXCEPT
                                               ![input_idx] = NUL]
                  ELSE UNCHANGED edit_vars
             /\ UNCHANGED <<shell_pc, cli_vars, shell_error, answer>>

Control == /\ Receive("control")
           /\ UNCHANGED <<edit_vars, shell_pc, cli_vars, shell_error, answer>>

Insert(c) == /\ Receive(c)
             /\ IF input_idx < InputSize
                  THEN /\ g_input_buffer' = [g_input_buffer EXCEPT
                                               ![input_idx + 1] = c]
                       /\ input_idx' = input_idx + 1
                  ELSE UNCHANGED edit_vars
             /\ UNCHANGED <<shell_pc, cli_vars, shell_error, answer>>

-----------------------------------------------------------------------------
(* shell_task: one call of FreeRTOS_CLIProcessCommand                      *)

\* The buffer up to its first terminator; without one, the reader runs on
\* into the memory after it.
LinesRead ==
  LET ends == {i \in 1..InputSize : g_input_buffer[i] = NUL}
      end == CHOOSE i \in ends : \A j \in ends : i <= j
  IN  IF ends # {} THEN {SubSeq(g_input_buffer, 1, end - 1)}
                   ELSE {g_input_buffer \o rest : rest \in Beyond}

\* The do-while loop ends: the line is cleared for the next one.
ClearedIndexOnly == UNCHANGED g_input_buffer /\ input_idx' = 0  \* mutation
Cleared == g_input_buffer' = Zeroed /\ input_idx' = 0

\* The history is cut off beyond the longest answer there is.
Says(string) == answer' = IF Len(answer) > Len(xRegisteredCommands)
                            THEN answer ELSE Append(answer, string)

\* The interpreter returns pdFALSE.
ReturnsFalseKeepingCommand ==  \* mutation
  /\ pxCommand' = IF pxCommand = NULL THEN NULL ELSE pxCommand
  /\ shell_pc' = "receive"
  /\ Cleared
ReturnsFalse == pxCommand' = NULL /\ shell_pc' = "receive" /\ Cleared

\* The interpreter returns pdTRUE: it is to be called again.
ReturnsTrue(c) == pxCommand' = c /\ UNCHANGED <<shell_pc, edit_vars>>

\* The command of this call: the one of the call before, or that of the line
Current(line) == IF pxCommand # NULL THEN pxCommand ELSE FoundCommand(line)

NotRecognised(line) == /\ Current(line) = NULL
                       /\ Says("not recognised")
                       /\ ReturnsFalse
                       /\ UNCHANGED <<help_pxCommand, enabled>>

IncorrectParameters(line) ==
  /\ pxCommand = NULL
  /\ Current(line) # NULL
  /\ ~HasExpectedParameters(line, Current(line))
  /\ Says("incorrect parameters")
  /\ ReturnsFalse
  /\ UNCHANGED <<help_pxCommand, enabled>>

Calls(line, command) ==
  /\ Current(line) # NULL
  /\ xRegisteredCommands[Current(line)] = command
  /\ pxCommand # NULL \/ HasExpectedParameters(line, Current(line))

\* One string for each command of the list
prvHelpCommand(line) ==
  LET c == IF help_pxCommand = NULL THEN 1 ELSE help_pxCommand
  IN  /\ Calls(line, xHelpCommand)
      /\ Says(xRegisteredCommands[c].pcCommand)
      /\ help_pxCommand' = NextCommand(c)
      /\ IF help_pxCommand' = NULL THEN ReturnsFalse
                                   ELSE ReturnsTrue(Current(line))
      /\ UNCHANGED enabled

\* configASSERT(param != NULL): without a parameter the task halts here.
trace_cmd(line) ==
  /\ Calls(line, TRACE_CMD)
  /\ HasParameter(line)
  /\ Says(TraceReply(FirstParameter(line), enabled))
  /\ enabled' = TraceEffect(FirstParameter(line), enabled)
  /\ ReturnsFalse
  /\ UNCHANGED help_pxCommand

ip_cmd(line) == /\ Calls(line, IP_CMD)
                /\ HasParameter(line)
                /\ Says(IpReply(FirstParameter(line)))
                /\ ReturnsFalse
                /\ UNCHANGED <<help_pxCommand, enabled>>

ProcessCommand ==
  /\ shell_pc = "process"
  /\ \E line \in LinesRead :
       \/ NotRecognised(line) \/ IncorrectParameters(line)
       \/ prvHelpCommand(line) \/ trace_cmd(line) \/ ip_cmd(line)
  /\ UNCHANGED <<rx_msgbuf, shell_error>>

-----------------------------------------------------------------------------
USART3_IRQHandler == (\E c \in Characters : CharacterInterrupt(c))
                     \/ ErrorInterrupt

shell_task == \/ EndOfLine \/ Backspace \/ Control
              \/ \E c \in Glyphs : Insert(c)
              \/ ProcessCommand

Next == USART3_IRQHandler \/ shell_task

Spec == Init /\ [][Next]_vars

\* The tasks of higher priority leave the shell time to run.
FairSpec == Spec /\ WF_vars(shell_task)

-----------------------------------------------------------------------------
(* Properties                                                              *)

\* Every variable keeps its type; the message buffer stays within its bytes
\* and the index within the line.
TypeOK == /\ rx_msgbuf \in Seq(Characters)
          /\ Len(rx_msgbuf) * (1 + PrefixBytes) <= MsgbufSize
          /\ g_input_buffer \in [1..InputSize -> Glyphs \union {NUL}]
          /\ input_idx \in 0..InputSize
          /\ shell_pc \in {"receive", "process"}
          /\ pxCommand \in Commands \union {NULL}
          /\ help_pxCommand \in Commands \union {NULL}
          /\ {enabled, shell_error} \subseteq BOOLEAN

\* The buffer holds the line that was edited and nothing else: no character
\* of an earlier line and none that was erased lies behind it, so that the
\* terminator the interpreter looks for is where the line ends.
NothingBehindTheLine ==
  \A i \in 1..InputSize : g_input_buffer[i] = NUL <=> i > input_idx

\* The static positions of the interpreter never outlive a line: each line
\* starts from the beginning of the list (FreeRTOS_CLI.c:155, :330).
PositionsAreFresh == shell_pc = "receive" => /\ pxCommand = NULL
                                             /\ help_pxCommand = NULL

\* A command whose number of parameters was checked finds its parameter
\* (shell_cmds.c:53 and :112, configASSERT(param != NULL)).
ParameterIsThere ==
  shell_pc = "process" =>
    \A line \in LinesRead :
      Calls(line, TRACE_CMD) \/ Calls(line, IP_CMD) => HasParameter(line)

\* Every line that is entered is answered to the end, and the shell is back
\* at its prompt.
LinesAreAnswered == shell_pc = "process" ~> shell_pc = "receive"

\* The shell gives each line exactly the answer Console promises for its
\* words, in as many calls as it takes.
Promise == INSTANCE Console WITH
             LineSize <- InputSize,
             line     <- SubSeq(g_input_buffer, 1, input_idx),
             entered  <- shell_pc = "process",
             answer   <- IF shell_pc = "process" THEN <<>> ELSE answer,
             enabled  <- enabled

ImplementsConsole == Promise!Spec
=============================================================================

-------------------------------- MODULE Cli --------------------------------
(***************************************************************************)
(* The command interpreter, src/vendor/src/FreeRTOS_CLI.c, and the two     *)
(* commands of src/src/shell_cmds.c, as operators on a line.               *)
(*                                                                         *)
(* A line is a sequence of glyphs.  A glyph is the blank or a piece of     *)
(* text without blanks: pieces side by side make one word, and no name of  *)
(* a command or of a parameter is made of two.                             *)
(***************************************************************************)
EXTENDS Integers, Sequences, FiniteSets

Blank == " "
NULL == 0  \* no list item

-----------------------------------------------------------------------------
(* The list of commands; an item is its place in it.                       *)

xHelpCommand == [pcCommand |-> "help", cExpectedNumberOfParameters |-> 0]
TRACE_CMD == [pcCommand |-> "trace", cExpectedNumberOfParameters |-> 1]
IP_CMD == [pcCommand |-> "ip", cExpectedNumberOfParameters |-> 1]

FreeRTOS_CLIRegisterCommand(list, command) == Append(list, command)

\* The help command is there from the start; shell_cmds_register adds two.
xRegisteredCommands ==
  FreeRTOS_CLIRegisterCommand(
    FreeRTOS_CLIRegisterCommand(<<xHelpCommand>>, TRACE_CMD), IP_CMD)

Commands == DOMAIN xRegisteredCommands

\* pxNext
NextCommandCircular(c) ==  \* mutation
  IF c = Len(xRegisteredCommands) THEN 1 ELSE c + 1
NextCommand(c) == IF c = Len(xRegisteredCommands) THEN NULL ELSE c + 1

-----------------------------------------------------------------------------
(* Parsing a line                                                          *)

\* The line begins with the name and a blank, or is the name.
Matches(line, c) == /\ line # <<>>
                    /\ line[1] = xRegisteredCommands[c].pcCommand
                    /\ Len(line) = 1 \/ line[2] = Blank

\* The first command of the list that matches
FoundCommand(line) ==
  LET found == {c \in Commands : Matches(line, c)}
  IN  IF found = {} THEN NULL
                    ELSE CHOOSE c \in found : \A d \in found : c <= d

\* Where a run of blanks begins
BlankRuns(line) == {i \in DOMAIN line : /\ line[i] = Blank
                                        /\ i = 1 \/ line[i - 1] # Blank}

EndsBlank(line) == line # <<>> /\ line[Len(line)] = Blank

\* One per run of blanks, less the run the line ends with.
CountTrailingBlanks(line) == Cardinality(BlankRuns(line))  \* mutation
prvGetNumberOfParameters(line) ==
  Cardinality(BlankRuns(line)) - (IF EndsBlank(line) THEN 1 ELSE 0)

HasExpectedParameters(line, c) ==
  \/ xRegisteredCommands[c].cExpectedNumberOfParameters < 0
  \/ xRegisteredCommands[c].cExpectedNumberOfParameters
       = prvGetNumberOfParameters(line)

\* Where a word begins after a blank
ParameterStarts(line) == {i \in 2..Len(line) : /\ line[i] # Blank
                                               /\ line[i - 1] = Blank}

HasParameter(line) == ParameterStarts(line) # {}

\* FreeRTOS_CLIGetParameter(line, 1, &len) points into the line: what it
\* points to is the line from the first parameter to its end.
FirstParameter(line) ==
  LET start == CHOOSE i \in ParameterStarts(line) :
                 \A j \in ParameterStarts(line) : i <= j
  IN  SubSeq(line, start, Len(line))

-----------------------------------------------------------------------------
(* The commands.  strncmp with the size of a name, its terminator          *)
(* included, compares the whole rest of the line.                          *)

\* The string trace_cmd writes for a parameter
TraceReply(parameter, enabled) ==
  CASE parameter = <<"start">> -> IF enabled THEN "restarted" ELSE "started"
    [] parameter = <<"stop">> -> "stopped"
    [] parameter = <<"status">> -> IF enabled THEN "enabled" ELSE "disabled"
    [] OTHER -> "trace: valid parameters"

\* What trace_cmd makes of the recorder: start disables it and enables it
\* again if it is enabled.
TraceEffect(parameter, enabled) ==
  CASE parameter = <<"start">> -> TRUE
    [] parameter = <<"stop">> -> FALSE
    [] OTHER -> enabled

\* The string ip_cmd writes for a parameter
IpReply(parameter) ==
  IF parameter = <<"info">> THEN "address" ELSE "ip: valid parameters"
=============================================================================

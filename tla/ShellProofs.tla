----------------------------- MODULE ShellProofs -----------------------------
(***************************************************************************)
(* What holds of Shell for every set of glyphs, size of the line and of    *)
(* the message buffer, and whatever lies in memory behind the line.        *)
(***************************************************************************)
EXTENDS Shell, SharedLemmas, SequenceTheorems, FiniteSetTheorems, TLAPS

-----------------------------------------------------------------------------
(* Parsing                                                                 *)

\* A sequence made of three elements
LEMMA AppendTuple ==
  ASSUME NEW a, NEW b, NEW c
  PROVE  LET q == Append(Append(<<a>>, b), c)
         IN  /\ Len(q) = 3 /\ DOMAIN q = 1..3
             /\ q[1] = a /\ q[2] = b /\ q[3] = c
<1> DEFINE S == {a, b, c}
<1>0. ASSUME NEW s \in Seq(S), NEW e \in S
      PROVE  /\ Append(s, e) \in Seq(S) /\ Len(Append(s, e)) = Len(s) + 1
             /\ \A i \in 1..Len(s) : Append(s, e)[i] = s[i]
             /\ Append(s, e)[Len(s) + 1] = e
  BY AppendProperties
<1>1. <<a>> \in Seq(S) /\ Len(<<a>>) = 1 /\ <<a>>[1] = a /\ b \in S /\ c \in S
  OBVIOUS
<1> HIDE DEF S
<1>2. PICK one \in Seq(S) : one = <<a>>
  BY <1>1
<1>3. PICK two \in Seq(S) : two = Append(one, b)
  BY <1>0, <1>1
<1>4. PICK three \in Seq(S) : three = Append(two, c)
  BY <1>0, <1>1
<1>5. Len(one) = 1 /\ one[1] = a
  BY <1>1, <1>2
<1>6. Len(two) = 2 /\ two[1] = a /\ two[2] = b
  <2>1. Len(two) = Len(one) + 1 /\ two[Len(one) + 1] = b
        /\ \A i \in 1..Len(one) : two[i] = one[i]
    BY ONLY <1>0, <1>1, <1>3, one \in Seq(S)
  <2> QED
    BY ONLY <1>5, <2>1
<1>7. Len(three) = 3 /\ three[1] = a /\ three[2] = b /\ three[3] = c
  <2>1. Len(three) = Len(two) + 1 /\ three[Len(two) + 1] = c
        /\ \A i \in 1..Len(two) : three[i] = two[i]
    BY ONLY <1>0, <1>1, <1>4, two \in Seq(S)
  <2> QED
    BY ONLY <1>6, <2>1
<1>8. DOMAIN three = 1..3
  BY <1>7, LenProperties
<1> QED
  BY ONLY <1>2, <1>3, <1>4, <1>7, <1>8

\* Three commands are registered.
LEMMA RegisteredCommands ==
  /\ Len(xRegisteredCommands) = 3 /\ Commands = 1..3
  /\ xRegisteredCommands[1] = xHelpCommand
  /\ xRegisteredCommands[2] = TRACE_CMD
  /\ xRegisteredCommands[3] = IP_CMD
<1>1. xRegisteredCommands = Append(Append(<<xHelpCommand>>, TRACE_CMD), IP_CMD)
  BY DEF xRegisteredCommands, FreeRTOS_CLIRegisterCommand
<1> HIDE DEF xRegisteredCommands
<1> QED
  BY <1>1, AppendTuple DEF Commands

\* The command found for a line is one of the list, or none.
LEMMA FoundCommandType ==
  ASSUME NEW line
  PROVE  FoundCommand(line) \in Commands \union {NULL}
<1> DEFINE found == {c \in Commands : Matches(line, c)}
<1>1. found \subseteq Nat /\ found \subseteq Commands
  BY RegisteredCommands
<1>2. CASE found = {}
  BY <1>2 DEF FoundCommand
<1>3. CASE found # {}
  <2>1. \E c \in found : \A d \in found : c <= d
    BY <1>1, <1>3, SmallestExists
  <2> HIDE DEF found
  <2>2. (CHOOSE c \in found : \A d \in found : c <= d) \in found
    BY <2>1
  <2> QED
    BY <1>1, <1>3, <2>2 DEF FoundCommand, found
<1> QED
  BY <1>2, <1>3

LEMMA NextCommandType ==
  ASSUME NEW c \in Commands
  PROVE  NextCommand(c) \in Commands \union {NULL}
BY RegisteredCommands DEF NextCommand

\* After a blank, a line that has another glyph somewhere has a parameter.
LEMMA WordAfterBlank ==
  ASSUME NEW S, NEW line \in Seq(S), NEW i \in 1..Len(line), line[i] = Blank,
         NEW m \in 1..Len(line), m > i, line[m] # Blank
  PROVE  HasParameter(line)
<1> DEFINE later == {k \in 1..Len(line) : k > i /\ line[k] # Blank}
<1>1. Len(line) \in Nat
  BY LenProperties
<1>2. later \subseteq Nat /\ m \in later
  BY <1>1
<1>3. PICK k \in later : \A j \in later : k <= j
  BY <1>2, SmallestExists
<1>4. k \in 2..Len(line) /\ line[k] # Blank
  BY <1>1, <1>3
<1>5. line[k - 1] = Blank
  <2>1. k - 1 \in 1..Len(line) /\ k - 1 >= i /\ k - 1 \notin later
    BY <1>1, <1>3, <1>4
  <2> QED
    BY <2>1
<1> QED
  BY <1>4, <1>5 DEF HasParameter, ParameterStarts

\* A line that counts one parameter or more has a first one.
LEMMA CountedIsThere ==
  ASSUME NEW S, NEW line \in Seq(S), prvGetNumberOfParameters(line) >= 1
  PROVE  HasParameter(line)
<1>1. Len(line) \in Nat /\ DOMAIN line = 1..Len(line)
  BY LenProperties
<1>2. BlankRuns(line) \subseteq 1..Len(line)
  BY <1>1 DEF BlankRuns
<1>3. IsFiniteSet(BlankRuns(line)) /\ Cardinality(BlankRuns(line)) \in Nat
  <2>1. IsFiniteSet(1..Len(line))
    BY <1>1, FS_Interval
  <2> QED
    BY <1>2, <2>1, FS_Subset, FS_CardinalityType
<1>4. Cardinality(BlankRuns(line)) >= 1
  BY <1>3 DEF prvGetNumberOfParameters
<1>5. PICK i \in BlankRuns(line) : TRUE
  <2>1. BlankRuns(line) # {}
    <3>1. Cardinality(BlankRuns(line)) # 0
      BY <1>3, <1>4
    <3> QED
      BY <3>1, FS_EmptySet, Zenon
  <2> QED
    BY <2>1
<1>6. i \in 1..Len(line) /\ line[i] = Blank
  BY <1>1, <1>5 DEF BlankRuns
<1>7. CASE ~EndsBlank(line)
  <2>1. Len(line) \in 1..Len(line) /\ line[Len(line)] # Blank
    BY <1>1, <1>6, <1>7 DEF EndsBlank
  <2>2. Len(line) > i
    BY <1>1, <1>6, <2>1
  <2> QED
    BY <1>6, <2>1, <2>2, WordAfterBlank
<1>8. CASE EndsBlank(line)
  <2>1. Cardinality(BlankRuns(line)) >= 2
    BY <1>3, <1>8 DEF prvGetNumberOfParameters
  <2>2. BlankRuns(line) # {i}
    <3>1. Cardinality({i}) = 1
      BY FS_Singleton
    <3>2. Cardinality(BlankRuns(line)) # 1
      BY <1>3, <2>1
    <3> QED
      BY <3>1, <3>2, Zenon
  <2>3. PICK j \in BlankRuns(line) : j # i
    BY <1>5, <2>2
  <2>4. j \in 1..Len(line) /\ line[j] = Blank
    BY <1>1 DEF BlankRuns
  <2>5. CASE i < j
    <3>1. line[j - 1] # Blank /\ j - 1 \in 1..Len(line)
      BY <1>1, <1>6, <2>4, <2>5 DEF BlankRuns
    <3>2. j - 1 > i
      BY <1>6, <2>4, <2>5, <3>1
    <3> QED
      BY <1>6, <3>1, <3>2, WordAfterBlank
  <2>6. CASE j < i
    <3>1. line[i - 1] # Blank /\ i - 1 \in 1..Len(line)
      BY <1>1, <1>5, <1>6, <2>4, <2>6 DEF BlankRuns
    <3>2. i - 1 > j
      BY <1>6, <2>4, <2>6, <3>1
    <3> QED
      BY <2>4, <3>1, <3>2, WordAfterBlank
  <2> QED
    BY <1>6, <2>3, <2>4, <2>5, <2>6
<1> QED
  BY <1>7, <1>8

-----------------------------------------------------------------------------
(* Type correctness                                                        *)

LEMMA CurrentType ==
  ASSUME NEW line, pxCommand \in Commands \union {NULL}
  PROVE  Current(line) \in Commands \union {NULL}
BY FoundCommandType DEF Current

\* One call of the interpreter keeps the line or clears it, and keeps its
\* positions in the list.
LEMMA ProcessCommandType ==
  ASSUME TypeOK, ProcessCommand
  PROVE  /\ UNCHANGED <<rx_msgbuf, shell_error>>
         /\ UNCHANGED edit_vars \/ Cleared
         /\ shell_pc' \in {"receive", "process"}
         /\ pxCommand' \in Commands \union {NULL}
         /\ help_pxCommand' \in Commands \union {NULL}
         /\ enabled' \in BOOLEAN
<1>1. PICK line \in LinesRead :
        \/ NotRecognised(line) \/ IncorrectParameters(line)
        \/ prvHelpCommand(line) \/ trace_cmd(line) \/ ip_cmd(line)
  BY DEF ProcessCommand
<1>2. Current(line) \in Commands \union {NULL}
  BY CurrentType DEF TypeOK
<1>3. UNCHANGED <<rx_msgbuf, shell_error>> /\ shell_pc = "process"
  BY DEF ProcessCommand
<1>4. CASE NotRecognised(line) \/ IncorrectParameters(line) \/ ip_cmd(line)
  BY <1>3, <1>4 DEF NotRecognised, IncorrectParameters, ip_cmd, ReturnsFalse,
                    TypeOK
<1>5. CASE prvHelpCommand(line)
  <2>1. help_pxCommand' \in Commands \union {NULL}
    <3> DEFINE c == IF help_pxCommand = NULL THEN 1 ELSE help_pxCommand
    <3>1. c \in Commands
      BY RegisteredCommands DEF TypeOK
    <3>2. help_pxCommand' = NextCommand(c)
      BY <1>5 DEF prvHelpCommand
    <3> QED
      BY <3>1, <3>2, NextCommandType
  <2>2. ReturnsFalse \/ ReturnsTrue(Current(line))
    BY <1>5 DEF prvHelpCommand
  <2>3. UNCHANGED enabled
    BY <1>5 DEF prvHelpCommand
  <2> QED
    BY <1>2, <1>3, <2>1, <2>2, <2>3 DEF ReturnsFalse, ReturnsTrue, TypeOK
<1>6. CASE trace_cmd(line)
  <2>1. enabled' \in BOOLEAN
    BY <1>6 DEF trace_cmd, TraceEffect, TypeOK
  <2> QED
    BY <1>3, <1>6, <2>1 DEF trace_cmd, ReturnsFalse, TypeOK
<1> QED
  BY <1>1, <1>4, <1>5, <1>6

\* A character is taken from the message buffer, or put in if there is room.
LEMMA MsgbufTake ==
  ASSUME TypeOK, NEW c, Receive(c)
  PROVE  /\ rx_msgbuf' \in Seq(Characters)
         /\ Len(rx_msgbuf') * (1 + PrefixBytes) <= MsgbufSize
         /\ c \in Characters
<1>1. rx_msgbuf \in Seq(Characters) /\ rx_msgbuf # <<>>
  BY DEF TypeOK, Receive
<1>2. /\ rx_msgbuf' \in Seq(Characters)
      /\ Len(rx_msgbuf') = Len(rx_msgbuf) - 1
      /\ c \in Characters
  BY <1>1, HeadTailProperties DEF Receive
<1>3. Len(rx_msgbuf) \in Nat /\ Len(rx_msgbuf) >= 1
  BY <1>1, LenProperties, EmptySeq
<1> DEFINE n == Len(rx_msgbuf)
           b == 1 + PrefixBytes
<1>4. n \in Nat /\ b \in Nat /\ n * b <= MsgbufSize /\ MsgbufSize \in Nat
  BY <1>3, MsgbufAssumption DEF TypeOK
<1>5. (n - 1) * b <= MsgbufSize
  <2> HIDE DEF n, b
  <2>1. (n - 1) * b = n * b - b
    BY <1>4
  <2>2. n * b \in Nat
    BY <1>4
  <2> QED
    BY <1>4, <2>1, <2>2
<1> QED
  BY <1>2, <1>5

\* Every variable keeps its type; the message buffer stays within its bytes
\* and the index within the line.
THEOREM TypeCorrect == Spec => []TypeOK
<1> USE DEF vars, edit_vars, cli_vars
<1>1. Init => TypeOK
  <2> SUFFICES ASSUME Init PROVE TypeOK
    OBVIOUS
  <2>1. rx_msgbuf \in Seq(Characters) /\ Len(rx_msgbuf) = 0
    BY DEF Init
  <2>2. Len(rx_msgbuf) * (1 + PrefixBytes) <= MsgbufSize
    BY <2>1, MsgbufAssumption
  <2>3. g_input_buffer \in [1..InputSize -> Glyphs \union {NUL}]
    BY DEF Init, Zeroed
  <2>4. input_idx \in 0..InputSize
    BY InputSizeAssumption DEF Init
  <2>5. {enabled, shell_error} \subseteq BOOLEAN
    BY DEF Init
  <2> QED
    BY <2>1, <2>2, <2>3, <2>4, <2>5 DEF Init, TypeOK
<1>2. TypeOK /\ [Next]_vars => TypeOK'
  <2> SUFFICES ASSUME TypeOK, [Next]_vars PROVE TypeOK'
    OBVIOUS
  <2>1. ASSUME NEW c \in Characters, CharacterInterrupt(c) PROVE TypeOK'
    <3>1. CASE MsgbufHasRoom
      <4>1. /\ rx_msgbuf' \in Seq(Characters)
            /\ Len(rx_msgbuf') = Len(rx_msgbuf) + 1
        BY <2>1, <3>1, AppendProperties DEF CharacterInterrupt, TypeOK
      <4>2. Len(rx_msgbuf') * (1 + PrefixBytes) <= MsgbufSize
        BY <3>1, <4>1 DEF MsgbufHasRoom
      <4> QED
        BY <2>1, <4>1, <4>2 DEF CharacterInterrupt, TypeOK
    <3>2. CASE ~MsgbufHasRoom
      BY <2>1, <3>2 DEF CharacterInterrupt, TypeOK
    <3> QED
      BY <3>1, <3>2
  <2>2. CASE ErrorInterrupt
    BY <2>2 DEF ErrorInterrupt, TypeOK
  <2>3. CASE EndOfLine
    <3>1. PICK c \in {"LF", "CR"} : Receive(c)
      BY <2>3 DEF EndOfLine
    <3> QED
      BY <2>3, <3>1, MsgbufTake DEF EndOfLine, TypeOK
  <2>4. CASE Backspace
    <3>1. Receive("BS")
      BY <2>4 DEF Backspace
    <3>2. /\ g_input_buffer' \in [1..InputSize -> Glyphs \union {NUL}]
          /\ input_idx' \in 0..InputSize
      BY <2>4, InputSizeAssumption DEF Backspace, TypeOK
    <3> QED
      BY <2>4, <3>1, <3>2, MsgbufTake DEF Backspace, TypeOK
  <2>5. CASE Control
    <3>1. Receive("control")
      BY <2>5 DEF Control
    <3> QED
      BY <2>5, <3>1, MsgbufTake DEF Control, TypeOK
  <2>6. ASSUME NEW c \in Glyphs, Insert(c) PROVE TypeOK'
    <3>1. Receive(c)
      BY <2>6 DEF Insert
    <3>2. /\ g_input_buffer' \in [1..InputSize -> Glyphs \union {NUL}]
          /\ input_idx' \in 0..InputSize
      BY <2>6, InputSizeAssumption DEF Insert, TypeOK
    <3> QED
      BY <2>6, <3>1, <3>2, MsgbufTake DEF Insert, TypeOK
  <2>7. CASE ProcessCommand
    <3>1. /\ g_input_buffer' \in [1..InputSize -> Glyphs \union {NUL}]
          /\ input_idx' \in 0..InputSize
      BY <2>7, ProcessCommandType, InputSizeAssumption
         DEF Cleared, Zeroed, TypeOK
    <3> QED
      BY <2>7, <3>1, ProcessCommandType DEF TypeOK
  <2>8. CASE UNCHANGED vars
    BY <2>8 DEF TypeOK
  <2> QED
    BY <2>1, <2>2, <2>3, <2>4, <2>5, <2>6, <2>7, <2>8
       DEF Next, USART3_IRQHandler, shell_task
<1> QED
  BY <1>1, <1>2, PTL DEF Spec

-----------------------------------------------------------------------------
(* The line                                                                *)

\* No character of an earlier line, and none that was erased, lies behind the
\* line.
THEOREM NothingBehind == Spec => []NothingBehindTheLine
<1> USE DEF vars, edit_vars, cli_vars
<1>1. Init => NothingBehindTheLine
  BY DEF Init, Zeroed, NothingBehindTheLine
<1>2. TypeOK /\ NothingBehindTheLine /\ [Next]_vars => NothingBehindTheLine'
  <2> SUFFICES ASSUME TypeOK, NothingBehindTheLine, [Next]_vars
               PROVE  NothingBehindTheLine'
    OBVIOUS
  <2>1. CASE Backspace
    <3>1. CASE input_idx > 0
      <4>1. /\ input_idx \in 1..InputSize
            /\ input_idx' = input_idx - 1
            /\ g_input_buffer' = [g_input_buffer EXCEPT ![input_idx] = NUL]
        BY <2>1, <3>1, InputSizeAssumption DEF Backspace, TypeOK
      <4>2. \A i \in 1..InputSize :
              g_input_buffer'[i] = IF i = input_idx THEN NUL ELSE g_input_buffer[i]
        BY <4>1 DEF TypeOK
      <4> QED
        BY <4>1, <4>2, InputSizeAssumption DEF NothingBehindTheLine
    <3>2. CASE ~(input_idx > 0)
      BY <2>1, <3>2 DEF Backspace, NothingBehindTheLine
    <3> QED
      BY <3>1, <3>2
  <2>2. ASSUME NEW c \in Glyphs, Insert(c) PROVE NothingBehindTheLine'
    BY <2>2, InputSizeAssumption, NULAssumption
       DEF Insert, NothingBehindTheLine, TypeOK
  <2>3. CASE ProcessCommand
    <3>1. CASE Cleared
      BY <3>1 DEF Cleared, Zeroed, NothingBehindTheLine
    <3>2. CASE UNCHANGED edit_vars
      BY <3>2 DEF NothingBehindTheLine
    <3> QED
      BY <2>3, <3>1, <3>2, ProcessCommandType
  <2>4. CASE UNCHANGED edit_vars
    BY <2>4 DEF NothingBehindTheLine
  <2> QED
    BY <2>1, <2>2, <2>3, <2>4 DEF Next, USART3_IRQHandler, shell_task,
       CharacterInterrupt, ErrorInterrupt, EndOfLine, Control
<1> QED
  BY <1>1, <1>2, TypeCorrect, PTL DEF Spec

-----------------------------------------------------------------------------
(* The positions of the interpreter                                        *)

LEMMA CommandsDiffer == xHelpCommand # TRACE_CMD /\ xHelpCommand # IP_CMD
BY DEF xHelpCommand, TRACE_CMD, IP_CMD

\* Only the help command is called more than once for a line; the interpreter
\* is at no position of the list unless it is.
CliInv == /\ PositionsAreFresh
          /\ pxCommand = NULL => help_pxCommand = NULL
          /\ pxCommand # NULL => xRegisteredCommands[pxCommand] = xHelpCommand

LEMMA CliStep == CliInv /\ [Next]_vars => CliInv'
<1> SUFFICES ASSUME CliInv, [Next]_vars PROVE CliInv'
  OBVIOUS
<1> USE DEF vars, cli_vars, edit_vars
<1>1. CASE UNCHANGED cli_vars /\ (shell_pc' = shell_pc \/ shell_pc' = "process")
  BY <1>1 DEF CliInv, PositionsAreFresh
<1>2. CASE ProcessCommand
  <2>1. PICK line \in LinesRead :
          \/ NotRecognised(line) \/ IncorrectParameters(line)
          \/ prvHelpCommand(line) \/ trace_cmd(line) \/ ip_cmd(line)
    BY <1>2 DEF ProcessCommand
  <2>2. CASE NotRecognised(line) \/ IncorrectParameters(line)
    <3>1. pxCommand = NULL
      BY <2>2 DEF NotRecognised, IncorrectParameters, Current
    <3> QED
      BY <2>2, <3>1 DEF NotRecognised, IncorrectParameters, ReturnsFalse,
                        CliInv, PositionsAreFresh
  <2>3. CASE trace_cmd(line) \/ ip_cmd(line)
    <3>1. pxCommand = NULL
      BY <2>3, CommandsDiffer DEF trace_cmd, ip_cmd, Calls, Current, CliInv
    <3> QED
      BY <2>3, <3>1 DEF trace_cmd, ip_cmd, ReturnsFalse, CliInv,
                        PositionsAreFresh
  <2>4. CASE prvHelpCommand(line)
    <3>1. CASE help_pxCommand' = NULL
      BY <2>4, <3>1 DEF prvHelpCommand, ReturnsFalse, CliInv, PositionsAreFresh
    <3>2. CASE help_pxCommand' # NULL
      <4>1. pxCommand' = Current(line) /\ UNCHANGED shell_pc
        BY <2>4, <3>2 DEF prvHelpCommand, ReturnsTrue
      <4>2. /\ Current(line) # NULL
            /\ xRegisteredCommands[Current(line)] = xHelpCommand
        BY <2>4 DEF prvHelpCommand, Calls
      <4>3. shell_pc = "process"
        BY <1>2 DEF ProcessCommand
      <4> QED
        BY <4>1, <4>2, <4>3 DEF CliInv, PositionsAreFresh
    <3> QED
      BY <3>1, <3>2
  <2> QED
    BY <2>1, <2>2, <2>3, <2>4
<1> QED
  BY <1>1, <1>2 DEF Next, USART3_IRQHandler, shell_task, CharacterInterrupt,
     ErrorInterrupt, EndOfLine, Backspace, Control, Insert

LEMMA CliAlways == Spec => []CliInv
<1>1. Init => CliInv
  BY DEF Init, CliInv, PositionsAreFresh
<1> QED
  BY <1>1, CliStep, PTL DEF Spec

\* The static positions of the interpreter never outlive a line.
THEOREM PositionsFresh == Spec => []PositionsAreFresh
<1>1. CliInv => PositionsAreFresh
  BY DEF CliInv
<1> QED
  BY <1>1, CliAlways, PTL

\* Whatever the interpreter reads is a sequence.
LEMMA LineType ==
  ASSUME TypeOK, NEW line \in LinesRead
  PROVE  line \in Seq(Glyphs \union {NUL} \union STRING)
<1> DEFINE S == Glyphs \union {NUL} \union STRING
           ends == {i \in 1..InputSize : g_input_buffer[i] = NUL}
           end == CHOOSE i \in ends : \A j \in ends : i <= j
<1>1. g_input_buffer \in Seq(S) /\ Len(g_input_buffer) = InputSize
  <2>1. g_input_buffer \in [1..InputSize -> S]
    BY DEF TypeOK
  <2> HIDE DEF S
  <2> QED
    BY <2>1, InputSizeAssumption
<1>2. CASE ends # {}
  <2>1. line = SubSeq(g_input_buffer, 1, end - 1)
    BY <1>2 DEF LinesRead
  <2>2. end \in 1..InputSize
    <3>1. ends \subseteq Nat
      BY InputSizeAssumption
    <3> HIDE DEF ends
    <3>2. \E i \in ends : \A j \in ends : i <= j
      BY <1>2, <3>1, SmallestExists
    <3>3. end \in ends
      BY <3>2
    <3> QED
      BY <3>3 DEF ends
  <2> HIDE DEF S, end
  <2>3. \A i \in 1..(end - 1) : g_input_buffer[i] \in S
    BY <1>1, <2>2, InputSizeAssumption
  <2> QED
    BY <1>1, <2>1, <2>2, <2>3, SubSeqProperties, InputSizeAssumption DEF S
<1>3. CASE ends = {}
  <2>1. PICK rest \in Beyond : line = g_input_buffer \o rest
    BY <1>3 DEF LinesRead
  <2>2. rest \in Seq(S)
    BY BeyondAssumption, SeqMonotonic
  <2> HIDE DEF S
  <2>3. line \in Seq(S)
    BY <1>1, <2>1, <2>2, ConcatProperties
  <2> QED
    BY <2>3 DEF S
<1> QED
  BY <1>2, <1>3

\* A command whose number of parameters was checked finds its parameter.
THEOREM ParameterFound == Spec => []ParameterIsThere
<1>1. TypeOK /\ CliInv => ParameterIsThere
  <2> SUFFICES ASSUME TypeOK, CliInv, NEW line \in LinesRead,
                      Calls(line, TRACE_CMD) \/ Calls(line, IP_CMD)
               PROVE  HasParameter(line)
    BY DEF ParameterIsThere
  <2>1. PICK command \in {TRACE_CMD, IP_CMD} : Calls(line, command)
    OBVIOUS
  <2>2. pxCommand = NULL
    BY <2>1, CommandsDiffer DEF Calls, Current, CliInv
  <2>3. HasExpectedParameters(line, Current(line))
    BY <2>1, <2>2 DEF Calls
  <2>4. xRegisteredCommands[Current(line)].cExpectedNumberOfParameters = 1
    BY <2>1 DEF Calls, TRACE_CMD, IP_CMD
  <2>5. prvGetNumberOfParameters(line) = 1
    BY <2>3, <2>4 DEF HasExpectedParameters
  <2> QED
    BY <2>5, LineType, CountedIsThere
<1> QED
  BY <1>1, TypeCorrect, CliAlways, PTL

-----------------------------------------------------------------------------
(* Words and blanks: what Console says of the words of a line is what the  *)
(* interpreter finds out by looking at blanks.                             *)

\* Words of Console, for any line
WordsOf(l) ==
  {w \in (1..Len(l)) \X (1..Len(l)) :
     /\ w[1] <= w[2]
     /\ \A i \in w[1]..w[2] : l[i] # Blank
     /\ w[1] = 1 \/ l[w[1] - 1] = Blank
     /\ w[2] = Len(l) \/ l[w[2] + 1] = Blank}

\* Where words end
WordEnds(l) == {i \in 1..Len(l) : /\ l[i] # Blank
                                  /\ i = Len(l) \/ l[i + 1] = Blank}

LEMMA WordType ==
  ASSUME NEW S, NEW l \in Seq(S), NEW w \in WordsOf(l)
  PROVE  /\ w = <<w[1], w[2]>> /\ w[1] \in 1..Len(l) /\ w[2] \in WordEnds(l)
         /\ w[1] <= w[2] /\ \A i \in w[1]..w[2] : l[i] # Blank
         /\ w[1] = 1 \/ l[w[1] - 1] = Blank
         /\ w[2] = Len(l) \/ l[w[2] + 1] = Blank
<1>1. /\ w \in (1..Len(l)) \X (1..Len(l)) /\ w[1] <= w[2]
      /\ \A i \in w[1]..w[2] : l[i] # Blank
      /\ w[1] = 1 \/ l[w[1] - 1] = Blank
      /\ w[2] = Len(l) \/ l[w[2] + 1] = Blank
  BY DEF WordsOf
<1>2. w = <<w[1], w[2]>> /\ w[1] \in 1..Len(l) /\ w[2] \in 1..Len(l)
  BY <1>1
<1>3. w[2] \in w[1]..w[2]
  BY <1>1, <1>2, LenProperties
<1> QED
  BY <1>1, <1>2, <1>3 DEF WordEnds

\* A word that ends somewhere begins somewhere.
LEMMA WordBefore ==
  ASSUME NEW S, NEW l \in Seq(S), NEW e \in WordEnds(l)
  PROVE  \E w \in WordsOf(l) : w[2] = e
<1> DEFINE begins == {b \in 1..e : \A i \in b..e : l[i] # Blank}
<1>1. Len(l) \in Nat /\ e \in 1..Len(l)
  BY LenProperties DEF WordEnds
<1>2. begins \subseteq Nat /\ e \in begins
  BY <1>1 DEF WordEnds
<1>3. PICK b \in begins : \A c \in begins : b <= c
  BY <1>2, SmallestExists
<1>4. b \in 1..e /\ \A i \in b..e : l[i] # Blank
  BY <1>3
<1>5. b = 1 \/ l[b - 1] = Blank
  <2> SUFFICES ASSUME b # 1 PROVE l[b - 1] = Blank
    OBVIOUS
  <2>1. b - 1 \in 1..e /\ b - 1 \notin begins
    <3>1. b - 1 \in 1..e /\ b - 1 < b
      BY <1>1, <1>4
    <3> HIDE DEF begins
    <3> QED
      BY <1>3, <1>4, <3>1
  <2>2. PICK i \in (b - 1)..e : l[i] = Blank
    BY <2>1
  <2>3. i = b - 1
    BY <1>1, <1>4, <2>2
  <2> QED
    BY <2>2, <2>3
<1>6. <<b, e>> \in WordsOf(l)
  BY <1>1, <1>4, <1>5 DEF WordsOf, WordEnds
<1> QED
  BY <1>6

\* A word that begins somewhere ends somewhere.
LEMMA WordAfter ==
  ASSUME NEW S, NEW l \in Seq(S), NEW b \in 1..Len(l), l[b] # Blank,
         b = 1 \/ l[b - 1] = Blank
  PROVE  \E w \in WordsOf(l) : w[1] = b
<1> DEFINE ends == {e \in b..Len(l) : e = Len(l) \/ l[e + 1] = Blank}
<1>1. Len(l) \in Nat
  BY LenProperties
<1>2. ends \subseteq Nat /\ Len(l) \in ends
  BY <1>1
<1>3. PICK e \in ends : \A d \in ends : e <= d
  BY <1>2, SmallestExists
<1>4. e \in b..Len(l) /\ (e = Len(l) \/ l[e + 1] = Blank)
  BY <1>3
<1> HIDE DEF ends
<1>5. ASSUME NEW i \in b..e
      PROVE  l[i] # Blank
  <2>1. CASE i = b
    BY <2>1
  <2>2. CASE i # b
    <3>1. i - 1 \in b..Len(l) /\ i - 1 < e /\ i - 1 \in Nat
      BY <1>1, <1>4, <2>2
    <3>2. i - 1 \notin ends
      BY <1>3, <1>4, <3>1
    <3>3. l[(i - 1) + 1] # Blank
      BY <3>1, <3>2 DEF ends
    <3>4. (i - 1) + 1 = i
      BY <1>1, <1>4
    <3> QED
      BY <3>3, <3>4
  <2> QED
    BY <2>1, <2>2
<1>6. <<b, e>> \in WordsOf(l)
  BY <1>1, <1>4, <1>5 DEF WordsOf
<1> QED
  BY <1>6

LEMMA OneWordPerEnd ==
  ASSUME NEW S, NEW l \in Seq(S), NEW v \in WordsOf(l), NEW w \in WordsOf(l),
         v[2] = w[2]
  PROVE  v = w
<1>1. /\ v = <<v[1], v[2]>> /\ w = <<w[1], w[2]>>
      /\ v[1] \in 1..Len(l) /\ w[1] \in 1..Len(l) /\ w[2] \in 1..Len(l)
      /\ v[1] <= v[2] /\ w[1] <= w[2]
  BY WordType DEF WordEnds
<1>2. ASSUME NEW x \in WordsOf(l), NEW y \in WordsOf(l), x[2] = y[2],
             x[1] \in Nat, y[1] \in Nat, y[2] \in Nat, y[1] <= y[2]
      PROVE  ~(x[1] < y[1])
  <2> SUFFICES ASSUME x[1] < y[1] PROVE FALSE
    OBVIOUS
  <2>1. y[1] - 1 \in x[1]..x[2]
    BY <1>2
  <2>2. l[y[1] - 1] # Blank /\ (y[1] = 1 \/ l[y[1] - 1] = Blank)
    BY <2>1, WordType
  <2>3. x[1] \in 1..Len(l)
    BY WordType
  <2> QED
    BY <2>2, <2>3, LenProperties
<1>3. v[1] = w[1]
  <2>1. v[1] \in Nat /\ w[1] \in Nat /\ v[2] \in Nat /\ w[2] \in Nat
    BY <1>1, LenProperties
  <2>2. ~(v[1] < w[1]) /\ ~(w[1] < v[1])
    BY <1>1, <1>2, <2>1
  <2> QED
    BY <2>1, <2>2
<1> QED
  BY <1>1, <1>3

LEMMA WordsAndEnds ==
  ASSUME NEW S, NEW l \in Seq(S)
  PROVE  /\ IsFiniteSet(WordEnds(l)) /\ IsFiniteSet(WordsOf(l))
         /\ Cardinality(WordsOf(l)) = Cardinality(WordEnds(l))
         /\ Cardinality(WordsOf(l)) \in Nat
<1> DEFINE wordOf == [e \in WordEnds(l) |-> CHOOSE w \in WordsOf(l) : w[2] = e]
<1>1. IsFiniteSet(WordEnds(l))
  <2>1. IsFiniteSet(1..Len(l)) /\ WordEnds(l) \subseteq 1..Len(l)
    BY LenProperties, FS_Interval DEF WordEnds
  <2> QED
    BY <2>1, FS_Subset
<1>2. \A e \in WordEnds(l) : wordOf[e] \in WordsOf(l) /\ wordOf[e][2] = e
  BY WordBefore
<1>3. \A w \in WordsOf(l) : w[2] \in WordEnds(l) /\ wordOf[w[2]] = w
  <2> SUFFICES ASSUME NEW w \in WordsOf(l)
               PROVE  w[2] \in WordEnds(l) /\ wordOf[w[2]] = w
    OBVIOUS
  <2>1. w[2] \in WordEnds(l)
    BY WordType
  <2>2. wordOf[w[2]] \in WordsOf(l) /\ wordOf[w[2]][2] = w[2]
    BY <1>2, <2>1
  <2> HIDE DEF wordOf
  <2>3. wordOf[w[2]] = w
    BY <2>2, OneWordPerEnd
  <2> QED
    BY <2>1, <2>3
<1>4. wordOf \in [WordEnds(l) -> WordsOf(l)]
  BY <1>2
<1> HIDE DEF wordOf
<1>5. \A d, e \in WordEnds(l) : wordOf[d] = wordOf[e] => d = e
  BY <1>2
<1>6. wordOf \in Bijection(WordEnds(l), WordsOf(l))
  BY <1>3, <1>4, <1>5 DEF Bijection, Injection, Surjection, IsInjective
<1>7. ExistsBijection(WordEnds(l), WordsOf(l))
  BY <1>6 DEF ExistsBijection
<1> QED
  BY <1>1, <1>7, FS_Bijection, FS_CardinalityType

LEMMA BlankRunsType ==
  ASSUME NEW S, NEW l \in Seq(S)
  PROVE  /\ BlankRuns(l) \subseteq 1..Len(l) /\ IsFiniteSet(BlankRuns(l))
         /\ Cardinality(BlankRuns(l)) \in Nat
<1>1. Len(l) \in Nat /\ DOMAIN l = 1..Len(l)
  BY LenProperties
<1>2. BlankRuns(l) \subseteq 1..Len(l) /\ IsFiniteSet(1..Len(l))
  BY <1>1, FS_Interval DEF BlankRuns
<1> QED
  BY <1>2, FS_Subset, FS_CardinalityType

\* The places next to a place in a sequence
LEMMA Neighbours ==
  ASSUME NEW n \in Nat, NEW i \in 1..n
  PROVE  /\ i # 1 => i - 1 \in 1..n /\ i - 1 # n /\ (i - 1) + 1 = i
         /\ i # n => i + 1 \in 1..n /\ (i + 1) - 1 = i
OBVIOUS

\* After the first word there is a parameter for each further word.
LEMMA WordsAreCounted ==
  ASSUME NEW S, NEW l \in Seq(S), l # <<>>, l[1] # Blank
  PROVE  Cardinality(WordsOf(l)) = prvGetNumberOfParameters(l) + 1
<1> DEFINE runs == BlankRuns(l)
           inner == WordEnds(l) \ {Len(l)}
           before == [i \in runs |-> i - 1]
<1>1. /\ Len(l) \in Nat /\ Len(l) >= 1 /\ DOMAIN l = 1..Len(l)
  BY LenProperties, EmptySeq
<1>2. runs \subseteq 1..Len(l) /\ IsFiniteSet(runs) /\ Cardinality(runs) \in Nat
  BY BlankRunsType
<1>3. \A i \in runs : i - 1 \in inner
  <2> SUFFICES ASSUME NEW i \in runs PROVE i - 1 \in inner
    OBVIOUS
  <2>1. i \in 1..Len(l) /\ l[i] = Blank /\ (i = 1 \/ l[i - 1] # Blank)
    BY <1>1 DEF BlankRuns
  <2>2. i # 1
    BY <2>1
  <2>3. /\ i - 1 \in 1..Len(l) /\ i - 1 # Len(l) /\ (i - 1) + 1 = i
        /\ l[i - 1] # Blank
    BY ONLY <1>1, <2>1, <2>2, Neighbours, Zenon
  <2>4. i - 1 \in WordEnds(l)
    BY ONLY <2>1, <2>3 DEF WordEnds
  <2> QED
    BY ONLY <2>3, <2>4
<1>4. \A e \in inner : e + 1 \in runs /\ (e + 1) - 1 = e
  <2> SUFFICES ASSUME NEW e \in inner PROVE e + 1 \in runs /\ (e + 1) - 1 = e
    OBVIOUS
  <2>1. e \in 1..Len(l) /\ e # Len(l) /\ l[e] # Blank /\ l[e + 1] = Blank
    BY DEF WordEnds
  <2>2. e + 1 \in 1..Len(l) /\ (e + 1) - 1 = e
    BY ONLY <1>1, <2>1, Neighbours, Zenon
  <2> QED
    BY <1>1, <2>1, <2>2 DEF BlankRuns
<1>5. Cardinality(inner) = Cardinality(runs)
  <2>1. before \in [runs -> inner]
    BY <1>3
  <2>2. \A i, j \in runs : before[i] = before[j] => i = j
    BY <1>1, <1>2
  <2>3. \A e \in inner : \E i \in runs : before[i] = e
    BY <1>4
  <2> HIDE DEF before, runs, inner
  <2>4. before \in Bijection(runs, inner)
    BY <2>1, <2>2, <2>3 DEF Bijection, Injection, Surjection, IsInjective
  <2>5. ExistsBijection(runs, inner)
    BY <2>4 DEF ExistsBijection
  <2> QED
    BY <1>2, <2>5, FS_Bijection
<1>6. Cardinality(inner) = IF Len(l) \in WordEnds(l)
                             THEN Cardinality(WordEnds(l)) - 1
                             ELSE Cardinality(WordEnds(l))
  BY WordsAndEnds, FS_RemoveElement
<1>7. Len(l) \in WordEnds(l) <=> ~EndsBlank(l)
  BY <1>1 DEF WordEnds, EndsBlank
<1>8. /\ Cardinality(WordsOf(l)) = Cardinality(WordEnds(l))
      /\ Cardinality(WordsOf(l)) \in Nat
  BY WordsAndEnds
<1>9. prvGetNumberOfParameters(l)
        = Cardinality(runs) - (IF EndsBlank(l) THEN 1 ELSE 0)
  BY DEF prvGetNumberOfParameters
<1> HIDE DEF runs, inner
<1>10. CASE EndsBlank(l)
  <2>1. prvGetNumberOfParameters(l) = Cardinality(runs) - 1
    BY ONLY <1>9, <1>10
  <2>2. Cardinality(inner) = Cardinality(WordEnds(l))
    BY ONLY <1>6, <1>7, <1>10
  <2> QED
    BY ONLY <1>2, <1>5, <1>8, <2>1, <2>2
<1>11. CASE ~EndsBlank(l)
  <2>1. prvGetNumberOfParameters(l) = Cardinality(runs)
    BY ONLY <1>2, <1>9, <1>11
  <2>2. Cardinality(inner) = Cardinality(WordEnds(l)) - 1
    BY ONLY <1>6, <1>7, <1>11
  <2> QED
    BY ONLY <1>2, <1>5, <1>8, <2>1, <2>2
<1> QED
  BY ONLY <1>10, <1>11

LEMMA OnlyElement ==
  ASSUME NEW T, NEW F \in SUBSET T, NEW k \in T, \A c \in T : c \in F <=> c = k
  PROVE  F = {k}
OBVIOUS

LEMMA OneElement ==
  ASSUME NEW S, NEW q \in Seq(S), NEW p, Len(q) = 1, q[1] = p
  PROVE  q = <<p>>
<1>1. p \in S /\ <<p>> \in Seq(S) /\ Len(<<p>>) = 1 /\ <<p>>[1] = p
  BY ElementOfSeq
<1>2. \A i \in 1..Len(q) : q[i] = <<p>>[i]
  BY <1>1
<1> QED
  BY <1>1, <1>2, SeqEqual

LEMMA ThreeElements ==
  ASSUME NEW a, NEW b, NEW c, a # b, b # c, a # c
  PROVE  IsFiniteSet({a, b, c}) /\ Cardinality({a, b, c}) = 3
<1> DEFINE one == {a}
           two == one \union {b}
           three == two \union {c}
<1>1. IsFiniteSet(one) /\ Cardinality(one) = 1 /\ b \notin one
  BY FS_Singleton
<1> HIDE DEF one
<1>2. IsFiniteSet(two) /\ Cardinality(two) = Cardinality(one) + 1
  BY <1>1, FS_AddElement
<1>3. c \notin two
  BY DEF one
<1> HIDE DEF two
<1>4. IsFiniteSet(three) /\ Cardinality(three) = Cardinality(two) + 1
  BY <1>2, <1>3, FS_AddElement
<1>5. three = {a, b, c}
  BY DEF one, two
<1> QED
  BY <1>1, <1>2, <1>4, <1>5

\* The line begins with the word `name'.
BeginsWith(l, name) == <<1, 1>> \in WordsOf(l) /\ l[1] = name

\* The command found for a line is the one whose name is its first word.
LEMMA FoundByWord ==
  ASSUME NEW S, NEW l \in Seq(S)
  PROVE  FoundCommand(l) = IF BeginsWith(l, "help") THEN 1
                           ELSE IF BeginsWith(l, "trace") THEN 2
                           ELSE IF BeginsWith(l, "ip") THEN 3
                           ELSE NULL
<1> DEFINE found == {c \in Commands : Matches(l, c)}
<1>1. Len(l) \in Nat /\ (l # <<>> <=> Len(l) >= 1)
  BY LenProperties, EmptySeq
<1>2. ASSUME NEW name, name # Blank
      PROVE  BeginsWith(l, name) <=>
               l # <<>> /\ l[1] = name /\ (Len(l) = 1 \/ l[2] = Blank)
  <2>1. CASE l = <<>>
    <3>1. 1 \notin 1..Len(l)
      BY <1>1, <2>1
    <3> QED
      BY <2>1, <3>1 DEF BeginsWith, WordsOf
  <2>2. CASE l # <<>> /\ l[1] = name
    <3>1. 1 \in 1..Len(l) /\ \A i \in 1..1 : l[i] # Blank
      BY <1>1, <1>2, <2>2
    <3>2. <<1, 1>> \in WordsOf(l) <=> 1 = Len(l) \/ l[1 + 1] = Blank
      <4>1. /\ <<1, 1>> \in (1..Len(l)) \X (1..Len(l))
            /\ <<1, 1>>[1] = 1 /\ <<1, 1>>[2] = 1 /\ 1 <= 1
        BY <3>1
      <4> QED
        BY ONLY <3>1, <4>1 DEF WordsOf
    <3> QED
      BY <2>2, <3>2 DEF BeginsWith
  <2> QED
    BY <2>1, <2>2 DEF BeginsWith
<1>3. /\ Matches(l, 1) <=> BeginsWith(l, "help")
      /\ Matches(l, 2) <=> BeginsWith(l, "trace")
      /\ Matches(l, 3) <=> BeginsWith(l, "ip")
  <2>1. "help" # Blank /\ "trace" # Blank /\ "ip" # Blank
    BY DEF Blank
  <2>2. /\ xRegisteredCommands[1].pcCommand = "help"
        /\ xRegisteredCommands[2].pcCommand = "trace"
        /\ xRegisteredCommands[3].pcCommand = "ip"
    BY RegisteredCommands DEF xHelpCommand, TRACE_CMD, IP_CMD
  <2> QED
    BY ONLY <1>2, <2>1, <2>2 DEF Matches
<1>4. \A c \in 1..3 : c \in found <=> Matches(l, c)
  BY RegisteredCommands
<1>5. found \subseteq 1..3
  BY RegisteredCommands
<1>6. FoundCommand(l) = IF found = {} THEN NULL
                        ELSE CHOOSE c \in found : \A d \in found : c <= d
  BY DEF FoundCommand
<1> HIDE DEF found
<1>7. CASE BeginsWith(l, "help")
  <2>1. \A c \in 1..3 : c \in found <=> c = 1
    BY <1>3, <1>4, <1>7 DEF BeginsWith
  <2>2. found = {1}
    <3>1. 1 \in 1..3
      OBVIOUS
    <3> QED
      BY <1>5, <2>1, <3>1, OnlyElement
  <2>3. (CHOOSE c \in {1} : \A d \in {1} : c <= d) = 1
    OBVIOUS
  <2> QED
    BY ONLY <1>6, <1>7, <2>2, <2>3
<1>8. CASE BeginsWith(l, "trace") /\ ~BeginsWith(l, "help")
  <2>1. \A c \in 1..3 : c \in found <=> c = 2
    BY <1>3, <1>4, <1>8 DEF BeginsWith
  <2>2. found = {2}
    <3>1. 2 \in 1..3
      OBVIOUS
    <3> QED
      BY <1>5, <2>1, <3>1, OnlyElement
  <2>3. (CHOOSE c \in {2} : \A d \in {2} : c <= d) = 2
    OBVIOUS
  <2> QED
    BY ONLY <1>6, <1>8, <2>2, <2>3
<1>9. CASE BeginsWith(l, "ip") /\ ~BeginsWith(l, "help") /\ ~BeginsWith(l, "trace")
  <2>1. \A c \in 1..3 : c \in found <=> c = 3
    BY <1>3, <1>4, <1>9 DEF BeginsWith
  <2>2. found = {3}
    <3>1. 3 \in 1..3
      OBVIOUS
    <3> QED
      BY <1>5, <2>1, <3>1, OnlyElement
  <2>3. (CHOOSE c \in {3} : \A d \in {3} : c <= d) = 3
    OBVIOUS
  <2> QED
    BY ONLY <1>6, <1>9, <2>2, <2>3
<1>10. CASE /\ ~BeginsWith(l, "help") /\ ~BeginsWith(l, "trace")
            /\ ~BeginsWith(l, "ip")
  <2>1. \A c \in 1..3 : c \notin found
    BY <1>3, <1>4, <1>10
  <2>2. found = {}
    BY ONLY <1>5, <2>1
  <2> QED
    BY ONLY <1>6, <1>10, <2>2
<1> QED
  BY <1>7, <1>8, <1>9, <1>10

\* Of a line of two words the parameter found is the second, alone when the
\* line ends with it.
LEMMA SecondWord ==
  ASSUME NEW S, NEW l \in Seq(S), <<1, 1>> \in WordsOf(l),
         Cardinality(WordsOf(l)) = 2, NEW p
  PROVE  FirstParameter(l) = <<p>> <=>
           <<Len(l), Len(l)>> \in WordsOf(l) /\ l[Len(l)] = p
<1> DEFINE start == CHOOSE i \in ParameterStarts(l) :
                      \A j \in ParameterStarts(l) : i <= j
<1>1. Len(l) \in Nat /\ 1 \in 1..Len(l) /\ l[1] # Blank /\ l # <<>>
  <2>1. Len(l) \in Nat /\ 1 \in 1..Len(l) /\ l[1] # Blank
    BY LenProperties DEF WordsOf
  <2> QED
    BY <2>1
<1>2. ParameterStarts(l) # {}
  <2>1. prvGetNumberOfParameters(l) + 1 = 2
    BY <1>1, WordsAreCounted
  <2>2. prvGetNumberOfParameters(l) >= 1
    <3>1. Cardinality(BlankRuns(l)) \in Nat
      BY BlankRunsType
    <3>2. prvGetNumberOfParameters(l) \in Int
      BY <3>1 DEF prvGetNumberOfParameters
    <3> QED
      BY <2>1, <3>2
  <2> QED
    BY <2>2, CountedIsThere DEF HasParameter
<1>3. start \in ParameterStarts(l) /\ \A j \in ParameterStarts(l) : start <= j
  <2>1. ParameterStarts(l) \subseteq Nat
    BY <1>1 DEF ParameterStarts
  <2>2. \E i \in ParameterStarts(l) : \A j \in ParameterStarts(l) : i <= j
    BY <1>2, <2>1, SmallestExists
  <2> QED
    BY <2>2
<1>4. FirstParameter(l) = SubSeq(l, start, Len(l))
  BY DEF FirstParameter
<1> HIDE DEF start
<1>5. start \in 2..Len(l) /\ l[start] # Blank /\ l[start - 1] = Blank
  BY <1>3 DEF ParameterStarts
<1>6. /\ FirstParameter(l) \in Seq(S)
      /\ Len(FirstParameter(l)) = Len(l) - start + 1
      /\ FirstParameter(l)[1] = l[start]
  <2>1. \A i \in start..Len(l) : l[i] \in S
    BY <1>1, <1>5, ElementOfSeq
  <2> QED
    BY <1>1, <1>4, <1>5, <2>1, SubSeqProperties
<1>7. FirstParameter(l) = <<p>> <=> start = Len(l) /\ l[Len(l)] = p
  <2>1. ASSUME FirstParameter(l) = <<p>>
        PROVE  start = Len(l) /\ l[Len(l)] = p
    <3>1. Len(l) - start + 1 = 1 /\ l[start] = p
      BY <1>6, <2>1
    <3> QED
      BY <1>1, <1>5, <3>1
  <2>2. ASSUME start = Len(l), l[Len(l)] = p
        PROVE  FirstParameter(l) = <<p>>
    <3>1. Len(FirstParameter(l)) = 1 /\ FirstParameter(l)[1] = p
      BY <1>1, <1>6, <2>2
    <3> QED
      BY <1>6, <3>1, OneElement
  <2> QED
    BY <2>1, <2>2
<1>8. ASSUME start = Len(l)
      PROVE  <<Len(l), Len(l)>> \in WordsOf(l)
  BY <1>1, <1>5, <1>8 DEF WordsOf
<1>9. ASSUME <<Len(l), Len(l)>> \in WordsOf(l)
      PROVE  start = Len(l)
  <2> SUFFICES ASSUME start # Len(l) PROVE FALSE
    OBVIOUS
  <2>1. PICK w \in WordsOf(l) : w[1] = start
    BY <1>1, <1>5, WordAfter
  <2>2. /\ <<1, 1>> # <<Len(l), Len(l)>>
        /\ w # <<1, 1>> /\ w # <<Len(l), Len(l)>>
    BY <1>1, <1>5, <2>1
  <2> DEFINE three == {<<1, 1>>, <<Len(l), Len(l)>>, w}
  <2>5. Cardinality(three) = 3
    BY ONLY <2>2, ThreeElements
  <2>6. three \subseteq WordsOf(l)
    BY <1>9
  <2> HIDE DEF three
  <2>7. Cardinality(three) <= Cardinality(WordsOf(l))
    BY <2>6, WordsAndEnds, FS_Subset
  <2> QED
    BY <2>5, <2>7
<1> QED
  BY <1>7, <1>8, <1>9

\* The last word of the line is `parameter' alone.
EndsWith(l, parameter) == /\ <<Len(l), Len(l)>> \in WordsOf(l)
                          /\ l[Len(l)] = parameter

\* The number of words a command takes
LEMMA ExpectedWords ==
  ASSUME NEW S, NEW l \in Seq(S), BeginsWith(l, l[1])
  PROVE  /\ HasExpectedParameters(l, 1) <=> Cardinality(WordsOf(l)) = 1
         /\ HasExpectedParameters(l, 2) <=> Cardinality(WordsOf(l)) = 2
         /\ HasExpectedParameters(l, 3) <=> Cardinality(WordsOf(l)) = 2
<1>1. <<1, 1>> \in WordsOf(l)
  BY DEF BeginsWith
<1>2. l # <<>> /\ l[1] # Blank
  <2>1. Len(l) \in Nat /\ 1 \in 1..Len(l) /\ l[1] # Blank
    BY <1>1, LenProperties DEF WordsOf
  <2> QED
    BY <2>1
<1>3. prvGetNumberOfParameters(l) \in Int
  <2>1. Cardinality(BlankRuns(l)) \in Nat
    BY BlankRunsType
  <2> QED
    BY ONLY <2>1 DEF prvGetNumberOfParameters
<1>4. Cardinality(WordsOf(l)) = prvGetNumberOfParameters(l) + 1
  BY <1>2, WordsAreCounted
<1>5. /\ xRegisteredCommands[1].cExpectedNumberOfParameters = 0
      /\ xRegisteredCommands[2].cExpectedNumberOfParameters = 1
      /\ xRegisteredCommands[3].cExpectedNumberOfParameters = 1
  BY RegisteredCommands DEF xHelpCommand, TRACE_CMD, IP_CMD
<1> QED
  BY ONLY <1>3, <1>4, <1>5 DEF HasExpectedParameters

\* What trace and ip make of their parameter, told by the last word
LEMMA ParameterByWord ==
  ASSUME NEW S, NEW l \in Seq(S), BeginsWith(l, l[1]),
         Cardinality(WordsOf(l)) = 2, NEW e \in BOOLEAN
  PROVE  /\ EndsWith(l, "start") =>
              /\ TraceReply(FirstParameter(l), e) =
                   (IF e THEN "restarted" ELSE "started")
              /\ TraceEffect(FirstParameter(l), e) = TRUE
         /\ EndsWith(l, "stop") =>
              /\ TraceReply(FirstParameter(l), e) = "stopped"
              /\ TraceEffect(FirstParameter(l), e) = FALSE
         /\ EndsWith(l, "status") =>
              /\ TraceReply(FirstParameter(l), e) =
                   (IF e THEN "enabled" ELSE "disabled")
              /\ TraceEffect(FirstParameter(l), e) = e
         /\ (\A p \in {"start", "stop", "status"} : ~EndsWith(l, p)) =>
              /\ TraceReply(FirstParameter(l), e) = "trace: valid parameters"
              /\ TraceEffect(FirstParameter(l), e) = e
         /\ IpReply(FirstParameter(l)) =
              IF EndsWith(l, "info") THEN "address" ELSE "ip: valid parameters"
<1> DEFINE q == FirstParameter(l)
<1>1. \A p : q = <<p>> <=> EndsWith(l, p)
  BY SecondWord DEF BeginsWith, EndsWith
<1>2. \A p, r : EndsWith(l, p) /\ p # r => ~EndsWith(l, r)
  BY DEF EndsWith
<1> HIDE DEF q
<1>3. CASE EndsWith(l, "start")
  <2>1. q = <<"start">>
    BY ONLY <1>1, <1>3
  <2>2. ~EndsWith(l, "stop") /\ ~EndsWith(l, "status") /\ ~EndsWith(l, "info")
    BY ONLY <1>2, <1>3
  <2>3. /\ TraceReply(q, e) = (IF e THEN "restarted" ELSE "started")
        /\ TraceEffect(q, e) = TRUE
    BY ONLY <2>1 DEF TraceReply, TraceEffect
  <2>4. q # <<"info">>
    BY ONLY <1>1, <2>2
  <2> QED
    BY ONLY <1>3, <2>2, <2>3, <2>4 DEF q, IpReply
<1>4. CASE EndsWith(l, "stop")
  <2>1. q = <<"stop">>
    BY ONLY <1>1, <1>4
  <2>2. ~EndsWith(l, "start") /\ ~EndsWith(l, "status") /\ ~EndsWith(l, "info")
    BY ONLY <1>2, <1>4
  <2>3. q # <<"start">> /\ q # <<"info">>
    BY ONLY <1>1, <2>2
  <2>4. TraceReply(q, e) = "stopped" /\ TraceEffect(q, e) = FALSE
    BY ONLY <2>1, <2>3 DEF TraceReply, TraceEffect
  <2> QED
    BY ONLY <1>4, <2>2, <2>3, <2>4 DEF q, IpReply
<1>5. CASE EndsWith(l, "status")
  <2>1. q = <<"status">>
    BY ONLY <1>1, <1>5
  <2>2. ~EndsWith(l, "start") /\ ~EndsWith(l, "stop") /\ ~EndsWith(l, "info")
    BY ONLY <1>2, <1>5
  <2>3. q # <<"start">> /\ q # <<"stop">> /\ q # <<"info">>
    BY ONLY <1>1, <2>2
  <2>4. /\ TraceReply(q, e) = (IF e THEN "enabled" ELSE "disabled")
        /\ TraceEffect(q, e) = e
    BY ONLY <2>1, <2>3 DEF TraceReply, TraceEffect
  <2> QED
    BY ONLY <1>5, <2>2, <2>3, <2>4 DEF q, IpReply
<1>6. CASE \A p \in {"start", "stop", "status"} : ~EndsWith(l, p)
  <2>1. q # <<"start">> /\ q # <<"stop">> /\ q # <<"status">>
    BY ONLY <1>1, <1>6
  <2>2. /\ TraceReply(q, e) = "trace: valid parameters"
        /\ TraceEffect(q, e) = e
    BY ONLY <2>1 DEF TraceReply, TraceEffect
  <2>3. q = <<"info">> <=> EndsWith(l, "info")
    BY ONLY <1>1
  <2> QED
    BY ONLY <1>6, <2>2, <2>3 DEF q, IpReply
<1> QED
  BY ONLY <1>3, <1>4, <1>5, <1>6

-----------------------------------------------------------------------------
(* The answer Console promises is the one the interpreter gives.           *)

Line == SubSeq(g_input_buffer, 1, input_idx)

\* The first n elements of a buffer
LEMMA Prefix ==
  ASSUME NEW S, NEW N \in Nat, NEW b \in [1..N -> S], NEW n \in 0..N
  PROVE  /\ SubSeq(b, 1, n) \in Seq(S) /\ Len(SubSeq(b, 1, n)) = n
         /\ \A i \in 1..n : SubSeq(b, 1, n)[i] = b[i]
<1>1. b \in Seq(S) /\ Len(b) = N
  OBVIOUS
<1>2. \A i \in 1..n : b[i] \in S
  BY <1>1
<1> QED
  BY <1>1, <1>2, SubSeqProperties

LEMMA LineIsTyped ==
  ASSUME TypeOK
  PROVE  /\ Line \in Seq(Glyphs \union {NUL}) /\ Len(Line) = input_idx
         /\ \A i \in 1..input_idx : Line[i] = g_input_buffer[i]
BY Prefix, InputSizeAssumption DEF TypeOK, Line

\* The interpreter reads the line, unless it fills the buffer.
LEMMA LineIsRead ==
  ASSUME TypeOK, NothingBehindTheLine, input_idx < InputSize
  PROVE  LinesRead = {Line}
<1> DEFINE ends == {i \in 1..InputSize : g_input_buffer[i] = NUL}
           end == CHOOSE i \in ends : \A j \in ends : i <= j
<1>1. input_idx \in Nat /\ InputSize \in Nat /\ input_idx < InputSize
  BY InputSizeAssumption DEF TypeOK
<1>2. \A i \in 1..InputSize : i \in ends <=> i > input_idx
  BY DEF NothingBehindTheLine
<1>3. ends \subseteq 1..InputSize
  OBVIOUS
<1>4. LinesRead = IF ends # {} THEN {SubSeq(g_input_buffer, 1, end - 1)}
                  ELSE {g_input_buffer \o rest : rest \in Beyond}
  BY DEF LinesRead
<1> HIDE DEF ends
<1>5. input_idx + 1 \in ends /\ \A j \in ends : input_idx + 1 <= j
  BY ONLY <1>1, <1>2, <1>3
<1>6. end \in ends /\ \A j \in ends : end <= j
  BY <1>5
<1>7. end - 1 = input_idx
  <2> HIDE DEF end
  <2>1. end \in Nat /\ end <= input_idx + 1 /\ input_idx + 1 <= end
    BY ONLY <1>1, <1>3, <1>5, <1>6
  <2> QED
    BY ONLY <1>1, <2>1
<1> QED
  BY <1>4, <1>5, <1>7 DEF Line

LEMMA PromisedWords ==
  /\ Promise!Words = WordsOf(Line)
  /\ \A name : Promise!Begins(name) <=> BeginsWith(Line, name)
  /\ \A parameter : Promise!Ends(parameter) <=> EndsWith(Line, parameter)
<1>1. Promise!Words = WordsOf(Line)
  BY DEF Promise!Words, WordsOf, Line
<1> QED
  BY <1>1 DEF Promise!Begins, Promise!Ends, BeginsWith, EndsWith, Line

\* What Console promises for a parameter of trace or ip
LEMMA OutcomeByParameter ==
  ASSUME TypeOK, BeginsWith(Line, Line[1]), Cardinality(WordsOf(Line)) = 2
  PROVE  /\ Promise!TraceOutcome = <<<<TraceReply(FirstParameter(Line), enabled)>>,
                                     TraceEffect(FirstParameter(Line), enabled)>>
         /\ Promise!IpOutcome = <<<<IpReply(FirstParameter(Line))>>, enabled>>
<1> DEFINE q == FirstParameter(Line)
           start == EndsWith(Line, "start")
           stop == EndsWith(Line, "stop")
           status == EndsWith(Line, "status")
           info == EndsWith(Line, "info")
<1>1. /\ start => /\ TraceReply(q, enabled) =
                       (IF enabled THEN "restarted" ELSE "started")
                  /\ TraceEffect(q, enabled) = TRUE
      /\ stop => /\ TraceReply(q, enabled) = "stopped"
                 /\ TraceEffect(q, enabled) = FALSE
      /\ status => /\ TraceReply(q, enabled) =
                        (IF enabled THEN "enabled" ELSE "disabled")
                   /\ TraceEffect(q, enabled) = enabled
      /\ ~start /\ ~stop /\ ~status =>
           /\ TraceReply(q, enabled) = "trace: valid parameters"
           /\ TraceEffect(q, enabled) = enabled
      /\ IpReply(q) = IF info THEN "address" ELSE "ip: valid parameters"
  <2>1. enabled \in BOOLEAN
    BY DEF TypeOK
  <2>2. PICK S : Line \in Seq(S)
    BY LineIsTyped
  <2> QED
    BY <2>1, <2>2, ParameterByWord
<1>2. /\ start => ~stop /\ ~status
      /\ stop => ~start /\ ~status
      /\ status => ~start /\ ~stop
  BY DEF EndsWith
<1>3. /\ Promise!Ends("start") <=> start
      /\ Promise!Ends("stop") <=> stop
      /\ Promise!Ends("status") <=> status
      /\ Promise!Ends("info") <=> info
  BY PromisedWords
<1> HIDE DEF q, start, stop, status, info
<1>4. CASE start
  <2>1. Promise!TraceOutcome =
          <<<<IF enabled THEN "restarted" ELSE "started">>, TRUE>>
    BY ONLY <1>2, <1>3, <1>4 DEF Promise!TraceOutcome
  <2>2. Promise!TraceOutcome = <<<<TraceReply(q, enabled)>>, TraceEffect(q, enabled)>>
    BY ONLY <1>1, <1>4, <2>1
  <2> QED
    BY ONLY <1>1, <1>3, <2>2 DEF Promise!IpOutcome, q
<1>5. CASE stop
  <2>1. Promise!TraceOutcome = <<<<"stopped">>, FALSE>>
    BY ONLY <1>2, <1>3, <1>5 DEF Promise!TraceOutcome
  <2>2. Promise!TraceOutcome = <<<<TraceReply(q, enabled)>>, TraceEffect(q, enabled)>>
    BY ONLY <1>1, <1>5, <2>1
  <2> QED
    BY ONLY <1>1, <1>3, <2>2 DEF Promise!IpOutcome, q
<1>6. CASE status
  <2>1. Promise!TraceOutcome =
          <<<<IF enabled THEN "enabled" ELSE "disabled">>, enabled>>
    BY ONLY <1>2, <1>3, <1>6 DEF Promise!TraceOutcome
  <2>2. Promise!TraceOutcome = <<<<TraceReply(q, enabled)>>, TraceEffect(q, enabled)>>
    BY ONLY <1>1, <1>6, <2>1
  <2> QED
    BY ONLY <1>1, <1>3, <2>2 DEF Promise!IpOutcome, q
<1>7. CASE ~start /\ ~stop /\ ~status
  <2>1. Promise!TraceOutcome = <<<<"trace: valid parameters">>, enabled>>
    BY ONLY <1>3, <1>7 DEF Promise!TraceOutcome
  <2>2. Promise!TraceOutcome = <<<<TraceReply(q, enabled)>>, TraceEffect(q, enabled)>>
    BY ONLY <1>1, <1>7, <2>1
  <2> QED
    BY ONLY <1>1, <1>3, <2>2 DEF Promise!IpOutcome, q
<1> QED
  BY ONLY <1>4, <1>5, <1>6, <1>7

\* What Console promises, told by the command the interpreter finds and by
\* the parameters it counts.
LEMMA OutcomeByCommand ==
  ASSUME TypeOK
  PROVE  LET c == FoundCommand(Line)
             expected == HasExpectedParameters(Line, c)
         IN  /\ c = NULL =>
                  Promise!Outcome = <<<<"not recognised">>, enabled>>
             /\ c # NULL /\ ~expected =>
                  Promise!Outcome = <<<<"incorrect parameters">>, enabled>>
             /\ c = 1 /\ expected =>
                  Promise!Outcome = <<<<"help", "trace", "ip">>, enabled>>
             /\ c = 2 /\ expected =>
                  Promise!Outcome = <<<<TraceReply(FirstParameter(Line), enabled)>>,
                                      TraceEffect(FirstParameter(Line), enabled)>>
             /\ c = 3 /\ expected =>
                  Promise!Outcome = <<<<IpReply(FirstParameter(Line))>>, enabled>>
<1> DEFINE c == FoundCommand(Line)
           expected == HasExpectedParameters(Line, c)
           words == Cardinality(WordsOf(Line))
           help == BeginsWith(Line, "help")
           trace == BeginsWith(Line, "trace")
           ip == BeginsWith(Line, "ip")
<1>1. PICK S : Line \in Seq(S)
  BY LineIsTyped
<1>2. c = IF help THEN 1 ELSE IF trace THEN 2 ELSE IF ip THEN 3 ELSE 0
  BY <1>1, FoundByWord DEF NULL
<1>3. /\ help => ~trace /\ ~ip
      /\ trace => ~help /\ ~ip
      /\ ip => ~help /\ ~trace
  BY DEF BeginsWith
<1>4. help \/ trace \/ ip => BeginsWith(Line, Line[1])
  BY DEF BeginsWith
<1>5. /\ help => (expected <=> words = 1)
      /\ trace \/ ip => (expected <=> words = 2)
  <2>1. BeginsWith(Line, Line[1]) =>
          /\ HasExpectedParameters(Line, 1) <=> words = 1
          /\ HasExpectedParameters(Line, 2) <=> words = 2
          /\ HasExpectedParameters(Line, 3) <=> words = 2
    BY ONLY <1>1, ExpectedWords
  <2>2. (help => c = 1) /\ (trace => c = 2) /\ (ip => c = 3)
    BY ONLY <1>2, <1>3
  <2> HIDE DEF c, words
  <2> QED
    BY <1>4, <2>1, <2>2
<1>6. /\ Promise!Begins("help") <=> help
      /\ Promise!Begins("trace") <=> trace
      /\ Promise!Begins("ip") <=> ip
  BY PromisedWords
<1>7. Promise!Cardinality(Promise!Words) = words
  BY PromisedWords DEF Promise!Cardinality, Cardinality
<1> HIDE DEF c, expected, words, help, trace, ip
<1>8. Promise!WrongCount <=> (help /\ words # 1) \/ ((trace \/ ip) /\ words # 2)
  BY ONLY <1>6, <1>7 DEF Promise!WrongCount
<1>9. /\ Promise!WrongCount =>
           Promise!Outcome = <<<<"incorrect parameters">>, enabled>>
      /\ ~Promise!WrongCount /\ help =>
           Promise!Outcome = <<<<"help", "trace", "ip">>, enabled>>
      /\ ~Promise!WrongCount /\ trace => Promise!Outcome = Promise!TraceOutcome
      /\ ~Promise!WrongCount /\ ip => Promise!Outcome = Promise!IpOutcome
      /\ ~Promise!WrongCount /\ ~help /\ ~trace /\ ~ip =>
           Promise!Outcome = <<<<"not recognised">>, enabled>>
  BY ONLY <1>3, <1>6 DEF Promise!Outcome
<1>10. ASSUME c = 0
       PROVE  Promise!Outcome = <<<<"not recognised">>, enabled>>
  <2>1. ~help /\ ~trace /\ ~ip
    BY ONLY <1>2, <1>10
  <2> QED
    BY ONLY <1>8, <1>9, <2>1
<1>11. ASSUME c # 0, ~expected
       PROVE  Promise!Outcome = <<<<"incorrect parameters">>, enabled>>
  <2>1. help \/ trace \/ ip
    BY ONLY <1>2, <1>11
  <2> QED
    BY ONLY <1>5, <1>8, <1>9, <1>11, <2>1
<1>12. ASSUME c = 1, expected
       PROVE  Promise!Outcome = <<<<"help", "trace", "ip">>, enabled>>
  <2>1. help
    BY ONLY <1>2, <1>12
  <2> QED
    BY ONLY <1>3, <1>5, <1>8, <1>9, <1>12, <2>1
<1>13. ASSUME c = 2, expected
       PROVE  Promise!Outcome = <<<<TraceReply(FirstParameter(Line), enabled)>>,
                                  TraceEffect(FirstParameter(Line), enabled)>>
  <2>1. trace
    BY ONLY <1>2, <1>13
  <2>2. words = 2 /\ Promise!Outcome = Promise!TraceOutcome
    BY ONLY <1>3, <1>5, <1>8, <1>9, <1>13, <2>1
  <2> QED
    BY <1>4, <2>1, <2>2, OutcomeByParameter DEF words
<1>14. ASSUME c = 3, expected
       PROVE  Promise!Outcome = <<<<IpReply(FirstParameter(Line))>>, enabled>>
  <2>1. ip
    BY ONLY <1>2, <1>14
  <2>2. words = 2 /\ Promise!Outcome = Promise!IpOutcome
    BY ONLY <1>3, <1>5, <1>8, <1>9, <1>14, <2>1
  <2> QED
    BY <1>4, <2>1, <2>2, OutcomeByParameter DEF words
<1> QED
  BY <1>10, <1>11, <1>12, <1>13, <1>14, Zenon DEF c, expected, NULL

-----------------------------------------------------------------------------
(* The shell keeps the promise of Console.                                 *)

\* In the loop over the interpreter, the answer so far is what help has said:
\* nothing, the first command, or the first two.  It goes on with help because
\* the line is a help command, unless the line fills the buffer.
HelpInv ==
  /\ shell_pc = "process" /\ pxCommand = NULL => answer = <<>>
  /\ pxCommand # NULL =>
       /\ pxCommand = 1
       /\ \/ help_pxCommand = 2 /\ answer = <<"help">>
          \/ help_pxCommand = 3 /\ answer = <<"help", "trace">>
       /\ input_idx < InputSize =>
            FoundCommand(Line) = 1 /\ HasExpectedParameters(Line, 1)

LEMMA AppendToTuple ==
  ASSUME NEW S, NEW a \in S, NEW b \in S, NEW c \in S
  PROVE  /\ Append(<<>>, a) = <<a>> /\ Append(<<a>>, b) = <<a, b>>
         /\ Append(<<a, b>>, c) = <<a, b, c>>
         /\ Len(<<a>>) = 1 /\ Len(<<a, b>>) = 2
<1>1. /\ <<>> \in Seq(S) /\ Len(<<>>) = 0
      /\ <<a>> \in Seq(S) /\ Len(<<a>>) = 1 /\ <<a>>[1] = a
      /\ <<a, b>> \in Seq(S) /\ Len(<<a, b>>) = 2
      /\ <<a, b>>[1] = a /\ <<a, b>>[2] = b
      /\ <<a, b, c>> \in Seq(S) /\ Len(<<a, b, c>>) = 3
      /\ <<a, b, c>>[1] = a /\ <<a, b, c>>[2] = b /\ <<a, b, c>>[3] = c
  OBVIOUS
<1>2. /\ Append(<<>>, a) \in Seq(S) /\ Len(Append(<<>>, a)) = 1
      /\ Append(<<>>, a)[1] = a
  BY <1>1, AppendProperties
<1>3. /\ Append(<<a>>, b) \in Seq(S) /\ Len(Append(<<a>>, b)) = 2
      /\ Append(<<a>>, b)[1] = a /\ Append(<<a>>, b)[2] = b
  BY <1>1, AppendProperties
<1>4. /\ Append(<<a, b>>, c) \in Seq(S) /\ Len(Append(<<a, b>>, c)) = 3
      /\ Append(<<a, b>>, c)[1] = a /\ Append(<<a, b>>, c)[2] = b
      /\ Append(<<a, b>>, c)[3] = c
  BY <1>1, AppendProperties
<1>5. Append(<<>>, a) = <<a>>
  BY <1>1, <1>2, OneElement
<1>6. Append(<<a>>, b) = <<a, b>>
  <2>1. \A i \in 1..2 : Append(<<a>>, b)[i] = <<a, b>>[i]
    BY <1>1, <1>3
  <2> QED
    BY <1>1, <1>3, <2>1, SeqEqual
<1>7. Append(<<a, b>>, c) = <<a, b, c>>
  <2>1. \A i \in 1..3 : Append(<<a, b>>, c)[i] = <<a, b, c>>[i]
    BY <1>1, <1>4
  <2> QED
    BY <1>1, <1>4, <2>1, SeqEqual
<1> QED
  BY <1>1, <1>5, <1>6, <1>7

LEMMA AppendStrings ==
  /\ \A s : Append(<<>>, s) = <<s>>
  /\ Append(<<"help">>, "trace") = <<"help", "trace">>
  /\ Append(<<"help", "trace">>, "ip") = <<"help", "trace", "ip">>
  /\ Len(<<>>) = 0 /\ Len(<<"help">>) = 1 /\ Len(<<"help", "trace">>) = 2
<1>1. \A s : Append(<<>>, s) = <<s>>
  <2> SUFFICES ASSUME NEW s PROVE Append(<<>>, s) = <<s>>
    OBVIOUS
  <2>1. s \in {s}
    OBVIOUS
  <2> QED
    BY <2>1, AppendToTuple, Zenon
<1>2. \A S : \A a, b, c \in S :
        /\ Append(<<a>>, b) = <<a, b>> /\ Append(<<a, b>>, c) = <<a, b, c>>
        /\ Len(<<a>>) = 1 /\ Len(<<a, b>>) = 2
  BY AppendToTuple, Zenon
<1> DEFINE strings == {"help", "trace", "ip"}
<1>3. "help" \in strings /\ "trace" \in strings /\ "ip" \in strings
  OBVIOUS
<1> HIDE DEF strings
<1>4. Len(<<>>) = 0
  OBVIOUS
<1> QED
  BY <1>1, <1>2, <1>3, <1>4, Zenon

\* The item of the list a call of help writes, by its place
LEMMA HelpItems ==
  /\ xRegisteredCommands[1].pcCommand = "help"
  /\ xRegisteredCommands[2].pcCommand = "trace"
  /\ xRegisteredCommands[3].pcCommand = "ip"
  /\ NextCommand(1) = 2 /\ NextCommand(2) = 3 /\ NextCommand(3) = NULL
  /\ \A c \in Commands : /\ xRegisteredCommands[c] = xHelpCommand <=> c = 1
                         /\ xRegisteredCommands[c] = TRACE_CMD <=> c = 2
                         /\ xRegisteredCommands[c] = IP_CMD <=> c = 3
<1>1. /\ xHelpCommand.pcCommand = "help" /\ TRACE_CMD.pcCommand = "trace"
      /\ IP_CMD.pcCommand = "ip"
  BY DEF xHelpCommand, TRACE_CMD, IP_CMD
<1>2. xHelpCommand # TRACE_CMD /\ xHelpCommand # IP_CMD /\ TRACE_CMD # IP_CMD
  BY ONLY <1>1
<1>3. NextCommand(1) = 2 /\ NextCommand(2) = 3 /\ NextCommand(3) = NULL
  BY RegisteredCommands DEF NextCommand
<1> HIDE DEF xRegisteredCommands
<1> QED
  BY ONLY <1>1, <1>2, <1>3, RegisteredCommands

\* The first call for a line
LEMMA FirstCall ==
  ASSUME TypeOK, CliInv, HelpInv, shell_pc = "process", pxCommand = NULL,
         NEW s, Says(s)
  PROVE  answer' = <<s>>
BY RegisteredCommands, AppendStrings DEF HelpInv, Says

\* One call of help, by its position in the list
LEMMA HelpCall ==
  ASSUME TypeOK, CliInv, HelpInv, shell_pc = "process", NEW l, prvHelpCommand(l)
  PROVE  /\ Current(l) = 1 /\ UNCHANGED enabled
         /\ \/ /\ pxCommand = NULL
               /\ answer' = <<"help">> /\ help_pxCommand' = 2 /\ ReturnsTrue(1)
            \/ /\ pxCommand # NULL /\ help_pxCommand = 2
               /\ answer' = <<"help", "trace">> /\ help_pxCommand' = 3
               /\ ReturnsTrue(1)
            \/ /\ pxCommand # NULL /\ help_pxCommand = 3
               /\ answer' = <<"help", "trace", "ip">> /\ help_pxCommand' = NULL
               /\ ReturnsFalse
<1>1. Current(l) = 1 /\ UNCHANGED enabled
  <2>1. Current(l) \in Commands
    BY CurrentType DEF TypeOK, prvHelpCommand, Calls
  <2> QED
    BY <2>1, HelpItems DEF prvHelpCommand, Calls
<1> DEFINE c == IF help_pxCommand = NULL THEN 1 ELSE help_pxCommand
<1>2. /\ Says(xRegisteredCommands[c].pcCommand)
      /\ help_pxCommand' = NextCommand(c)
      /\ IF help_pxCommand' = NULL THEN ReturnsFalse ELSE ReturnsTrue(1)
  BY <1>1 DEF prvHelpCommand
<1>3. CASE pxCommand = NULL
  <2>1. c = 1
    BY <1>3 DEF CliInv
  <2>2. Says("help") /\ help_pxCommand' = 2
    BY <1>2, <2>1, HelpItems
  <2> QED
    BY <1>1, <1>2, <1>3, <2>2, FirstCall DEF NULL
<1>4. CASE pxCommand # NULL /\ help_pxCommand = 2
  <2>1. c = 2 /\ answer = <<"help">>
    BY <1>4 DEF HelpInv, NULL
  <2>2. Says("trace") /\ help_pxCommand' = 3
    BY <1>2, <2>1, HelpItems
  <2>3. answer' = <<"help", "trace">>
    BY <2>1, <2>2, RegisteredCommands, AppendStrings DEF Says
  <2> QED
    BY <1>1, <1>2, <1>4, <2>2, <2>3 DEF NULL
<1>5. CASE pxCommand # NULL /\ help_pxCommand = 3
  <2>1. c = 3 /\ answer = <<"help", "trace">>
    BY <1>5 DEF HelpInv, NULL
  <2>2. Says("ip") /\ help_pxCommand' = NULL
    BY <1>2, <2>1, HelpItems
  <2>3. answer' = <<"help", "trace", "ip">>
    BY <2>1, <2>2, RegisteredCommands, AppendStrings DEF Says
  <2> QED
    BY <1>1, <1>2, <1>5, <2>2, <2>3
<1> QED
  BY <1>3, <1>4, <1>5 DEF HelpInv

LEMMA HelpStep ==
  TypeOK /\ CliInv /\ NothingBehindTheLine /\ HelpInv /\ [Next]_vars => HelpInv'
<1> SUFFICES ASSUME TypeOK, CliInv, NothingBehindTheLine, HelpInv, [Next]_vars
             PROVE  HelpInv'
  OBVIOUS
<1> USE DEF vars, cli_vars, edit_vars
<1>1. CASE UNCHANGED <<edit_vars, shell_pc, cli_vars, answer>>
  BY <1>1 DEF HelpInv, Line
<1>2. ASSUME NEW c, Receive(c), UNCHANGED cli_vars,
             \/ shell_pc' = shell_pc
             \/ shell_pc' = "process" /\ answer' = <<>>
      PROVE  HelpInv'
  BY <1>2 DEF HelpInv, Receive, CliInv, PositionsAreFresh
<1>3. CASE ProcessCommand
  <2>1. PICK l \in LinesRead :
          \/ NotRecognised(l) \/ IncorrectParameters(l)
          \/ prvHelpCommand(l) \/ trace_cmd(l) \/ ip_cmd(l)
    BY <1>3 DEF ProcessCommand
  <2>2. shell_pc = "process"
    BY <1>3 DEF ProcessCommand
  <2>3. CASE ReturnsFalse
    BY <2>3 DEF ReturnsFalse, HelpInv
  <2>4. CASE prvHelpCommand(l) /\ ReturnsTrue(1)
    <3>1. /\ pxCommand' = 1 /\ UNCHANGED <<shell_pc, edit_vars>>
          /\ \/ help_pxCommand' = 2 /\ answer' = <<"help">>
             \/ help_pxCommand' = 3 /\ answer' = <<"help", "trace">>
      BY <2>2, <2>4, HelpCall DEF ReturnsTrue, ReturnsFalse, NULL
    <3>2. ASSUME input_idx < InputSize
          PROVE  FoundCommand(Line) = 1 /\ HasExpectedParameters(Line, 1)
      <4>1. CASE pxCommand # NULL
        BY <3>2, <4>1 DEF HelpInv
      <4>2. CASE pxCommand = NULL
        <5>1. l = Line
          BY <2>1, <3>2, LineIsRead
        <5>2. Current(l) = FoundCommand(Line) /\ Current(l) = 1
          BY <2>2, <2>4, <4>2, <5>1, HelpCall DEF Current
        <5>3. HasExpectedParameters(Line, Current(l))
          BY <2>4, <4>2, <5>1 DEF prvHelpCommand, Calls
        <5> QED
          BY <5>2, <5>3
      <4> QED
        BY <4>1, <4>2
    <3>3. Line' = Line
      BY <3>1 DEF Line
    <3> QED
      BY <3>1, <3>2, <3>3 DEF HelpInv, NULL
  <2> QED
    BY <2>1, <2>2, <2>3, <2>4, HelpCall
       DEF NotRecognised, IncorrectParameters, trace_cmd, ip_cmd
<1> QED
  BY <1>1, <1>2, <1>3 DEF Next, USART3_IRQHandler, shell_task, CharacterInterrupt,
     ErrorInterrupt, EndOfLine, Backspace, Control, Insert

LEMMA HelpAlways == Spec => []HelpInv
<1>1. Init => HelpInv
  BY DEF Init, HelpInv
<1> QED
  BY <1>1, HelpStep, TypeCorrect, CliAlways, NothingBehind, PTL DEF Spec

\* A step that leaves the line, the loop and the recorder alone, and the
\* answer too unless it is still being given, is none to Console.
LEMMA ConsoleStutters ==
  ASSUME UNCHANGED <<g_input_buffer, input_idx, shell_pc, enabled>>,
         shell_pc = "process" \/ UNCHANGED answer
  PROVE  UNCHANGED Promise!console_vars
BY DEF Promise!console_vars

\* The line that was answered makes room for an empty one.
LEMMA ClearedLine ==
  ASSUME Cleared
  PROVE  SubSeq(g_input_buffer', 1, input_idx') = <<>>
<1>1. /\ g_input_buffer' \in [1..InputSize -> {NUL}] /\ input_idx' = 0
      /\ 0 \in 0..InputSize /\ InputSize \in Nat
  BY InputSizeAssumption DEF Cleared, Zeroed
<1>2. /\ SubSeq(g_input_buffer', 1, input_idx') \in Seq({NUL})
      /\ Len(SubSeq(g_input_buffer', 1, input_idx')) = 0
  BY <1>1, Prefix
<1> QED
  BY <1>2, EmptySeq

LEMMA InsertIsEdit ==
  ASSUME TypeOK, NEW c \in Glyphs, Insert(c)
  PROVE  [Promise!Next]_(Promise!console_vars)
<1>1. shell_pc = "receive" /\ UNCHANGED <<shell_pc, cli_vars, answer>>
  BY DEF Insert, Receive
<1>2. CASE input_idx < InputSize
  <2> DEFINE after == SubSeq(g_input_buffer', 1, input_idx')
             S == Glyphs \union {NUL}
  <2>1. /\ g_input_buffer \in [1..InputSize -> S]
        /\ InputSize \in Nat /\ input_idx \in Nat /\ input_idx + 1 \in 1..InputSize
    BY <1>2, InputSizeAssumption DEF TypeOK
  <2>2. /\ input_idx' = input_idx + 1
        /\ g_input_buffer' = [g_input_buffer EXCEPT ![input_idx + 1] = c]
    BY <1>2 DEF Insert
  <2>3. /\ g_input_buffer' \in [1..InputSize -> S]
        /\ \A i \in 1..input_idx : g_input_buffer'[i] = g_input_buffer[i]
    BY <2>1, <2>2
  <2>4. /\ after \in Seq(S) /\ Len(after) = input_idx + 1
        /\ \A i \in 1..input_idx : after[i] = g_input_buffer[i]
    <3>1. input_idx + 1 \in 0..InputSize
      BY ONLY <2>1
    <3>2. /\ after \in Seq(S) /\ Len(after) = input_idx + 1
          /\ \A i \in 1..(input_idx + 1) : after[i] = g_input_buffer'[i]
      BY <2>1, <2>2, <2>3, <3>1, Prefix
    <3> HIDE DEF after, S
    <3> QED
      BY ONLY <2>1, <2>3, <3>2
  <2>5. /\ Line \in Seq(S) /\ Len(Line) = input_idx
        /\ \A i \in 1..input_idx : Line[i] = g_input_buffer[i]
    BY LineIsTyped
  <2> HIDE DEF after, S
  <2>6. SubSeq(after, 1, Len(Line)) = Line
    <3>1. /\ SubSeq(after, 1, input_idx) \in Seq(S)
          /\ Len(SubSeq(after, 1, input_idx)) = input_idx
          /\ \A i \in 1..input_idx : SubSeq(after, 1, input_idx)[i] = after[i]
      <4>1. after \in [1..(input_idx + 1) -> S] /\ input_idx \in 0..(input_idx + 1)
            /\ input_idx + 1 \in Nat
        BY ONLY <2>1, <2>4, LenProperties
      <4> QED
        BY ONLY <4>1, Prefix
    <3>2. \A i \in 1..input_idx : SubSeq(after, 1, input_idx)[i] = Line[i]
      BY ONLY <2>4, <2>5, <3>1
    <3> QED
      BY ONLY <2>5, <3>1, <3>2, SeqEqual
  <2>7. Promise!Edit
    BY <1>1, <1>2, <2>4, <2>5, <2>6 DEF Promise!Edit, Line, after, cli_vars
  <2> QED
    BY <2>7 DEF Promise!Next
<1>3. CASE ~(input_idx < InputSize)
  BY <1>1, <1>3, ConsoleStutters DEF Insert, edit_vars, cli_vars
<1> QED
  BY <1>2, <1>3

LEMMA BackspaceIsEdit ==
  ASSUME TypeOK, Backspace
  PROVE  [Promise!Next]_(Promise!console_vars)
<1>1. shell_pc = "receive" /\ UNCHANGED <<shell_pc, cli_vars, answer>>
  BY DEF Backspace, Receive
<1>2. CASE input_idx > 0
  <2> DEFINE after == SubSeq(g_input_buffer', 1, input_idx')
             S == Glyphs \union {NUL}
  <2>1. /\ g_input_buffer \in [1..InputSize -> S]
        /\ InputSize \in Nat /\ input_idx \in 1..InputSize
    BY <1>2, InputSizeAssumption DEF TypeOK
  <2>2. /\ input_idx' = input_idx - 1
        /\ g_input_buffer' = [g_input_buffer EXCEPT ![input_idx] = NUL]
    BY <1>2 DEF Backspace
  <2>3. /\ g_input_buffer' \in [1..InputSize -> S]
        /\ \A i \in 1..(input_idx - 1) : g_input_buffer'[i] = g_input_buffer[i]
    BY <2>1, <2>2
  <2>4. /\ after \in Seq(S) /\ Len(after) = input_idx - 1
        /\ \A i \in 1..(input_idx - 1) : after[i] = g_input_buffer'[i]
    <3>1. input_idx - 1 \in 0..InputSize
      BY ONLY <2>1
    <3> QED
      BY <2>1, <2>2, <2>3, <3>1, Prefix
  <2>5. /\ Line \in Seq(S) /\ Len(Line) = input_idx
        /\ \A i \in 1..input_idx : Line[i] = g_input_buffer[i]
    BY LineIsTyped
  <2> DEFINE front == SubSeq(Line, 1, Len(Line) - 1)
  <2>6. /\ front \in Seq(S) /\ Len(front) = input_idx - 1
        /\ \A i \in 1..(input_idx - 1) : front[i] = Line[i]
    <3> HIDE DEF S
    <3>1. Line \in [1..input_idx -> S] /\ input_idx \in Nat
          /\ input_idx - 1 \in 0..input_idx
      BY ONLY <2>1, <2>5, LenProperties
    <3> QED
      BY ONLY <2>5, <3>1, Prefix
  <2> HIDE DEF after, front, S
  <2>7. after = front
    <3>1. \A i \in 1..(input_idx - 1) : after[i] = front[i]
      <4>1. \A i \in 1..(input_idx - 1) : i \in 1..input_idx
        BY ONLY <2>1
      <4> QED
        BY ONLY <2>3, <2>4, <2>5, <2>6, <4>1
    <3> QED
      BY ONLY <2>4, <2>6, <3>1, SeqEqual
  <2>8. Line # <<>>
    BY <2>1, <2>5
  <2>9. Promise!Edit
    BY <1>1, <2>7, <2>8 DEF Promise!Edit, Line, after, front, cli_vars
  <2> QED
    BY <2>9 DEF Promise!Next
<1>3. CASE ~(input_idx > 0)
  BY <1>1, <1>3, ConsoleStutters DEF Backspace, edit_vars, cli_vars
<1> QED
  BY <1>2, <1>3

\* The call that returns pdFALSE has given the outcome Console promises.
LEMMA LastCallGivesOutcome ==
  ASSUME TypeOK, CliInv, HelpInv, shell_pc = "process", ReturnsFalse,
         \/ NotRecognised(Line) \/ IncorrectParameters(Line)
         \/ prvHelpCommand(Line) \/ trace_cmd(Line) \/ ip_cmd(Line),
         input_idx < InputSize
  PROVE  <<answer', enabled'>> = Promise!Outcome
<1> DEFINE c == FoundCommand(Line)
           expected == HasExpectedParameters(Line, c)
<1>1. c \in Commands \union {NULL}
  BY FoundCommandType
<1>2. pxCommand = NULL => Current(Line) = c
  BY DEF Current
<1>3. CASE NotRecognised(Line)
  <2>1. pxCommand = NULL /\ Current(Line) = NULL
    BY <1>3 DEF NotRecognised, Current
  <2>2. answer' = <<"not recognised">> /\ enabled' = enabled
    BY <1>3, <2>1, FirstCall DEF NotRecognised
  <2>3. c = NULL
    BY <1>2, <2>1
  <2> QED
    BY <2>2, <2>3, OutcomeByCommand
<1>4. CASE IncorrectParameters(Line)
  <2>1. pxCommand = NULL /\ c # NULL /\ ~expected
    BY <1>2, <1>4 DEF IncorrectParameters
  <2>2. answer' = <<"incorrect parameters">> /\ enabled' = enabled
    BY <1>4, <2>1, FirstCall DEF IncorrectParameters
  <2> QED
    BY <2>1, <2>2, OutcomeByCommand
<1>5. CASE prvHelpCommand(Line)
  <2>1. ~ReturnsTrue(1)
    BY DEF ReturnsTrue, ReturnsFalse, NULL
  <2>2. /\ pxCommand # NULL /\ UNCHANGED enabled
        /\ answer' = <<"help", "trace", "ip">>
    BY <1>5, <2>1, HelpCall
  <2>3. c = 1 /\ expected
    BY <2>2 DEF HelpInv
  <2> QED
    BY <2>2, <2>3, OutcomeByCommand
<1>6. CASE trace_cmd(Line)
  <2>1. pxCommand = NULL
    BY <1>6, CommandsDiffer DEF trace_cmd, Calls, Current, CliInv
  <2>2. c = 2 /\ expected
    BY <1>1, <1>2, <1>6, <2>1, HelpItems DEF trace_cmd, Calls
  <2>3. /\ answer' = <<TraceReply(FirstParameter(Line), enabled)>>
        /\ enabled' = TraceEffect(FirstParameter(Line), enabled)
    BY <1>6, <2>1, FirstCall DEF trace_cmd
  <2> QED
    BY <2>2, <2>3, OutcomeByCommand
<1>7. CASE ip_cmd(Line)
  <2>1. pxCommand = NULL
    BY <1>7, CommandsDiffer DEF ip_cmd, Calls, Current, CliInv
  <2>2. c = 3 /\ expected
    BY <1>1, <1>2, <1>7, <2>1, HelpItems DEF ip_cmd, Calls
  <2>3. answer' = <<IpReply(FirstParameter(Line))>> /\ enabled' = enabled
    BY <1>7, <2>1, FirstCall DEF ip_cmd
  <2> QED
    BY <2>2, <2>3, OutcomeByCommand
<1> QED
  BY <1>3, <1>4, <1>5, <1>6, <1>7

\* A call of the interpreter is the answer, or a part of it that Console does
\* not tell from the rest.
LEMMA CallIsAnswer ==
  ASSUME TypeOK, CliInv, NothingBehindTheLine, HelpInv, ProcessCommand
  PROVE  [Promise!Next]_(Promise!console_vars)
<1>1. PICK l \in LinesRead :
        \/ NotRecognised(l) \/ IncorrectParameters(l)
        \/ prvHelpCommand(l) \/ trace_cmd(l) \/ ip_cmd(l)
  BY DEF ProcessCommand
<1>2. shell_pc = "process"
  BY DEF ProcessCommand
<1>3. CASE ReturnsFalse
  <2>1. shell_pc' = "receive" /\ Cleared
    BY <1>3 DEF ReturnsFalse
  <2>2. SubSeq(g_input_buffer', 1, input_idx') = <<>>
    BY <2>1, ClearedLine
  <2>3. ASSUME Len(Line) < InputSize
        PROVE  <<answer', enabled'>> = Promise!Outcome
    <3>1. input_idx < InputSize
      BY <2>3, LineIsTyped
    <3>2. l = Line
      BY <1>1, <3>1, LineIsRead
    <3> QED
      BY <1>1, <1>2, <1>3, <3>1, <3>2, LastCallGivesOutcome
  <2>4. Promise!Answer
    BY <1>2, <2>1, <2>2, <2>3 DEF Promise!Answer, Line
  <2> QED
    BY <2>4 DEF Promise!Next
<1>4. CASE prvHelpCommand(l) /\ ReturnsTrue(1)
  <2>1. UNCHANGED <<g_input_buffer, input_idx, shell_pc, enabled>>
    BY <1>2, <1>4, HelpCall DEF ReturnsTrue, edit_vars
  <2> QED
    BY <1>2, <2>1, ConsoleStutters
<1> QED
  BY <1>1, <1>2, <1>3, <1>4, HelpCall
     DEF NotRecognised, IncorrectParameters, trace_cmd, ip_cmd

\* The shell gives each line exactly the answer Console promises for its
\* words, in as many calls as it takes.
THEOREM ConsoleRefinement == Spec => ImplementsConsole
<1>1. Init => Promise!Init
  <2> SUFFICES ASSUME Init PROVE Promise!Init
    OBVIOUS
  <2>1. SubSeq(g_input_buffer, 1, input_idx) = <<>>
    <3>1. g_input_buffer \in [1..InputSize -> {NUL}] /\ input_idx = 0
          /\ 0 \in 0..InputSize /\ InputSize \in Nat
      BY InputSizeAssumption DEF Init, Zeroed
    <3>2. /\ SubSeq(g_input_buffer, 1, input_idx) \in Seq({NUL})
          /\ Len(SubSeq(g_input_buffer, 1, input_idx)) = 0
      BY <3>1, Prefix
    <3> QED
      BY <3>2, EmptySeq
  <2> QED
    BY <2>1 DEF Init, Promise!Init
<1>2. TypeOK /\ CliInv /\ NothingBehindTheLine /\ HelpInv /\ [Next]_vars
        => [Promise!Next]_(Promise!console_vars)
  <2> SUFFICES ASSUME TypeOK, CliInv, NothingBehindTheLine, HelpInv, [Next]_vars
               PROVE  [Promise!Next]_(Promise!console_vars)
    OBVIOUS
  <2>1. CASE EndOfLine
    <3>1. /\ shell_pc = "receive" /\ shell_pc' = "process"
          /\ UNCHANGED <<g_input_buffer, input_idx, enabled>>
      BY <2>1 DEF EndOfLine, Receive, edit_vars, cli_vars
    <3>2. Promise!Enter
      BY <3>1 DEF Promise!Enter
    <3> QED
      BY <3>2 DEF Promise!Next
  <2>2. CASE ProcessCommand
    BY <2>2, CallIsAnswer
  <2>3. CASE Backspace
    BY <2>3, BackspaceIsEdit
  <2>4. ASSUME NEW c \in Glyphs, Insert(c)
        PROVE  [Promise!Next]_(Promise!console_vars)
    BY <2>4, InsertIsEdit
  <2>5. CASE UNCHANGED <<edit_vars, shell_pc, cli_vars, answer>>
    BY <2>5, ConsoleStutters DEF edit_vars, cli_vars
  <2> QED
    BY <2>1, <2>2, <2>3, <2>4, <2>5 DEF Next, USART3_IRQHandler, shell_task,
       CharacterInterrupt, ErrorInterrupt, Control, vars
<1> QED
  BY <1>1, <1>2, TypeCorrect, CliAlways, NothingBehind, HelpAlways, PTL
     DEF Spec, ImplementsConsole, Promise!Spec
=============================================================================

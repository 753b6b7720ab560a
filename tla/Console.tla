------------------------------ MODULE Console ------------------------------
(***************************************************************************)
(* What the shell promises to the person who types: a line that can be     *)
(* edited, and for every line that is entered exactly one complete answer, *)
(* that of the command whose words the line consists of.  The answer is    *)
(* stated about the words of the line, without a word on how it is parsed. *)
(*                                                                         *)
(* No promise is made about a line that fills the buffer.                  *)
(***************************************************************************)
EXTENDS Naturals, Sequences, FiniteSets

CONSTANTS Blank,    \* the glyph that separates words
          LineSize  \* the glyphs a line has room for

VARIABLES line,     \* the line being typed
          entered,  \* whether it is entered and waits for its answer
          answer,   \* the strings of the last answer
          enabled   \* the trace recorder is on

console_vars == <<line, entered, answer, enabled>>

-----------------------------------------------------------------------------
(* Words                                                                   *)

\* The first and the last place of each word
Words ==
  {w \in (1..Len(line)) \X (1..Len(line)) :
     /\ w[1] <= w[2]
     /\ \A i \in w[1]..w[2] : line[i] # Blank
     /\ w[1] = 1 \/ line[w[1] - 1] = Blank
     /\ w[2] = Len(line) \/ line[w[2] + 1] = Blank}

\* The line begins with the word `name' alone.
Begins(name) == <<1, 1>> \in Words /\ line[1] = name

\* The line ends with the word `parameter' alone; a blank behind it makes it
\* another answer, as the commands compare the rest of the line.
Ends(parameter) == /\ <<Len(line), Len(line)>> \in Words
                   /\ line[Len(line)] = parameter

\* The line begins with a command and has not as many words as that takes.
WrongCount == \/ Begins("help") /\ Cardinality(Words) # 1
              \/ (Begins("trace") \/ Begins("ip")) /\ Cardinality(Words) # 2

\* What trace does and says, and what ip says
TraceOutcome ==
  CASE Ends("start")  -> <<<<IF enabled THEN "restarted" ELSE "started">>, TRUE>>
    [] Ends("stop")   -> <<<<"stopped">>, FALSE>>
    [] Ends("status") -> <<<<IF enabled THEN "enabled" ELSE "disabled">>, enabled>>
    [] OTHER          -> <<<<"trace: valid parameters">>, enabled>>
IpOutcome ==
  IF Ends("info") THEN <<<<"address">>, enabled>>
                  ELSE <<<<"ip: valid parameters">>, enabled>>

\* The answer to the line, and the state of the recorder after it.  A command
\* with the wrong number of words is told so.
Outcome ==
  IF WrongCount THEN <<<<"incorrect parameters">>, enabled>>
  ELSE CASE Begins("help")  -> <<<<"help", "trace", "ip">>, enabled>>
         [] Begins("trace") -> TraceOutcome
         [] Begins("ip")    -> IpOutcome
         [] OTHER           -> <<<<"not recognised">>, enabled>>

-----------------------------------------------------------------------------
Init == line = <<>> /\ ~entered /\ answer = <<>> /\ enabled = TRUE

\* A glyph goes to the end of the line while there is room, or takes the last
\* one away.
Edit == /\ ~entered
        /\ \/ /\ Len(line) < LineSize
              /\ Len(line') = Len(line) + 1
              /\ SubSeq(line', 1, Len(line)) = line
           \/ line # <<>> /\ line' = SubSeq(line, 1, Len(line) - 1)
        /\ UNCHANGED <<entered, answer, enabled>>

Enter == /\ ~entered
         /\ entered' = TRUE
         /\ answer' = <<>>
         /\ UNCHANGED <<line, enabled>>

Answer == /\ entered
          /\ entered' = FALSE
          /\ line' = <<>>
          /\ Len(line) < LineSize => <<answer', enabled'>> = Outcome

Next == Edit \/ Enter \/ Answer

Spec == Init /\ [][Next]_console_vars
=============================================================================

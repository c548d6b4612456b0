--------------------------- MODULE CommandParser ---------------------------
(***************************************************************************)
(* chat/commands: what becomes of a line that starts with '/'.             *)
(*                                                                         *)
(* A line is the sequence of its words between single spaces; the empty    *)
(* word "" stands for nothing between two spaces, or before or after one.  *)
(* The '/' itself is not part of the first word.                           *)
(***************************************************************************)
EXTENDS ChatProtocol

\* StringUtil::split reads with getline, which yields no last empty word.
split(words) ==
  IF words[Len(words)] = "" THEN SubSeq(words, 1, Len(words) - 1) ELSE words

getCommandType(word) ==
  CASE word = "mute" -> "MUTE"
    [] word = "unmute" -> "UNMUTE"
    [] word = "kick" -> "KICK"
    [] word = "motd" -> "MOTD"
    [] word = "auth" -> "AUTH"
    [] OTHER -> "UNKNOWN"

\* Mutant: a motd is its first word.
firstWord(command, arguments) ==
  IF command = "MOTD" THEN <<SubSeq(arguments, 1, 1)>>
  ELSE IF Len(arguments) = 1 THEN arguments
  ELSE << >>

\* A motd may contain spaces: its words are joined to one argument.  The
\* other commands want exactly one word and otherwise add no argument.
insertData(command, arguments) ==
  IF command = "MOTD" THEN <<arguments>>
  ELSE IF Len(arguments) = 1 THEN arguments
  ELSE << >>

\* None is the nullptr of a line that is no command.
chatCommand(words) ==
  LET commandArgs == split(words)
      command == getCommandType(commandArgs[1])
  IN IF Len(commandArgs) < 2 \/ command = "UNKNOWN"
       THEN None
       ELSE ChatCommand(command, insertData(command, Tail(commandArgs)))
=============================================================================

-------------------------------- MODULE Log ---------------------------------
(***************************************************************************)
(* The logger (src/src/log.c): levels, streams and the JSON form of a      *)
(* line.  A message is a sequence of characters, kept to the classes that  *)
(* write_json_escaped tells apart.                                         *)
(***************************************************************************)
EXTENDS Integers, Sequences

DEBUG == 0   \* LOG_LEVEL_DEBUG
INFO  == 1
WARN  == 2
ERROR == 3
Levels == DEBUG .. ERROR

\* The level LOG_LEVEL asks for; "unset" and a typo mean INFO.
LevelNames == [debug |-> DEBUG, info |-> INFO, warn |-> WARN, error |-> ERROR]
log_init(level_env) ==
  IF level_env \in DOMAIN LevelNames THEN LevelNames[level_env] ELSE INFO

log_level_enabled(g_level, level) == level >= g_level

\* The stream emit writes to.
Stream(level) == IF level >= WARN THEN "stderr" ELSE "stdout"

-----------------------------------------------------------------------------
QUOTE     == "quote"
BACKSLASH == "backslash"
NEWLINE   == "newline"
Named     == {NEWLINE, "return", "tab"}   \* control characters with a letter
Control   == "control"                    \* the other ones below 0x20
Plain     == {"n", "r", "t", "u"}         \* letters, and any byte from 0x20 on,
                                          \* those above 0x7f included
Chars     == {QUOTE, BACKSLASH, Control} \union Named \union Plain

Letter == [newline |-> "n", return |-> "r", tab |-> "t"]

\* Mutant: a backslash is an ordinary character.
EscapedQuote(c) ==
  CASE c = QUOTE -> <<BACKSLASH, c>>
    [] c \in Named -> <<BACKSLASH, Letter[c]>>
    [] c = Control -> <<BACKSLASH, "u">>
    [] OTHER -> <<c>>
\* What write_json_escaped writes for c; "u" stands for u and four digits.
Escaped(c) ==
  CASE c \in {QUOTE, BACKSLASH} -> <<BACKSLASH, c>>
    [] c \in Named -> <<BACKSLASH, Letter[c]>>
    [] c = Control -> <<BACKSLASH, "u">>
    [] OTHER -> <<c>>
=============================================================================

----------------------------- MODULE LineEditor -----------------------------
(***************************************************************************)
(* The recovery prompt's line editor: command_prompt, safe_gets and the    *)
(* entry of command_parse (boot/parser.c).                                 *)
(*                                                                         *)
(* One action handles one character from the serial line.  The buffer      *)
(* between str and lp is the sequence buffer; screen is what the terminal  *)
(* shows on the current line once it has obeyed what safe_gets sent.       *)
(***************************************************************************)
EXTENDS Integers, SequencesExt

CONSTANTS
    Printable,  \* characters from ' ' to '~' other than the editing ones
    BufferSize  \* size of command_prompt's buffer, 256 in the code

Prompt == <<"]", " ">>

ASSUME BufferAssumption == BufferSize \in Nat /\ BufferSize > Len(Prompt)

VARIABLES
    buffer,    \* str[0 .. lp - str - 1]
    screen,    \* the text on the terminal's current line
    typed,     \* ghost: the characters typed and kept since the line was begun
               \* or last killed
    killed,    \* ghost: this line was killed
    executing  \* what command_parse hands to util_parse, or NoCommand

vars == <<buffer, screen, typed, killed, executing>>

NoCommand == <<>>
Characters == Printable \union {"]", " "}
Lines == BoundedSeq(Characters, BufferSize)

TypeOK == /\ buffer \in Lines /\ screen \in Lines /\ typed \in Lines
          /\ killed \in BOOLEAN
          /\ executing \in Lines

\* safe_gets begins by copying the prompt into the buffer and echoing it.
Begin(ex) == /\ buffer' = Prompt
             /\ screen' = Prompt
             /\ typed' = <<>>
             /\ killed' = FALSE
             /\ executing' = ex

Init == /\ buffer = Prompt
        /\ screen = Prompt
        /\ typed = <<>>
        /\ killed = FALSE
        /\ executing = NoCommand

\* Mutant: no room kept for the NUL.
RoomToTheEnd == Len(buffer) < BufferSize

\* strmax leaves room for the terminating NUL.
HasRoom == Len(buffer) < BufferSize - 1

Type(c) ==
    /\ HasRoom
    /\ buffer' = Append(buffer, c)
    /\ screen' = Append(screen, c)
    /\ typed' = Append(typed, c)
    /\ executing' = NoCommand
    /\ UNCHANGED killed

\* Mutant: echoes before looking for room.
TypeFullEchoes ==
    /\ ~HasRoom
    /\ \E c \in Printable : screen' = Append(screen, c)
    /\ executing' = NoCommand
    /\ UNCHANGED <<buffer, typed, killed>>

\* A character that does not fit is neither kept nor echoed.
TypeFull ==
    /\ ~HasRoom
    /\ executing' = NoCommand
    /\ UNCHANGED <<buffer, screen, typed, killed>>

\* Backspace, '#' and delete, as far as the prompt.
Erase ==
    /\ Len(buffer) > Len(Prompt)
    /\ buffer' = Front(buffer)
    /\ screen' = Front(screen)
    /\ typed' = Front(typed)
    /\ executing' = NoCommand
    /\ UNCHANGED killed

EraseNothing ==
    /\ Len(buffer) <= Len(Prompt)
    /\ executing' = NoCommand
    /\ UNCHANGED <<buffer, screen, typed, killed>>

\* '@' and control-U begin a new line on the terminal and at the start of the
\* buffer; the prompt is neither copied nor echoed again.
Kill ==
    /\ buffer' = <<>>
    /\ screen' = <<>>
    /\ typed' = <<>>
    /\ killed' = TRUE
    /\ executing' = NoCommand

\* Mutant: ignores a command of one character as well.
SubmitIgnoresOne ==
    Begin(IF Len(buffer) <= 3 THEN NoCommand
          ELSE SubSeq(buffer, Len(Prompt) + 1, Len(buffer)))

\* Newline.  command_parse ignores a line shorter than three characters and
\* skips two in any other; safe_gets then begins the next line.
Submit ==
    Begin(IF Len(buffer) < 3 THEN NoCommand
          ELSE SubSeq(buffer, Len(Prompt) + 1, Len(buffer)))

Next == (\E c \in Printable : Type(c)) \/ TypeFull \/ Erase \/ EraseNothing
        \/ Kill \/ Submit

Spec == Init /\ [][Next]_vars

-----------------------------------------------------------------------------
(* Properties *)

\* The terminating NUL that a newline writes always falls into the buffer.
NulFits == Len(buffer) + 1 <= BufferSize

\* However the line was typed, erased and killed, the terminal shows exactly
\* the buffer: nothing invisible is ever submitted.
ScreenShowsBuffer == screen = buffer

\* Unless the line was killed, no erasing reaches into the prompt, and what
\* follows the prompt is what was typed.
PromptKept == ~killed => buffer = Prompt \o typed

\* A submitted line that was not killed executes exactly what was typed.
ExecutesTyped ==
    [][Submit /\ ~killed => executing' = typed]_vars
=============================================================================

---------------------------- MODULE CommandParse ----------------------------
(***************************************************************************)
(* A command line of the console (boot/parser.c): cut into an array of     *)
(* tokens that the dispatched function gets.  Blanks between quotes are    *)
(* exchanged for the character -1, which cannot be typed, while strtok     *)
(* cuts the line.                                                          *)
(***************************************************************************)
EXTENDS CString, FiniteSets

CONSTANTS ArraySize,   \* 8: the length of command_parse's array
          gDispatch    \* the names of the commands, in order

VARIABLES str,      \* the line after the prompt
          array,    \* its tokens, up to the first NULL
          called,   \* the function that was called: its index, 0 for none
          argc

vars == <<str, array, called, argc>>

Quote == "\""
Blank == " "
Kept == "-1"
Delimiters == {Blank, ","}

\* Mutant: nquote is never reset.
WithinFirst(input, i) == \E k \in 1 .. i - 1 : input[k] = Quote

\* nquote = 1 at position i
Within(input, i) == Cardinality({k \in 1 .. i - 1 : input[k] = Quote}) % 2 = 1

Saved(input) ==
    [i \in DOMAIN input |-> IF Within(input, i) /\ input[i] = Blank THEN Kept ELSE input[i]]

Restored(token) == [i \in DOMAIN token |-> IF token[i] = Kept THEN Blank ELSE token[i]]

\* argv, up to the first NULL
util_parse(input, delimiters, max_tokens) ==
    LET calls[i \in 1 .. max_tokens] ==
            strtok(Saved(input), IF i = 1 THEN 1 ELSE calls[i - 1].last, delimiters)
        tokens == FlattenSeq([i \in 1 .. max_tokens |-> calls[i].tokens])
    IN  [i \in DOMAIN tokens |-> IF i = 1 THEN tokens[i] ELSE Restored(tokens[i])]

-----------------------------------------------------------------------------

\* The first entry of the table that has the name of the command.
command_parse ==
    /\ str # <<>>
    /\ array' = util_parse(str, Delimiters, ArraySize)
    /\ LET named == {x \in DOMAIN gDispatch : array' # <<>> /\ gDispatch[x] = array'[1]}
       IN  IF named = {} THEN called' = 0 /\ argc' = 0   \* ?SYNTAX ERROR
           ELSE /\ called' = CHOOSE x \in named : \A y \in named : x <= y
                /\ argc' = Len(array') - 1
    /\ str' = <<>>

-----------------------------------------------------------------------------
(* Properties *)

\* A line that is cut at every comma and at the blanks outside of quotes.
Parts(line) ==
    LET quotes(i) == Cardinality({k \in 1 .. i : line[k] = Quote})
        step(r, i) == IF line[i] = "," \/ (line[i] = Blank /\ quotes(i) % 2 = 0)
                      THEN Append(r, <<>>) ELSE [r EXCEPT ![Len(r)] = Append(@, line[i])]
    IN  SelectSeq(FoldLeftDomain(LAMBDA r, i : step(r, i), <<<<>>>>, line),
                  LAMBDA part : part # <<>>)

\* The arguments of a call are the parts of the line.
ArgumentsMeant ==
    [][command_parse /\ called' # 0 =>
          LET parts == Parts(str)
          IN  /\ argc' = (IF Len(parts) <= ArraySize THEN Len(parts) ELSE ArraySize) - 1
              /\ \A i \in 1 .. argc' : array'[i + 1] = parts[i + 1]]_vars
=============================================================================

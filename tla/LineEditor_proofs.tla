-------------------------- MODULE LineEditor_proofs --------------------------
(***************************************************************************)
(* Proofs about LineEditor, for every buffer size and character set.       *)
(***************************************************************************)
EXTENDS LineEditor, TLAPS

\* The types without the bound on lengths, which NulFits gives.
Typed == /\ buffer \in Seq(Characters)
         /\ typed \in Seq(Characters)
         /\ killed \in BOOLEAN

\* What was typed is in the buffer, after the prompt unless that was killed.
Laid == buffer = (IF killed THEN <<>> ELSE Prompt) \o typed

IInv == Typed /\ NulFits /\ ScreenShowsBuffer /\ Laid

\* The prompt is a line of two characters.
LEMMA PromptLine == /\ Prompt \in Seq(Characters)
                    /\ Len(Prompt) = 2
                    /\ Prompt \o <<>> = Prompt
<1>1. Prompt \in Seq(Characters) /\ Len(Prompt) = 2
  BY DEF Prompt, Characters
<1>. QED  BY <1>1

\* A fresh line satisfies the invariant.
LEMMA FreshLine ==
    ASSUME buffer = Prompt, screen = Prompt, typed = <<>>, killed = FALSE
    PROVE  IInv
<1>0. killed \in BOOLEAN
  OBVIOUS
<1>1. Typed
  BY <1>0, PromptLine DEF Typed
<1>2. NulFits
  BY PromptLine, BufferAssumption DEF NulFits
<1>3. ScreenShowsBuffer
  BY DEF ScreenShowsBuffer
<1>4. Laid
  BY PromptLine DEF Laid
<1>. QED  BY <1>1, <1>2, <1>3, <1>4 DEF IInv

\* Every key keeps the invariant.
LEMMA KeyStep ==
    ASSUME IInv, [Next]_vars
    PROVE  IInv'
<1>. DEFINE pre == IF killed THEN <<>> ELSE Prompt
<1>0. /\ pre \in Seq(Characters) /\ buffer = pre \o typed
      /\ buffer \in Seq(Characters) /\ typed \in Seq(Characters)
      /\ screen = buffer /\ killed \in BOOLEAN
      /\ Len(buffer) + 1 <= BufferSize
  BY PromptLine DEF IInv, Typed, Laid, ScreenShowsBuffer, NulFits
<1>. HIDE DEF pre
<1>10. pre \in Seq(Characters) /\ typed \in Seq(Characters)
  BY <1>0
<1>1. ASSUME NEW c \in Printable, Type(c) PROVE IInv'
  <2>1. c \in Characters
    BY DEF Characters
  <2>2. /\ buffer' = Append(buffer, c) /\ screen' = Append(screen, c)
        /\ typed' = Append(typed, c) /\ killed' = killed
        /\ Len(buffer) < BufferSize - 1
    BY <1>1 DEF Type, HasRoom
  <2>3. Append(pre \o typed, c) = pre \o Append(typed, c)
    BY <1>10, <2>1
  <2>4. buffer' \in Seq(Characters) /\ typed' \in Seq(Characters)
    BY <1>0, <2>1, <2>2
  <2>5. Len(buffer') + 1 <= BufferSize
    BY <1>0, <2>2, BufferAssumption
  <2>6. killed' \in BOOLEAN /\ screen' = buffer'
    BY <1>0, <2>2
  <2>7. pre' = pre
    BY <2>2 DEF pre
  <2>8. Typed'
    BY <2>4, <2>6 DEF Typed
  <2>9. Laid'
    BY <1>0, <2>2, <2>3, <2>7 DEF Laid, pre
  <2>. QED  BY <2>5, <2>6, <2>8, <2>9 DEF IInv, ScreenShowsBuffer, NulFits
<1>2. ASSUME Erase PROVE IInv'
  <2>1. /\ buffer' = Front(buffer) /\ screen' = Front(screen)
        /\ typed' = Front(typed) /\ killed' = killed
        /\ Len(buffer) > 2
    BY <1>2, PromptLine DEF Erase
  <2>2. Len(typed) > 0
    <3>1. Len(pre) <= 2
      <4>1. CASE killed
        BY <4>1 DEF pre
      <4>2. CASE ~killed
        <5>1. pre = Prompt
          BY <4>2 DEF pre
        <5>2. Len(Prompt) = 2
          BY PromptLine
        <5>. QED  BY <5>1, <5>2
      <4>. QED  BY <4>1, <4>2
    <3>2. Len(pre \o typed) = Len(pre) + Len(typed)
      BY <1>10
    <3>3. Len(pre) \in Nat /\ Len(typed) \in Nat
      BY <1>10
    <3>4. Len(pre \o typed) > 2
      BY <1>0, <2>1
    <3>. QED  BY <3>1, <3>2, <3>3, <3>4
  <2>3. Front(pre \o typed) = pre \o Front(typed)
    BY <1>10, <2>2 DEF Front
  <2>4. buffer' \in Seq(Characters) /\ typed' \in Seq(Characters)
    BY <1>0, <2>1, <2>2 DEF Front
  <2>5. Len(buffer') + 1 <= BufferSize
    BY <1>0, <2>1, BufferAssumption DEF Front
  <2>6. killed' \in BOOLEAN /\ screen' = buffer'
    BY <1>0, <2>1
  <2>7. pre' = pre
    BY <2>1 DEF pre
  <2>8. Typed'
    BY <2>4, <2>6 DEF Typed
  <2>9. Laid'
    BY <1>0, <2>1, <2>3, <2>7 DEF Laid, pre
  <2>. QED  BY <2>5, <2>6, <2>8, <2>9 DEF IInv, ScreenShowsBuffer, NulFits
<1>3. ASSUME Kill PROVE IInv'
  <2>1. buffer' = <<>> /\ screen' = <<>> /\ typed' = <<>> /\ killed' = TRUE
    BY <1>3 DEF Kill
  <2>2. <<>> \in Seq(Characters) /\ <<>> \o <<>> = <<>> /\ Len(<<>>) = 0
    OBVIOUS
  <2>3. Len(buffer') + 1 <= BufferSize
    BY <2>1, <2>2, BufferAssumption, PromptLine
  <2>4. Laid' /\ Typed'
    BY <2>1, <2>2 DEF Laid, Typed
  <2>. QED  BY <2>1, <2>3, <2>4 DEF IInv, ScreenShowsBuffer, NulFits
<1>4. ASSUME Submit PROVE IInv'
  <2>1. buffer' = Prompt /\ screen' = Prompt /\ typed' = <<>> /\ killed' = FALSE
    BY <1>4 DEF Submit, Begin
  <2>2. Typed'
    <3>1. killed' \in BOOLEAN
      BY <2>1
    <3>. QED  BY <2>1, <3>1, PromptLine DEF Typed
  <2>3. Laid'
    BY <2>1, PromptLine DEF Laid
  <2>4. Len(buffer') + 1 <= BufferSize
    BY <2>1, PromptLine, BufferAssumption
  <2>. QED  BY <2>1, <2>2, <2>3, <2>4 DEF IInv, ScreenShowsBuffer, NulFits
<1>5. ASSUME UNCHANGED <<buffer, screen, typed, killed>> PROVE IInv'
  BY <1>5 DEF IInv, Typed, Laid, ScreenShowsBuffer, NulFits
<1>. QED
  BY <1>1, <1>2, <1>3, <1>4, <1>5 DEF Next, TypeFull, EraseNothing, vars

\* The invariant holds in every reachable state.
THEOREM Invariance == Spec => []IInv
<1>1. Init => IInv
  BY FreshLine DEF Init
<1>. QED  BY <1>1, KeyStep, PTL DEF Spec

\* A newline never writes its NUL past the buffer, whatever the buffer's size.
THEOREM NulAlwaysFits == Spec => []NulFits
<1>1. IInv => NulFits
  BY DEF IInv
<1>. QED  BY Invariance, <1>1, PTL

\* The terminal always shows exactly what a newline would submit.
THEOREM ScreenIsBuffer == Spec => []ScreenShowsBuffer
<1>1. IInv => ScreenShowsBuffer
  BY DEF IInv
<1>. QED  BY Invariance, <1>1, PTL

\* No erasing reaches into the prompt of a line that was not killed.
THEOREM PromptStays == Spec => []PromptKept
<1>1. IInv => PromptKept
  BY DEF IInv, Laid, PromptKept
<1>. QED  BY Invariance, <1>1, PTL

\* Two sequences put together: how long they are, and how to get the second back.
LEMMA SecondPart ==
    ASSUME NEW S, NEW first \in Seq(S), NEW second \in Seq(S)
    PROVE  /\ Len(first \o second) = Len(first) + Len(second)
           /\ SubSeq(first \o second, Len(first) + 1, Len(first) + Len(second)) = second
OBVIOUS

\* What a newline executes is what follows the prompt.
LEMMA SubmitExecutes == IInv => (Submit /\ ~killed => executing' = typed)
<1>. SUFFICES ASSUME IInv, Submit, ~killed
              PROVE  executing' = typed
  OBVIOUS
<1>1. buffer = Prompt \o typed /\ typed \in Seq(Characters)
  BY DEF IInv, Laid, Typed
<1>2. /\ Len(buffer) = 2 + Len(typed) /\ Len(typed) \in Nat
      /\ SubSeq(buffer, 3, 2 + Len(typed)) = typed
  <2>1. /\ Len(Prompt \o typed) = Len(Prompt) + Len(typed)
        /\ SubSeq(Prompt \o typed, Len(Prompt) + 1, Len(Prompt) + Len(typed)) = typed
    BY <1>1, PromptLine, SecondPart
  <2>2. Len(typed) \in Nat /\ Len(Prompt) = 2
    BY <1>1, PromptLine
  <2>. QED  BY <1>1, <2>1, <2>2
<1>3. executing' = IF Len(buffer) < 3 THEN <<>> ELSE SubSeq(buffer, 3, Len(buffer))
  BY PromptLine DEF Submit, Begin, NoCommand
<1>4. CASE Len(buffer) < 3
  BY <1>1, <1>2, <1>3, <1>4
<1>5. CASE ~ (Len(buffer) < 3)
  BY <1>2, <1>3, <1>5
<1>. QED  BY <1>4, <1>5

\* command_parse: a line that was never killed executes exactly what was typed,
\* however much of it was erased again and whatever did not fit.
THEOREM TypedExecuted == Spec => ExecutesTyped
<1>1. IInv => [Submit /\ ~killed => executing' = typed]_vars
  BY SubmitExecutes
<1>. QED  BY <1>1, Invariance, PTL DEF ExecutesTyped
=============================================================================

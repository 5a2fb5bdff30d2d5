----------------------------- MODULE NvramList -----------------------------
(***************************************************************************)
(* The NVRAM variables (boot/nvram.c), the boot steps that fill and read   *)
(* them (boot/main.c) and the console commands that work on them           *)
(* (boot/commands.c).                                                      *)
(*                                                                         *)
(* The variables are a singly linked list whose tail pointer points at the *)
(* cell that holds the terminating NULL: the header's head or the last     *)
(* node's next.  A cell is therefore modelled as Header or the node it is  *)
(* in, and link[c] is what cell c points at.                               *)
(*                                                                         *)
(* The bootloader thread alone runs this code and nothing preempts it, so  *)
(* one call is one action.  Names and settings are opaque: what counts is  *)
(* that a node keeps no more than 63 characters of a name.                 *)
(***************************************************************************)
EXTENDS Integers, Sequences, FiniteSets, FiniteSetsExt, Functions

CONSTANTS
    MaxNodes,   \* bound: how many nodes malloc hands out; none is ever freed
    NULL,
    Names,      \* the names callers use
    LongNames,  \* those of more than 63 characters
    Cut,        \* Cut[n]: the first 63 characters of the long name n
    Settings,
    Defaults    \* gNvramDefaultVariables: a sequence of <<name, setting>>

ASSUME NodeAssumption == MaxNodes \in Nat /\ NULL \notin Nat \union Names
ASSUME SettingAssumption == Settings # {} /\ NULL \notin Settings
ASSUME NameAssumption == /\ LongNames \subseteq Names
                         /\ Cut \in [LongNames -> Names \ LongNames]
ASSUME DefaultAssumption == Defaults \in Seq((Names \ LongNames) \X Settings)

\* A node is named by the number of its malloc.
Nodes  == 1 .. MaxNodes
Header == 0
Cells  == Nodes \union {Header}

\* What a command prints.
Replies == {"none", "usage", "value", "no such variable", "garbage"}

VARIABLES
    link,        \* what each cell points at
    tail,        \* the cell list->tail points at
    name,        \* value.name of each node
    setting,     \* value.setting of each node
    overridden,  \* value.overridden of each node
    used,        \* how many nodes malloc has handed out
    loaded,      \* nvram_init's i
    phase,       \* "init", "delay" or "prompt"
    reply        \* what the last command printed

store == <<link, tail, name, setting, overridden, used>>
vars  == <<store, loaded, phase, reply>>

TypeOK ==
    /\ link \in [Cells -> Nodes \union {NULL}]
    /\ tail \in Cells
    /\ name \in [Nodes -> Names \union {NULL}]
    /\ setting \in [Nodes -> Settings]
    /\ overridden \in [Nodes -> {0, 1}]
    /\ used \in 0 .. MaxNodes
    /\ loaded \in 0 .. Len(Defaults)
    /\ phase \in {"init", "delay", "prompt"}
    /\ reply \in Replies

-----------------------------------------------------------------------------
(* nvram.c *)

\* nvram_initialize_list, at the start of nvram_init.
Init ==
    /\ link = [c \in Cells |-> NULL]
    /\ tail = Header
    /\ name = [n \in Nodes |-> NULL]
    /\ setting = [n \in Nodes |-> CHOOSE s \in Settings : TRUE]
    /\ overridden = [n \in Nodes |-> 0]
    /\ used = 0
    /\ loaded = 0
    /\ phase = "init"
    /\ reply = "none"

\* What follows a node, or the end of the list.
Follow(node) == IF node = NULL THEN NULL ELSE link[node]

\* The i-th node of the list, counting from 1, or NULL after the last.
Walk ==
    LET w[i \in 1 .. MaxNodes + 1] ==
            IF i = 1 THEN link[Header] ELSE Follow(w[i - 1])
    IN w

Positions(n) ==
    {i \in 1 .. MaxNodes : Walk[i] \in {node \in Nodes : name[node] = n}}
Found(n) == Positions(n) # {}

\* The walks of nvram_variable_set and nvram_variable_unset stop at the first
\* match; that of nvram_read_variable_info goes on and keeps the last.
FirstMatch(n) == Walk[Min(Positions(n))]

\* What nvram_variable_read_info copies, NULL if it copies nothing.
ReadSetting(n) ==
    LET at == Positions(n)
    IN IF at = {} THEN NULL ELSE setting[Walk[Max(at)]]

\* strncpy(name, n, 63), whose own version here always ends the copy.
StoredAs(n) == IF n \in LongNames THEN Cut[n] ELSE n

\* nvram_create_node and nvram_append_node.
AddNode(n, s) ==
    LET node == used + 1 IN
        /\ node \in Nodes
        /\ used' = node
        /\ name' = [name EXCEPT ![node] = StoredAs(n)]
        /\ setting' = [setting EXCEPT ![node] = s]
        /\ overridden' = [overridden EXCEPT ![node] = 0]
        /\ link' = [link EXCEPT ![tail] = node, ![node] = NULL]
        /\ tail' = node

\* Mutant: forgets that the variable is overridden.
SetUnmarked(n, s) ==
    IF Found(n)
    THEN /\ setting' = [setting EXCEPT ![FirstMatch(n)] = s]
         /\ UNCHANGED <<link, tail, name, overridden, used>>
    ELSE AddNode(n, s)

\* nvram_variable_set.  The name is copied over the equal one it matched.
VariableSet(n, s) ==
    IF Found(n)
    THEN /\ setting' = [setting EXCEPT ![FirstMatch(n)] = s]
         /\ overridden' = [overridden EXCEPT ![FirstMatch(n)] = 1]
         /\ UNCHANGED <<link, tail, name, used>>
    ELSE AddNode(n, s)

\* Mutant: leaves the tail where it was.
RemoveKeepingTail(node) ==
    LET cell == CHOOSE c \in Cells : link[c] = node
    IN  /\ link' = [link EXCEPT ![cell] = link[node], ![node] = NULL]
        /\ UNCHANGED tail

\* nvram_remove_node.  The node is not freed.
RemoveNode(node) ==
    LET cell == CHOOSE c \in Cells : link[c] = node
    IN  /\ link' = [link EXCEPT ![cell] = link[node], ![node] = NULL]
        /\ tail' = IF tail = node THEN cell ELSE tail

\* nvram_variable_unset.
VariableUnset(n) ==
    /\ IF Found(n) THEN RemoveNode(FirstMatch(n)) ELSE UNCHANGED <<link, tail>>
    /\ UNCHANGED <<name, setting, overridden, used>>

-----------------------------------------------------------------------------
(* main.c *)

\* nvram_init is given one less than the number of defaults.
Size == Len(Defaults) - 1

\* Mutant: the loop's usual condition.
MoreBelowSize == loaded < Size

MoreDefaults == loaded <= Size

\* One turn of nvram_init's loop.
InitVariable ==
    /\ phase = "init"
    /\ MoreDefaults
    /\ VariableSet(Defaults[loaded + 1][1], Defaults[loaded + 1][2])
    /\ loaded' = loaded + 1
    /\ UNCHANGED <<phase, reply>>

InitDone ==
    /\ phase = "init"
    /\ ~MoreDefaults
    /\ phase' = "delay"
    /\ UNCHANGED <<store, loaded, reply>>

\* delay_boot reads bootdelay and counts it down; command_prompt follows.
DelayBoot ==
    /\ phase = "delay"
    /\ phase' = "prompt"
    /\ UNCHANGED <<store, loaded, reply>>

-----------------------------------------------------------------------------
(* commands.c *)

Command(r) == phase = "prompt" /\ reply' = r /\ UNCHANGED <<loaded, phase>>

\* setenv <var> <string>
SetenvSet(n, s) == Command("none") /\ VariableSet(n, s)

\* setenv <var>
SetenvUnset(n) == Command("none") /\ VariableUnset(n)

\* setenv with no argument, or with three and more, which do nothing.
SetenvOther == \E r \in {"usage", "none"} : Command(r) /\ UNCHANGED store

\* getenv <var>.  Without a match the copy on the stack was never written: its
\* name may or may not look empty.
Getenv(n) ==
    /\ \/ Found(n) /\ Command("value")
       \/ ~Found(n) /\ \E r \in {"garbage", "no such variable"} : Command(r)
    /\ UNCHANGED store

GetenvUsage == Command("usage") /\ UNCHANGED store

\* printenv <var> compares the address of an array with NULL.
Printenv(n) ==
    /\ Command(IF Found(n) THEN "value" ELSE "garbage")
    /\ UNCHANGED store

\* printenv
PrintenvAll == Command("value") /\ UNCHANGED store

Next ==
    \/ InitVariable \/ InitDone \/ DelayBoot
    \/ \E n \in Names :
          \/ \E s \in Settings : SetenvSet(n, s)
          \/ SetenvUnset(n) \/ Getenv(n) \/ Printenv(n)
    \/ SetenvOther \/ GetenvUsage \/ PrintenvAll

Spec == Init /\ [][Next]_vars

-----------------------------------------------------------------------------
(* Properties *)

Listed == Range(Walk) \ {NULL}
Length == Cardinality(Listed)

\* Through any sequence of appends and removals, of the first, a middle, the
\* last or the only node, the list ends (no cycle), it holds only nodes that
\* were handed out, and tail is the one cell at which the next append belongs.
ListOK ==
    /\ Walk[MaxNodes + 1] = NULL
    /\ Listed \subseteq 1 .. used
    /\ link[tail] = NULL
    /\ tail = IF Length = 0 THEN Header ELSE Walk[Length]

\* No variable is listed twice, so the first match, which set and unset use,
\* is the last match, which read uses.
NamesUnique == \A n \in Names : Cardinality(Positions(n)) <= 1

\* At the prompt every default has been set, although nvram_init is told a size
\* one smaller than the number of defaults, and delay_boot found bootdelay.
DefaultsLoaded ==
    phase = "delay" => \A i \in 1 .. Len(Defaults) : Found(Defaults[i][1])

\* nvram.c, and nvram_init with it: the list and its tail agree, a variable is
\* found wherever it is looked for, and the defaults are there at the prompt.
ListSound == TypeOK /\ ListOK /\ NamesUnique /\ DefaultsLoaded

\* The list implements the dictionary.
Dictionary == INSTANCE NvramStore WITH
    Missing  <- NULL,
    dict     <- [n \in Names |-> ReadSetting(n)],
    modified <- {name[node] : node \in {m \in Listed : overridden[m] = 1}},
    listing  <- LET w == Walk IN [i \in 1 .. Length |-> name[w[i]]]

ImplementsDictionary == Dictionary!Spec

\* A variable that was set reads back as it was set ("Add/override an vnram
\* variable").
SetReadsBack ==
    [][\A n \in Names, s \in Settings :
           SetenvSet(n, s) => ReadSetting(n)' = s]_vars
=============================================================================

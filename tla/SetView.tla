------------------------------- MODULE SetView -------------------------------
(***************************************************************************)
(* The view of one named set (ui/set_view.go) with the commands it starts  *)
(* (ui/main_window_stats.go), the answers to them (ui/main_window.go) and  *)
(* the set in the kernel.  The prompt that adds elements stays open after  *)
(* every entry, so several commands may be under way, and the view may be  *)
(* left and opened again before they are answered.  The form that creates  *)
(* a set is here as far as it takes errors from the view.                  *)
(***************************************************************************)
EXTENDS SetIntervals

CONSTANTS
    StartKinds,         \* the kinds of set that are viewed
    Inputs,             \* what the user may type: a key, or a range
    ReadOnly,           \* the session is read-only
    MaxOps,             \* bound: commands started
    MaxInFlight,        \* bound: commands under way at a time
    MaxOutside          \* bound: changes by other programs

ASSUME SetViewAssumption ==
    /\ KeySpace \in Nat \ {0}
    /\ Inputs \subseteq Range_
    /\ StartKinds \subseteq Kinds /\ StartKinds # {}
    /\ {MaxOps, MaxInFlight} \subseteq Nat \ {0} /\ MaxOutside \in Nat

VARIABLES
    kind, kernel,       \* the set and its elements in the kernel
    open,               \* the view is on the screen
    setCreate,          \* the form: none, shown, or left behind unseen
    elements, cursor,   \* its rows and the row the cursor is on, from 0
    showAddPrompt, addErr, addLastHint, \* the prompt: an error, or a hint
    showDelete,         \* the delete dialog
    statusMsg,          \* an error below the rows
    ops,                \* the commands, in the order they were started
    outside,            \* counter of a bound
    seen,               \* history: what the last reading has not seen
    odd                 \* history: which odd things have been done to the set
prompt == <<showAddPrompt, addErr, addLastHint>>
rows   == <<elements, cursor>>
world  == <<kind, kernel, outside, odd, setCreate>>
vars   == <<world, open, rows, prompt, showDelete, statusMsg, ops, seen>>

NoHint == 0
Op == [cmd : {"add", "delete"}, range : Range_,
       at : {"sent", "done", "handled", "strayed"}, ok : BOOLEAN]
InFlight == {o \in DOMAIN ops : ops[o].at \in {"sent", "done"}}
CanStart == Len(ops) < MaxOps /\ Cardinality(InFlight) < MaxInFlight
Start_(cmd, range) ==
    ops' = Append(ops, [cmd |-> cmd, range |-> range, at |-> "sent", ok |-> FALSE])

(* What a reading of the kernel may yield. *)
Readings == {decodeSetElements(kind, kernel, first) : first \in BOOLEAN}

Init ==
    /\ kind \in StartKinds /\ kernel = {}
    /\ open = FALSE /\ setCreate = "none" /\ elements = << >> /\ cursor = 0
    /\ showAddPrompt = FALSE /\ addErr = FALSE /\ addLastHint = NoHint
    /\ showDelete = FALSE /\ statusMsg = FALSE
    /\ ops = << >> /\ outside = 0 /\ seen = "blind" /\ odd = {}

----------------------------------------------------------------------------
(* Every key takes the error below the rows away. *)
AnyKey == statusMsg' = FALSE

(* Opening and leaving.  A view that cannot be read opens empty.           *)
newSetView ==
    /\ ~open /\ setCreate # "shown"
    /\ open' = TRUE
    /\ \/ elements' \in Readings /\ seen' = "fresh"
       \/ elements' = << >> /\ seen' = "blind"
    /\ cursor' = 0
    /\ UNCHANGED <<world, prompt, showDelete, statusMsg, ops>>

IsModal  == showAddPrompt \/ showDelete
Browsing == open /\ ~IsModal

Back ==
    /\ Browsing
    /\ open' = FALSE /\ elements' = << >> /\ cursor' = 0
    /\ AnyKey
    /\ UNCHANGED <<world, prompt, showDelete, ops, seen>>

Up ==
    /\ Browsing /\ cursor > 0
    /\ cursor' = cursor - 1
    /\ AnyKey
    /\ UNCHANGED <<world, open, elements, prompt, showDelete, ops, seen>>

Down ==
    /\ Browsing /\ cursor < Len(elements) - 1
    /\ cursor' = cursor + 1
    /\ AnyKey
    /\ UNCHANGED <<world, open, elements, prompt, showDelete, ops, seen>>

----------------------------------------------------------------------------
(* a opens the prompt; it stays open until esc. *)
Add ==
    /\ Browsing /\ ~ReadOnly
    /\ showAddPrompt' = TRUE /\ addErr' = FALSE /\ addLastHint' = NoHint
    /\ AnyKey
    /\ UNCHANGED <<world, open, rows, showDelete, ops, seen>>

PromptEsc ==
    /\ showAddPrompt
    /\ showAddPrompt' = FALSE /\ addErr' = FALSE /\ addLastHint' = NoHint
    /\ AnyKey
    /\ UNCHANGED <<world, open, rows, showDelete, ops, seen>>

(* An error in the prompt and a hint exclude each other. *)
setAddErr == addErr' = TRUE /\ addLastHint' = NoHint

(* No key, no value, or text that does not parse. *)
EnterRefused ==
    /\ showAddPrompt
    /\ setAddErr
    /\ AnyKey
    /\ UNCHANGED <<world, open, rows, showAddPrompt, showDelete, ops, seen>>

(* The hint says "added" before the kernel is asked. *)
Enter(typed) ==
    /\ showAddPrompt /\ CanStart
    /\ ParseSetElementKey(kind, typed)
    /\ Start_("add", typed)
    /\ addErr' = FALSE /\ addLastHint' = Len(ops')
    /\ AnyKey
    /\ UNCHANGED <<world, open, rows, showAddPrompt, showDelete, seen>>

(* d asks, y starts the deletion of the row that the cursor is on by then. *)
Delete ==
    /\ Browsing /\ ~ReadOnly
    /\ cursor < Len(elements)
    /\ showDelete' = TRUE
    /\ AnyKey
    /\ UNCHANGED <<world, open, rows, prompt, ops, seen>>

Confirm ==
    /\ showDelete
    /\ showDelete' = FALSE
    /\ IF cursor < Len(elements)
       THEN CanStart /\ Start_("delete", elements[cursor + 1])
       ELSE UNCHANGED ops
    /\ AnyKey
    /\ UNCHANGED <<world, open, rows, prompt, seen>>

Decline ==
    /\ showDelete
    /\ showDelete' = FALSE
    /\ AnyKey
    /\ UNCHANGED <<world, open, rows, prompt, ops, seen>>

----------------------------------------------------------------------------
(* What goes wrong then or later: a range upside down, a range up to the   *)
(* last key, and a command for a range that is not one range any more - a  *)
(* deletion then takes the ends of two, an addition is taken for done.     *)
Oddities(o) ==
    LET typed == ops[o].range
    IN  (IF ops[o].cmd = "add" /\ UpsideDown(typed) THEN {"upside down"}
         ELSE {}) \cup
        (IF ops[o].cmd = "add" /\ LastTyped(typed) = KeySpace - 1
         THEN {"top"} ELSE {}) \cup
        (IF Splits(kernel, typed) THEN {"split"} ELSE {})

(* A command: one transaction, all of it or nothing, that may fail for     *)
(* reasons of its own.                                                     *)
AddSetElement(o) ==
    /\ ops[o].cmd = "add"
    /\ TakesAdd(kind, kernel, ops[o].range)
    /\ kernel' = kernel \cup buildSetElements(kind, ops[o].range)

DeleteSetElement(o) ==
    /\ ops[o].cmd = "delete"
    /\ LET gone == deleteSetElements(kind, ops[o].range)
       IN  TakesDelete(kernel, gone) /\ kernel' = kernel \ gone

Flush(o) ==
    /\ ops[o].at = "sent"
    /\ \/ /\ AddSetElement(o) \/ DeleteSetElement(o)
          /\ ops' = [ops EXCEPT ![o].at = "done", ![o].ok = TRUE]
          /\ seen' = IF seen = "fresh" THEN "changed" ELSE seen
          /\ odd' = odd \cup Oddities(o)
       \/ /\ ops' = [ops EXCEPT ![o].at = "done"]
          /\ UNCHANGED <<kernel, odd, seen>>
    /\ UNCHANGED <<kind, outside, setCreate>>
    /\ UNCHANGED <<open, rows, prompt, showDelete, statusMsg>>

(* Another program adds or removes a whole range, in one transaction. *)
Outside ==
    /\ outside < MaxOutside
    /\ outside' = outside + 1
    /\ \/ \E r \in Inputs :
            /\ ParseSetElementKey(kind, r) /\ ~UpsideDown(r)
            /\ r.key .. LastTyped(r) \cap Covered(kind, kernel) = {}
            /\ kernel' = kernel \cup
                 {e \in buildSetElements(kind, r) : e # Marker(0)}
       \/ \E r \in Ranges(kind, kernel) :
            kernel' = kernel \ {Start(r.key), Marker(r.keyEnd + 1)}
    /\ odd' = odd \cup {"outside"} /\ seen' = "blind"
    /\ UNCHANGED <<kind, setCreate>>
    /\ UNCHANGED <<open, rows, prompt, showDelete, statusMsg, ops>>

----------------------------------------------------------------------------
(* The answers.  What a command was is forgotten, but for how it ended. *)
Handled(at, ok) == [cmd |-> "add", range |-> [key |-> 0, keyEnd |-> NoEnd],
                    at |-> at, ok |-> ok]
Answered(o, at) ==
    /\ ops[o].at = "done"
    /\ ops' = [ops EXCEPT ![o] = Handled(at, @.ok)]

(* Mutant: the cursor may stay one below the last row. *)
Clamp_Late(c, n) == IF c > n THEN n ELSE c

Clamp(c, n) == IF c < n THEN c ELSE IF n = 0 THEN 0 ELSE n - 1

(* A reading that fails keeps the rows and says so. *)
RefreshElements ==
    \/ /\ elements' \in Readings
       /\ cursor' = Clamp(cursor, Len(elements'))
       /\ statusMsg' = FALSE
       /\ seen' = "fresh"
    \/ /\ statusMsg' = TRUE
       /\ seen' = "blind"
       /\ UNCHANGED rows

(* Mutant: only an addition is followed by a reading. *)
SetElementDone_AddOnly(o) ==
    /\ Answered(o, "handled") /\ ops[o].ok
    /\ IF open /\ ops[o].cmd = "add" THEN RefreshElements
       ELSE UNCHANGED <<rows, statusMsg, seen>>
    /\ UNCHANGED <<world, open, prompt, showDelete>>

(* setElementAddedMsg, setElementDeletedMsg *)
SetElementDone(o) ==
    /\ Answered(o, "handled") /\ ops[o].ok
    /\ IF open THEN RefreshElements
       ELSE UNCHANGED <<rows, statusMsg, seen>>
    /\ UNCHANGED <<world, open, prompt, showDelete>>

(* Mutant: the error is shown beside the hint. *)
ShowError_HintStays ==
    IF ~open THEN UNCHANGED <<prompt, statusMsg>>
    ELSE IF showAddPrompt
    THEN addErr' = TRUE /\ UNCHANGED <<showAddPrompt, addLastHint, statusMsg>>
    ELSE statusMsg' = TRUE /\ UNCHANGED prompt

(* An error of a set: in the prompt if it is open, below the rows if not,  *)
(* nowhere if the view has been left.                                      *)
ShowError ==
    IF ~open THEN UNCHANGED <<prompt, statusMsg>>
    ELSE IF showAddPrompt
    THEN setAddErr /\ UNCHANGED <<showAddPrompt, statusMsg>>
    ELSE statusMsg' = TRUE /\ UNCHANGED prompt

(* But a form that is there takes the error, whether it is shown or not. *)
setOpErrMsg(o) ==
    /\ ~ops[o].ok
    /\ IF setCreate # "none"
       THEN Answered(o, "strayed") /\ UNCHANGED <<prompt, statusMsg>>
       ELSE Answered(o, "handled") /\ ShowError
    /\ UNCHANGED <<world, open, rows, showDelete, seen>>

----------------------------------------------------------------------------
(* The form opens over the main view, and esc leaves it. *)
setCreateSelectedMsg ==
    /\ ~open /\ ~ReadOnly
    /\ setCreate' = "shown"
    /\ UNCHANGED <<kind, kernel, outside, odd, open, rows, prompt, showDelete>>
    /\ UNCHANGED <<statusMsg, ops, seen>>

SetCreateBack ==
    /\ setCreate = "shown"
    /\ setCreate' = "none"
    /\ UNCHANGED <<kind, kernel, outside, odd, open, rows, prompt, showDelete>>
    /\ UNCHANGED <<statusMsg, ops, seen>>

(* What was started elsewhere is answered now.  A table or a chain that    *)
(* was made or changed, and a set that was created, put the main view on   *)
(* the screen: a view of the set is never seen again, and only the form    *)
(* whose set was created is closed.  The error of a set that could not be  *)
(* created or deleted looks for the form and the view like any other.      *)
AnsweredElsewhere ==
    /\ ~ReadOnly
    /\ \/ /\ \/ setCreate' = IF setCreate = "shown" THEN "behind" ELSE setCreate
             \/ setCreate' = "none"
          /\ open' = FALSE /\ elements' = << >> /\ cursor' = 0
          /\ showAddPrompt' = FALSE /\ addErr' = FALSE
          /\ addLastHint' = NoHint
          /\ showDelete' = FALSE /\ statusMsg' = FALSE
       \/ /\ IF setCreate # "none" THEN UNCHANGED <<prompt, statusMsg>>
             ELSE ShowError
          /\ UNCHANGED <<setCreate, open, rows, showDelete>>
    /\ UNCHANGED <<kind, kernel, outside, odd, ops, seen>>

Keys ==
    \/ Up \/ Down \/ Add \/ PromptEsc \/ EnterRefused
    \/ \E typed \in Inputs : Enter(typed)
    \/ Delete \/ Confirm \/ Decline \/ Back
Next ==
    \/ newSetView \/ Keys \/ Outside
    \/ setCreateSelectedMsg \/ SetCreateBack \/ AnsweredElsewhere
    \/ \E o \in DOMAIN ops : Flush(o) \/ SetElementDone(o) \/ setOpErrMsg(o)
Spec == Init /\ [][Next]_vars

----------------------------------------------------------------------------
(* PROPERTIES *)

(* Every variable has its type. *)
TypeOK ==
    /\ kind \in StartKinds /\ kernel \subseteq Element
    /\ elements \in Seq(Range_) /\ cursor \in Nat
    /\ setCreate \in {"none", "shown", "behind"}
    /\ {open, showAddPrompt, addErr, showDelete, statusMsg} \subseteq BOOLEAN
    /\ odd \subseteq {"upside down", "top", "split", "outside"}
    /\ seen \in {"fresh", "changed", "blind"}
    /\ ops \in Seq(Op) /\ addLastHint \in 0 .. Len(ops)
    /\ outside \in 0 .. MaxOutside

(* The cursor is on a row whenever there are rows, however often and in    *)
(* whatever order the answers replace them.  The types are part of it.     *)
CursorOnRows ==
    TypeOK /\ (cursor < Len(elements) \/ (cursor = 0 /\ elements = << >>))

(* "added" is not left on the screen for an entry that the kernel has      *)
(* refused: the hint is gone when the refusal has been handled - unless a  *)
(* form that creates a set was left behind, which takes the refusal and    *)
(* shows it to nobody (HintIsTheTruth).                                    *)
HintIsTrue ==
    addLastHint # NoHint =>
        \/ ops[addLastHint].at \in {"sent", "done", "strayed"}
        \/ ops[addLastHint].ok

(* The same without an exception, as the handler's comment has it: an      *)
(* error means that the "added" of before is no longer the truth, and the  *)
(* hint is wiped.                                                          *)
HintIsTheTruth ==
    addLastHint # NoHint =>
        ops[addLastHint].at \in {"sent", "done"} \/ ops[addLastHint].ok

(* What was typed is what the set then matches, no key more or less, up to *)
(* the last key of the type, whatever of this program's work is under way. *)
AddsWhatWasTyped ==
    [][\A o \in DOMAIN ops :
         ops[o].cmd = "add" /\ ~ops[o].ok /\ ops'[o].ok
         /\ odd' \subseteq {"top"} =>
            Covered(kind, kernel') = Covered(kind, kernel) \cup
                ops[o].range.key .. LastTyped(ops[o].range)]_vars

(* However adding and deleting overlap, every marker of a set that only    *)
(* this program writes closes a range, and none is left behind - unless a  *)
(* range was deleted that has become several.  (A marker at 0, of a range  *)
(* up to the last key, is read and deleted wrongly.)                       *)
MarkersClose ==
    \A m \in {e \in kernel : e.end /\ e.key # 0} :
      \E s \in kernel : ~s.end /\ s.key < m.key /\
          \A x \in kernel : x.key > s.key /\ x.key < m.key => FALSE
NoOrphans == odd \subseteq {"top"} => MarkersClose

(* Every range ends in a marker of its own, before the last key, and none  *)
(* begins where another ends.                                              *)
Apart == /\ Marker(0) \notin kernel
         /\ \A r \in Ranges(kind, kernel) :
              /\ Marker(r.keyEnd + 1) \in kernel
              /\ {Start(r.keyEnd + 1), Marker(r.key)} \cap kernel = {}
RowOf(r) == [key |-> r.key,
             keyEnd |-> IF kind.interval THEN r.keyEnd ELSE NoEnd]
Agree == ToSet(elements) = {RowOf(r) : r \in Ranges(kind, kernel)}

(* A view that has read the set since its last change shows one row for    *)
(* every range of it, from its first key to its last.                      *)
RowsAreRanges == open /\ seen = "fresh" => Agree

(* The same, of ranges that keep apart and end before the last key - and   *)
(* of every view with nothing under way, which has read the set since the  *)
(* last change that it made: only other programs and failed readings leave *)
(* it behind.                                                              *)
ApartRowsAreRanges ==
    /\ open
    /\ seen = "fresh" \/ (InFlight = {} /\ seen # "blind")
    /\ kind.interval => Apart
    => Agree
=============================================================================

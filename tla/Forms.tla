------------------------------- MODULE Forms ---------------------------------
(***************************************************************************)
(* The five forms: create and rename a table, create and edit a chain,     *)
(* create a set.  Fields in slots, a focus that skips the fields which are *)
(* not shown, selections that depend on each other, and the values that a  *)
(* save sends.  Where the command goes is in RulesetOps and MainWindow;    *)
(* here it is only answered.                                               *)
(***************************************************************************)
EXTENDS Hooks

CONSTANTS
    Families,           \* the families of the tables there are
    Priorities          \* priorities chains have, or the user types

VARIABLES
    form,               \* the open form, or Closed
    touched,            \* the fields the user changed in a chain
    pending             \* the class of the command not answered yet
formVars == <<form, touched, pending>>

Kinds == {"tableCreate", "tableEdit", "chainCreate", "chainEdit", "setCreate"}
Class(kind) == CASE kind \in {"tableCreate", "tableEdit"} -> "table"
                 [] kind \in {"chainCreate", "chainEdit"} -> "chain"
                 [] OTHER -> "set"

(* Names: the one the object has, another one, and one that                *)
(* ValidateIdentifier refuses (the empty name of a new form is one too).   *)
Names   == {"old", "new", "bad"}
OnOff   == <<"off", "on">>
Widths  == <<"1", "2", "4", "8">>
Policy  == <<"accept", "drop">>
NoHook  == -1
NoChain == [name |-> "bad"]

Slots(kind) ==
    CASE kind = "tableEdit"   -> <<"name">>
      [] kind = "tableCreate" -> <<"family", "name">>
      [] kind = "chainEdit"   -> <<"name", "type", "hook", "priority", "policy">>
      [] kind = "chainCreate" -> <<"name", "kind", "type", "hook", "priority",
                                   "policy">>
      [] kind = "setCreate"   -> <<"name", "keyType", "isMap", "dataType",
                                   "width", "constant", "interval", "timeout",
                                   "dynamic">>

(* A chain with a hook is a base chain; the form of a regular one has only *)
(* the name.                                                               *)
IsBase(f) == IF f.kind = "chainEdit" THEN f.chain.hook # NoHook
             ELSE f.val["kind"] = "base"
Visible(f, field) ==
    CASE f.kind \in {"chainEdit", "chainCreate"}
           /\ field \in {"type", "hook", "priority", "policy"} -> IsBase(f)
      [] field = "dataType" -> f.val["isMap"] = "on"
      [] field = "width"    -> f.val["isMap"] = "on"
                                 /\ f.val["dataType"] = "integer"
      [] OTHER -> TRUE

(* The types of set keys: the first one, the one that a map starts with,   *)
(* and the one that has a width.                                           *)
KeyTypes == <<"ipv4_addr", "mark", "integer">>
MapTypes == Append(KeyTypes, "verdict")

(* What a selection offers.  The hooks on offer are set when the form      *)
(* opens and when its type changes, and are kept in between.               *)
Options(f, field) ==
    CASE field = "family" -> FamilyOptions
      [] field = "kind"   -> <<"regular", "base">>
      [] field = "type"   -> ValidChainTypesForFamily(f.family)
      [] field = "hook"   -> f.hooks
      [] field = "policy" -> Policy
      [] field = "keyType"  -> KeyTypes
      [] field = "dataType" -> MapTypes
      [] field = "width"    -> Widths
      [] OTHER -> OnOff
Select(options, x) == options[indexOf(options, x)]

(* The text of a number input is the number it reads as, if it is one.     *)
(* CharLimit 10 cuts a priority of eleven characters.                      *)
Shorten(prio) == IF prio <= -1000000000 THEN -((-prio) \div 10) ELSE prio
SetValue(prio) == <<Shorten(prio)>>
NotANumber     == << >>
GetValue(text) == IF text = NotANumber THEN 0 ELSE text[1]

----------------------------------------------------------------------------
(* newTableEdit, newTableCreate, newChainEdit, newChainCreate,             *)
(* newSetCreate                                                            *)
Closed == [kind |-> "none"]
Opened(kind, family, chain, hooks, val) ==
    [kind |-> kind, family |-> family, chain |-> chain, hooks |-> hooks,
     val |-> val, slot |-> 1, status |-> FALSE]

OpenForm(f) ==
    /\ form = Closed
    /\ form' = f
    /\ touched' = {}
    /\ UNCHANGED pending

OpenTable ==
    \/ OpenForm(Opened("tableCreate", "none", NoChain, << >>,
                   [family |-> "ipv4", name |-> "bad"]))
    \/ OpenForm(Opened("tableEdit", "none", NoChain, << >>, [name |-> "old"]))

OpenSetCreate ==
    OpenForm(Opened("setCreate", "none", NoChain, << >>,
           [name |-> "bad", keyType |-> KeyTypes[1],
            isMap |-> "off", dataType |-> Select(MapTypes, "mark"),
            width |-> "4", constant |-> "off", interval |-> "off",
            timeout |-> "off", dynamic |-> "off"]))

OpenChainCreate ==
    \E family \in Families :
        LET hooks == ValidChainHooksForTypeFamily("filter", family)
        IN  OpenForm(Opened("chainCreate", family, NoChain, hooks,
               [name |-> "bad", kind |-> "base", type |-> "filter",
                hook |-> Select(hooks, "input"), priority |-> SetValue(0),
                policy |-> "accept"]))

(* The chains a listing can hold. *)
RegularChain == [name |-> "old", type |-> "", hook |-> NoHook,
                 priority |-> 0, policy |-> "accept"]
BaseChains(family) ==
    UNION {{[name |-> "old", type |-> type, hook |-> num,
             priority |-> prio, policy |-> policy] :
              prio \in Priorities, policy \in ToSet(Policy),
              num \in {n \in KernelHooks(family) :
                         Contains(ValidChainHooksForTypeFamily(type, family),
                                  KernelName(family, n))}} :
             type \in ToSet(ValidChainTypesForFamily(family))}

(* Mutant: the selection of the policy is left at its first option. *)
Fields_NoPolicy(chain, family) ==
    LET hooks == ValidChainHooksForTypeFamily(chain.type, family)
    IN  [name |-> chain.name,
         type |-> Select(ValidChainTypesForFamily(family), chain.type),
         hook |-> Select(hooks, ChainHookNumToString(chain.hook)),
         priority |-> SetValue(chain.priority),
         policy |-> Policy[1]]

Fields(chain, family) ==
    LET hooks == ValidChainHooksForTypeFamily(chain.type, family)
    IN  [name |-> chain.name,
         type |-> Select(ValidChainTypesForFamily(family), chain.type),
         hook |-> IF chain.hook = NoHook THEN hooks[1]
                  ELSE Select(hooks, ChainHookNumToString(chain.hook)),
         priority |-> SetValue(chain.priority),
         policy |-> Select(Policy, chain.policy)]

OpenChainEdit ==
    \E family \in Families :
        \E chain \in BaseChains(family) \cup {RegularChain} :
            OpenForm(Opened("chainEdit", family, chain,
                        ValidChainHooksForTypeFamily(chain.type, family),
                        Fields(chain, family)))

----------------------------------------------------------------------------
(* Keys *)
Focus(f)   == Slots(f.kind)[f.slot]
Touch(fld) == IF form.kind = "chainEdit" THEN touched \cup {fld} ELSE touched
Key        == form # Closed /\ UNCHANGED pending
Shown(f)   == {i \in DOMAIN Slots(f.kind) : Visible(f, Slots(f.kind)[i])}

(* Mutant: tab counts the slots and not the fields shown. *)
Following_AllSlots(f) == (f.slot % Len(Slots(f.kind))) + 1

(* The next field shown, after the last one the first. *)
Following(f) ==
    LET after == {i \in Shown(f) : i > f.slot}
    IN  IF after # {} THEN CHOOSE i \in after : \A j \in after : i <= j ELSE 1
Preceding(f) ==
    LET before == {i \in Shown(f) : i < f.slot}
        from   == IF before # {} THEN before ELSE Shown(f)
    IN  CHOOSE i \in from : \A j \in from : i >= j

NextField ==
    /\ Key
    /\ form' = [form EXCEPT !.slot = Following(form)]
    /\ UNCHANGED touched
PrevField ==
    /\ Key
    /\ form' = [form EXCEPT !.slot = Preceding(form)]
    /\ UNCHANGED touched

(* Mutant: the hooks of the old type stay on offer. *)
syncHookOptions_Kept(f) == f

(* A change of type changes the hooks on offer; the hook is kept if it     *)
(* still is one of them, or becomes the first.                             *)
syncHookOptions(f) ==
    LET valid == ValidChainHooksForTypeFamily(f.val["type"], f.family)
    IN  [f EXCEPT !.hooks = valid, !.val["hook"] = Select(valid, @)]

(* Left and right in a selection: one option, and not beyond the ends. *)
Choose(step) ==
    LET field   == Focus(form)
        options == Options(form, field)
        i       == indexOf(options, form.val[field]) + step
        f       == [form EXCEPT !.val[field] = options[i]]
    IN  /\ Key
        /\ field \notin {"name", "priority"}
        /\ i \in DOMAIN options
        /\ form' = IF field = "type" THEN syncHookOptions(f) ELSE f
        /\ touched' = Touch(field)

(* Typing in a text field, until it holds what the user wants. *)
Type ==
    /\ Key
    /\ \E text \in IF Focus(form) = "name" THEN Names
                   ELSE {SetValue(p) : p \in Priorities} \cup {NotANumber} :
         /\ Focus(form) \in {"name", "priority"}
         /\ text # form.val[Focus(form)]
         /\ form' = [form EXCEPT !.val[Focus(form)] = text]
    /\ touched' = Touch(Focus(form))

----------------------------------------------------------------------------
(* buildNewSpec and buildSpec: a regular chain has a name only. *)
BuildSpec(f) ==
    IF IsBase(f)
    THEN [name |-> f.val["name"], type |-> f.val["type"],
          hook |-> ChainHookFromString(f.val["hook"]),
          priority |-> GetValue(f.val["priority"]),
          policy |-> f.val["policy"]]
    ELSE [RegularChain EXCEPT !.name = f.val["name"]]

(* hasChanges, and the test of the table form. *)
Changes(f) ==
    CASE f.kind = "chainEdit" -> BuildSpec(f) # f.chain
      [] f.kind = "tableEdit" -> f.val["name"] # "old"
      [] OTHER -> TRUE
Sends(f) == f.val["name"] # "bad" /\ Changes(f)

(* F2: the form stays open until the answer comes.  Bound: one unanswered  *)
(* command.                                                                *)
SaveSends ==
    /\ form # Closed
    /\ Sends(form)
    /\ pending = "none"
    /\ pending' = Class(form.kind)
    /\ form' = [form EXCEPT !.status = FALSE]
    /\ UNCHANGED touched

(* F2 on a name that is refused: an error, and the form stays. *)
SaveRefused ==
    /\ Key
    /\ form.val["name"] = "bad"
    /\ form' = [form EXCEPT !.status = TRUE]
    /\ UNCHANGED touched

(* F2 without a change: the chain form closes as after a save, the table   *)
(* form stays as it is.                                                    *)
SaveUnchanged ==
    /\ Key
    /\ form.val["name"] # "bad" /\ ~Sends(form)
    /\ form.kind = "chainEdit"
    /\ form' = Closed
    /\ touched' = {}

Cancel ==
    /\ Key
    /\ form' = Closed
    /\ touched' = {}

(* The answer.  A success shows the main view, whatever is open; an error  *)
(* is shown in a form of its class, if there is one.                       *)
AnswerOk ==
    /\ pending # "none"
    /\ pending' = "none"
    /\ form' = Closed
    /\ touched' = {}
AnswerError ==
    /\ pending # "none"
    /\ pending' = "none"
    /\ form' = IF form # Closed /\ Class(form.kind) = pending
               THEN [form EXCEPT !.status = TRUE] ELSE form
    /\ UNCHANGED touched

FormInit == form = Closed /\ touched = {} /\ pending = "none"
FormNext ==
    \/ OpenTable \/ OpenSetCreate \/ OpenChainCreate \/ OpenChainEdit
    \/ NextField \/ PrevField \/ Choose(-1) \/ Choose(1) \/ Type
    \/ SaveSends \/ SaveRefused \/ SaveUnchanged \/ Cancel
    \/ AnswerOk \/ AnswerError
FormSpec == FormInit /\ [][FormNext]_formVars

----------------------------------------------------------------------------
(* PROPERTIES *)

(* What a field can hold: a selection something it offers.                 *)
Fits(f, field) ==
    CASE field = "name" -> f.val[field] \in Names
      [] field = "priority" -> TRUE
      [] OTHER -> Contains(Options(f, field), f.val[field])
(* Every variable has its type. *)
FormTypeOK ==
    /\ pending \in {"none", "table", "chain", "set"}
    /\ \/ form = Closed /\ touched = {}
       \/ /\ DOMAIN form = DOMAIN Opened("", "", "", "", "")
          /\ form.kind \in Kinds
          /\ form.slot \in DOMAIN Slots(form.kind)
          /\ DOMAIN form.val = ToSet(Slots(form.kind))
          /\ touched \subseteq DOMAIN form.val
          /\ \A field \in DOMAIN form.val : Fits(form, field)

(* The focus is on a field that is shown: whatever the user switches off,  *)
(* the next key goes where the screen says; and every selection holds      *)
(* something it offers.                                                    *)
FocusIsShown == FormTypeOK /\ (form # Closed => form.slot \in Shown(form))

(* The hook a new chain gets from the kernel is the one chosen, except     *)
(* ingress in an inet table (the chain becomes a prerouting chain), input  *)
(* in an arp table (an output chain) and output there (refused).           *)
NewHookIsChosen ==
    form # Closed /\ form.kind = "chainCreate" /\ IsBase(form) =>
        (KernelName(form.family, BuildSpec(form).hook) = form.val["hook"]
           <=> <<form.family, form.val["hook"]>> \notin
                 {<<"inet", "ingress">>, <<"arp", "input">>,
                  <<"arp", "output">>})

(* The hooks on offer are those of the type and the family. *)
HooksOffered ==
    form # Closed /\ Class(form.kind) = "chain" =>
      form.hooks = ValidChainHooksForTypeFamily(form.val["type"], form.family)

(* A form of a base chain only offers, and only sends, hooks that its type *)
(* can have in its family, in whatever order type and hook were chosen,    *)
(* and the kernel makes of them what was chosen.                           *)
HookFitsType == HooksOffered /\ NewHookIsChosen

(* What the user asked to change: the hook may follow the type.            *)
Asked(field) ==
    field \in touched \/ (field = "hook" /\ "type" \in touched)

(* A chain that the form can show.                                         *)
CanShow(f) ==
    /\ <<f.family, f.chain.hook>> \notin
         {<<"inet", 5>>, <<"arp", 0>>, <<"netdev", 1>>}
    /\ f.chain.priority = Shorten(f.chain.priority)
(* What a save of the edit form sends differs from the chain only in what  *)
(* the user asked to change, so that a save of an untouched form sends     *)
(* nothing (chain_edit.go, 185).  That is so exactly for the chains that   *)
(* the form can show: not those whose hook has another name by its number, *)
(* nor those with a priority of eleven characters, which a save changes    *)
(* whatever the user does.                                                 *)
OnlyTouchedChanges ==
    form # Closed /\ form.kind = "chainEdit" =>
        LET sent == BuildSpec(form)
        IN  IF CanShow(form)
            THEN \A field \in DOMAIN sent :
                   sent[field] # form.chain[field] => Asked(field)
            ELSE touched = {} => Sends(form)
=============================================================================

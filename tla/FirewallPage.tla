---------------------------- MODULE FirewallPage ----------------------------
(***************************************************************************)
(* The firewall page of the browser (features/firewall): the rules of a    *)
(* chain in a table whose cells are edited in place, the details of a      *)
(* rule, the drawer that creates and edits one, and the delete dialog.     *)
(* Comments are left out.                                                  *)
(***************************************************************************)
EXTENDS ContentPage

CONSTANTS
    Chains, DefaultChain,        \* the tabs, and the one the page opens with
    Addresses, ListNames, Bad,   \* what an address may be; a text that is neither
    Ports,                       \* port lists and ranges
    PortProtocols,               \* those with ports: tcp and udp
    OtherProtocols,
    Interfaces, ConnStates, Actions, DefaultAction

VARIABLES
    tab,          \* the chain whose rules are listed
    ruleForm,     \* the drawer
    ruleDetail,   \* the rule whose details are open
    ruleAsk,      \* the rule the delete dialog asks about
    cell          \* the cell that is being edited

ASSUME ChainsAssumption == DefaultChain \in Chains
\* The text Bad is none of the others.
ASSUME BadAssumption ==
    Bad \notin {Nothing} \cup Addresses \cup ListNames \cup Ports \cup PortProtocols
               \cup OtherProtocols \cup Interfaces \cup ConnStates \cup Actions
               \cup {DefaultAction}

ruleOverlays == <<ruleForm, ruleDetail, ruleAsk>>
firewallVars == <<tab, ruleForm, ruleDetail, ruleAsk, cell>>

\* FirewallRule. A field that is not set is Nothing.
Optional ==
    {"srcAddress", "srcAddressList", "dstAddress", "dstAddressList", "protocol",
     "srcPort", "dstPort", "inInterface", "outInterface", "connectionState"}
Merged(f, g) == [x \in DOMAIN f \cup DOMAIN g |-> IF x \in DOMAIN f THEN f[x] ELSE g[x]]
Rule(fields) == Merged([kind |-> "rule"], Merged(fields, [f \in Optional |-> Nothing]))

InChain == {r \in Rows : r.val.chain = tab}
Texts == {Nothing, Bad} \cup Addresses \cup ListNames
ValidAddress(v) == v # Bad
Or(v, w) == IF v # Nothing THEN v ELSE w

Uncovered == ~ruleForm.open /\ ruleDetail = None /\ ruleAsk = None

-----------------------------------------------------------------------------
(* The cells of the table. One is edited at a time. Leaving a cell of text *)
(* saves it; Escape gives a port up, but an address, which it blurs first, *)
(* is saved all the same.                                                  *)

NoCell == [id |-> None.id, error |-> FALSE]
EditCell(r, field, value) ==
    cell' = [id |-> r.id, field |-> field, value |-> value, error |-> FALSE]
Editing(r, field) == cell # NoCell /\ cell.id = r.id /\ cell.field = field

\* The fields of a patch that are undefined are not in the JSON.
SetField(field, v) == [f \in IF v = Nothing THEN {} ELSE {field} |-> v]

\* handleUpdate of the page.
OnUpdate(r, patch) == Send("update", <<r.id>>, Nothing, patch, "cell")
Keep == UNCHANGED contentVars
Blurred == cell = NoCell \/ cell.error   \* a click elsewhere was the end of the edit
Still == UNCHANGED <<tab, ruleOverlays>>

\* Mutant: the text of a cell is saved without a check.
SaveUnchecked(r, old, patch) ==
    /\ cell' = NoCell
    /\ IF cell.value # old THEN OnUpdate(r, patch) ELSE Keep

\* saveSource, saveDest, saveSrcPort, saveDstPort.
Save(r, old, patch) ==
    IF cell.value = Bad
    THEN cell' = [cell EXCEPT !.error = TRUE] /\ Keep
    ELSE /\ cell' = NoCell
         /\ IF cell.value # old THEN OnUpdate(r, patch) ELSE Keep

AddressPatch(addr, list, v) ==
    IF v \in ListNames THEN SetField(list, v) ELSE SetField(addr, v)

AddressCell(r, addr, list) ==
    LET old == Or(r.val[addr], r.val[list])
        patch == AddressPatch(addr, list, cell.value)
    IN  \/ cell = NoCell /\ EditCell(r, addr, old) /\ Keep
        \/ /\ Editing(r, addr)
           /\ \/ \E v \in Texts : cell' = [cell EXCEPT !.value = v, !.error = FALSE] /\ Keep
              \/ Save(r, old, patch)
              \/ \* Escape
                 /\ cell' = NoCell
                 /\ IF ValidAddress(cell.value) /\ cell.value # old
                    THEN OnUpdate(r, patch) ELSE Keep

SourceCell(r) == AddressCell(r, "srcAddress", "srcAddressList")
DestinationCell(r) == AddressCell(r, "dstAddress", "dstAddressList")

PortCell(r, port) ==
    \/ cell = NoCell /\ EditCell(r, port, r.val[port]) /\ Keep
    \/ /\ Editing(r, port)
       /\ \/ \E v \in Ports \cup {Nothing, Bad} :
                cell' = [cell EXCEPT !.value = v, !.error = FALSE] /\ Keep
          \/ Save(r, r.val[port], SetField(port, cell.value))
          \/ cell' = NoCell /\ Keep
SourcePortCell(r) == PortCell(r, "srcPort")
DestinationPortCell(r) == PortCell(r, "dstPort")

\* A choice ends the edit.
ChoiceCell(r, field, sent) ==
    \/ cell = NoCell /\ EditCell(r, field, r.val[field]) /\ Keep
    \/ /\ Editing(r, field)
       /\ cell' = NoCell
       /\ Keep \/ \E patch \in sent : OnUpdate(r, patch)

ProtocolCell(r) ==
    ChoiceCell(r, "protocol",
               {SetField("protocol", p) :
                  p \in (PortProtocols \cup OtherProtocols \cup {Nothing}) \ {r.val.protocol}})

\* The interfaces are sent whether they changed or not.
InInterfaceCell(r) ==
    ChoiceCell(r, "inInterface", {SetField("inInterface", i) : i \in Interfaces \cup {Nothing}})
OutInterfaceCell(r) ==
    ChoiceCell(r, "outInterface", {SetField("outInterface", i) : i \in Interfaces \cup {Nothing}})

\* The connection states go out as an array, which the handler refuses, or
\* not at all.
ConnStateCell(r) ==
    \/ ChoiceCell(r, "connectionState", {<<>>})
    \/ /\ Editing(r, "connectionState")
       /\ cell' = NoCell
       /\ Send("refused", <<>>, Nothing, <<>>, "cell")

ActionCell(r) ==
    ChoiceCell(r, "action", {[action |-> a] : a \in Actions \ {r.val.action}})

EditCells(r) ==
    /\ \/ SourceCell(r)
       \/ DestinationCell(r)
       \/ SourcePortCell(r)
       \/ DestinationPortCell(r)
       \/ ProtocolCell(r)
       \/ InInterfaceCell(r)
       \/ OutInterfaceCell(r)
       \/ ConnStateCell(r)
       \/ ActionCell(r)
    /\ Still

\* handleReorder: the ID goes out as ".id", which the handler does not know.
DragRule(r, over) ==
    /\ r # over
    /\ Send("refused", <<>>, Nothing, <<>>, "drag")
    /\ UNCHANGED firewallVars

-----------------------------------------------------------------------------
(* The drawer.                                                             *)

ClosedForm == [open |-> FALSE]

\* What may be left open.
Inputs == {"src", "dst", "protocol", "srcPort", "dstPort", "inInterface", "outInterface",
           "connectionState"}

\* getInitialState, and the effect that resets the drawer when it opens.
GetInitialState(edit) ==
    Merged([open |-> TRUE, edit |-> edit, saving |-> FALSE],
           IF edit = None
           THEN Merged([action |-> DefaultAction, disabled |-> TRUE],
                       [f \in Inputs |-> Nothing])
           ELSE Merged([src |-> Or(edit.val.srcAddressList, edit.val.srcAddress),
                        dst |-> Or(edit.val.dstAddressList, edit.val.dstAddress)],
                       [f \in ({"action", "disabled"} \cup Inputs) \ {"src", "dst"} |->
                          edit.val[f]]))

PortsEnabled(f) == f.protocol \in PortProtocols
\* What is typed for a port is never checked.
PortInput(f) == IF PortsEnabled(f) THEN Ports \cup {Nothing, Bad} ELSE {}

\* AddressInput: the badge of a list can only be taken away.
AddressInput(v) == IF v \in ListNames THEN {Nothing} ELSE Texts

\* The inputs of the drawer; ports go with a protocol that has none.
Changed(f) ==
    {[f EXCEPT !.action = a] : a \in Actions}
    \cup {[f EXCEPT !.disabled = ~@]}
    \cup {[f EXCEPT !.src = v] : v \in AddressInput(f.src)}
    \cup {[f EXCEPT !.dst = v] : v \in AddressInput(f.dst)}
    \cup {[f EXCEPT !.protocol = p] : p \in PortProtocols}
    \cup {[f EXCEPT !.protocol = p, !.srcPort = Nothing, !.dstPort = Nothing] :
            p \in OtherProtocols \cup {Nothing}}
    \cup {[f EXCEPT !.srcPort = v] : v \in PortInput(f)}
    \cup {[f EXCEPT !.dstPort = v] : v \in PortInput(f)}
    \cup {[f EXCEPT !.inInterface = i] : i \in Interfaces \cup {Nothing}}
    \cup {[f EXCEPT !.outInterface = i] : i \in Interfaces \cup {Nothing}}
    \cup {[f EXCEPT !.connectionState = s] : s \in ConnStates \cup {Nothing}}

TypeInForm ==
    /\ ruleForm.open
    /\ ruleForm' \in Changed(ruleForm)
    /\ UNCHANGED <<contentVars, tab, ruleDetail, ruleAsk, cell>>

\* What is not set is not sent: an edit cannot clear a field.
RuleData(f) ==
    LET list(v) == IF v \in ListNames THEN v ELSE Nothing
        addr(v) == IF v \in ListNames THEN Nothing ELSE v
        port(v) == IF PortsEnabled(f) THEN v ELSE Nothing
        data == [action |-> f.action, disabled |-> f.disabled, protocol |-> f.protocol,
                 srcAddress |-> addr(f.src), srcAddressList |-> list(f.src),
                 dstAddress |-> addr(f.dst), dstAddressList |-> list(f.dst),
                 srcPort |-> port(f.srcPort), dstPort |-> port(f.dstPort),
                 inInterface |-> f.inInterface, outInterface |-> f.outInterface,
                 connectionState |-> f.connectionState]
    IN  [x \in {x \in DOMAIN data : data[x] # Nothing} |-> data[x]]

\* The chain of a new rule is that of the tab; UpdateFirewallRule ignores it.
SubmitForm ==
    /\ ruleForm.open /\ ~ruleForm.saving
    /\ ValidAddress(ruleForm.src) /\ ValidAddress(ruleForm.dst)
    /\ IF ruleForm.edit = None
       THEN Send("create", <<>>, Rule(Merged([chain |-> tab], RuleData(ruleForm))), <<>>, "form")
       ELSE Send("update", <<ruleForm.edit.id>>, Nothing, RuleData(ruleForm), "form")
    /\ ruleForm' = [ruleForm EXCEPT !.saving = TRUE]
    /\ UNCHANGED <<tab, ruleDetail, ruleAsk, cell>>

CloseForm ==
    /\ ruleForm.open
    /\ ruleForm' = ClosedForm
    /\ UNCHANGED <<contentVars, tab, ruleDetail, ruleAsk, cell>>

-----------------------------------------------------------------------------
(* The page.                                                               *)

\* Mutant: the details stay open under the drawer.
OpenRuleFormOver(edit) ==
    /\ ruleForm' = GetInitialState(edit)
    /\ UNCHANGED <<contentVars, tab, ruleDetail, ruleAsk, cell>>

OpenRuleForm(edit) ==
    /\ ruleForm' = GetInitialState(edit)
    /\ ruleDetail' = None
    /\ UNCHANGED <<contentVars, tab, ruleAsk, cell>>

ShowRule(r) ==
    /\ ruleDetail' = r
    /\ UNCHANGED <<contentVars, tab, ruleForm, ruleAsk, cell>>

AskDeleteRule(r) ==
    /\ ruleAsk' = r
    /\ ruleDetail' = None
    /\ UNCHANGED <<contentVars, tab, ruleForm, cell>>

\* handleAddRule.
AddRule == Loaded /\ Uncovered /\ Blurred /\ OpenRuleForm(None)

SortableRow(r) ==
    \/ EditCells(r)
    \/ \E over \in InChain : Blurred /\ DragRule(r, over)
    \/ Blurred /\ (ShowRule(r) \/ OpenRuleForm(r) \/ AskDeleteRule(r))
TableOfRules == Uncovered /\ \E r \in InChain : SortableRow(r)

\* The details show the rule as it was when they were opened.
FirewallDetail ==
    /\ ruleDetail # None
    /\ ShowRule(None) \/ OpenRuleForm(ruleDetail) \/ AskDeleteRule(ruleDetail)

\* A cell goes with its row.
SelectTab ==
    /\ Loaded /\ Uncovered /\ Blurred
    /\ \E c \in Chains \ {tab} : tab' = c
    /\ cell' = NoCell
    /\ UNCHANGED <<contentVars, ruleOverlays>>

\* handleDeleteConfirm; the dialog closes.
ConfirmDeleteRule ==
    /\ ruleAsk # None
    /\ \/ Send("delete", <<ruleAsk.id>>, Nothing, <<>>, "delete")
       \/ UNCHANGED contentVars
    /\ ruleAsk' = None
    /\ UNCHANGED <<tab, ruleForm, ruleDetail, cell>>

\* The answers. That of a form closes whichever form is open and ends its
\* "saving"; that of the latest delete clears what the dialog asks about
\* and the details.
AnswerRule(i) ==
    LET q == requests[i]
        ok == q.reply = "ok"
        called == ok /\ q.by = "delete"
                  /\ ~\E j \in DOMAIN requests : j > i /\ requests[j].op = "delete"
                                                      /\ requests[j].by = "delete"
    IN  /\ q.by \in {"cell", "drag", "form", "delete"} /\ ~Running(q) /\ q.told = "no"
        /\ Take(i, ok)
        /\ ruleForm' = IF q.by # "form" \/ ~ruleForm.open THEN ruleForm
                       ELSE IF ok THEN ClosedForm
                       ELSE [ruleForm EXCEPT !.saving = FALSE]
        /\ ruleAsk' = IF called THEN None ELSE ruleAsk
        /\ ruleDetail' = IF called THEN None ELSE ruleDetail
        /\ UNCHANGED <<tab, cell>>

\* The row of a rule that is gone takes its cell along.
FetchRules ==
    /\ Fetch
    /\ cell' = IF \E r \in {shown'[k] : k \in DOMAIN shown'} : r.id = cell.id
               THEN cell ELSE NoCell
    /\ UNCHANGED <<tab, ruleOverlays>>

\* To another cluster and back: the page starts anew.
ChangeCluster ==
    /\ Loaded
    /\ tab' = DefaultChain
    /\ ruleForm' = ClosedForm /\ ruleDetail' = None /\ ruleAsk' = None
    /\ cell' = NoCell
    /\ stale' = TRUE
    /\ UNCHANGED <<serviceVars, shown, early>>

InitFirewall ==
    /\ tab = DefaultChain
    /\ ruleForm = ClosedForm /\ ruleDetail = None /\ ruleAsk = None
    /\ cell = NoCell

FirewallNext ==
    \/ FetchRules
    \/ SelectTab
    \/ AddRule
    \/ TableOfRules
    \/ FirewallDetail
    \/ TypeInForm
    \/ SubmitForm
    \/ CloseForm
    \/ ConfirmDeleteRule
    \/ \E i \in DOMAIN requests : AnswerRule(i)
    \/ ChangeCluster

-----------------------------------------------------------------------------
(* Properties.                                                             *)

FirewallTypeOK ==
    /\ tab \in Chains
    /\ ruleForm.open => ruleDetail = None /\ ruleAsk = None
    /\ cell # NoCell /\ cell.error => cell.value = Bad

AddressFields == {"srcAddress", "srcAddressList", "dstAddress", "dstAddressList"}
ValidText(q) ==
    /\ \A f \in DOMAIN q.patch : f \in AddressFields \/ q.by = "cell" => q.patch[f] # Bad
    /\ q.op = "create" => \A f \in AddressFields \cap DOMAIN q.val : q.val[f] # Bad

\* No request of the page carries a text for an address that is neither an
\* address nor a list, and none of a cell one for a port that is not a port,
\* however the cell was left (validateAddress and validatePort of the cells,
\* validateAddress of the drawer).
SentTextIsValid == \A i \in DOMAIN requests : requests[i].by # "other" => ValidText(requests[i])

=============================================================================
